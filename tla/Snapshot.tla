------------------------------ MODULE Snapshot ------------------------------
(***************************************************************************)
(* The store's directory under GraphDb::snapshot_with, crashes and         *)
(* restarts (crates/core-api/src/db.rs).  A snapshot touches up to six     *)
(* files in order: the genesis marker, snapshot.intent, snapshot.bin, the  *)
(* WAL and its archives, and wal.floor.  Between any two of those writes   *)
(* the process may crash, or an I/O error may hand the half-done snapshot  *)
(* back to a handle that goes on writing.                                  *)
(*                                                                         *)
(* A WAL frame is a commit, named by its place 1, 2, ... in the history of *)
(* the store, or Declaration, the record of an opt-in (an index, full-text *)
(* search, multiplicity) that every replacement WAL repeats.  A database   *)
(* state is the sequence of the commits applied to it, so a commit that is *)
(* applied twice or lost shows.  Checksums are taken to be exact, and the  *)
(* frames of all commits to have the same bytes, the worst case for them:  *)
(* a mark matches every WAL that begins with as many commits.              *)
(***************************************************************************)
EXTENDS Naturals, SequencesExt

CONSTANTS
    None,         \* no WAL mark in a snapshot; open_at refused
    Carried,      \* the snapshot carries the declarations itself (format V11)
    Keep,         \* wal_archive_retention; 0 keeps every archive
    Kinds,        \* the kinds of snapshot taken
    Modes,        \* whether a handle is shared: TRUE, FALSE or either
    MaxCommits,   \* bound on the commits ever made
    MaxSnapshots, \* bound on the snapshots begun
    MaxCrashes,   \* bound on crashes
    MaxErrors     \* bound on I/O errors during a snapshot

ASSUME SnapshotBounds ==
    /\ Carried \in BOOLEAN
    /\ {Keep, MaxCommits, MaxSnapshots, MaxCrashes, MaxErrors} \subseteq Nat
    /\ Kinds \subseteq {"archive", "keep", "truncate"}
    /\ Modes \subseteq BOOLEAN
    /\ None \notin Seq(Nat)

Declaration == 0
Frames == 0..MaxCommits

VARIABLES
    \* The files.
    wal,        \* the frames of wal.bin; an absent file reads as an empty one
    snapshot,   \* snapshot.bin
    intent,     \* the records of snapshot.intent
    archives,   \* wal.<N>.archive, by N
    floor,      \* wal.floor
    genesis,    \* the genesis marker exists
    \* The handle.
    pc,         \* "down", "open", or the snapshot step it is at
    shared,     \* the handle is a SharedDb's and refreshes before it writes
    kind,       \* the snapshot being taken
    buf,        \* its encoding
    doomed,     \* the archives it still has to delete
    state, declared, wal_horizon_floor, archive_genesis_chain,
    snapshot_preserved_history, intent_unsettled, wal_frames_written,
    stale,      \* the files were replaced since the handle last took their identity
    \* History.
    made,       \* the number of commits ever made
    enabled,    \* the declaration was ever made
    numbers,    \* the commit numbers ever stamped: pairs of number and commit
    snapshots, crashes, errors

files  == <<wal, snapshot, intent, archives, floor, genesis>>
handle == <<shared, state, declared, wal_horizon_floor, archive_genesis_chain,
            snapshot_preserved_history, intent_unsettled, wal_frames_written, stale>>
taking == <<kind, buf, doomed>>
past   == <<made, enabled, numbers, snapshots, crashes, errors>>
vars   == <<files, pc, handle, taking, past>>

NoSnapshot == [exists |-> FALSE, state |-> <<>>, mark |-> None, truncated |-> FALSE,
               decl |-> FALSE]

History(n) == [i \in 1..n |-> i]

\* The commits among the frames, in order.
Data(frames) ==
    LET upTo[n \in 0..Len(frames)] ==
            IF n = 0 THEN <<>>
            ELSE IF frames[n] = Declaration THEN upTo[n - 1]
            ELSE Append(upTo[n - 1], frames[n])
    IN  upTo[Len(frames)]

\* WalMark: the length and the checksum of a WAL, and whether a WAL begins so.
Bytes(frames) == [i \in 1..Len(frames) |-> frames[i] = Declaration]
Matches(mark, frames) == IsPrefix(Bytes(mark), Bytes(frames))

\* list_archives: the k-th oldest; and the frames of all, oldest first.
Name(as, k) == CHOOSE n \in DOMAIN as : Cardinality({m \in DOMAIN as : m <= n}) = k
Archived(as) ==
    LET upTo[k \in 0..Cardinality(DOMAIN as)] ==
            IF k = 0 THEN <<>> ELSE upTo[k - 1] \o as[Name(as, k)]
    IN  upTo[Cardinality(DOMAIN as)]
Without(as, ns) == [n \in DOMAIN as \ ns |-> as[n]]

Init ==
    /\ wal = <<>> /\ snapshot = NoSnapshot /\ intent = <<>> /\ archives = <<>>
    /\ floor = 0 /\ genesis = FALSE
    /\ pc = "down" /\ shared = FALSE /\ kind = "keep" /\ buf = NoSnapshot /\ doomed = {}
    /\ state = <<>> /\ declared = FALSE /\ wal_horizon_floor = 0
    /\ archive_genesis_chain = FALSE /\ snapshot_preserved_history = FALSE
    /\ intent_unsettled = FALSE /\ wal_frames_written = 0 /\ stale = FALSE
    /\ made = 0 /\ enabled = FALSE /\ numbers = {}
    /\ snapshots = 0 /\ crashes = 0 /\ errors = 0

-----------------------------------------------------------------------------
(* Opening and refreshing: load_from_disk.                                 *)

\* standing_intent: the first record of the intent file that is true of the
\* snapshot and the WAL on disk.
Stands(record) == Matches(record.wal, wal) /\ record.snapshot = snapshot
StandingIntent ==
    LET standing == {i \in 1..Len(intent) : Stands(intent[i])}
    IN  IF standing = {} THEN <<>> ELSE <<intent[Min(standing)]>>
LeftOver == Len(intent) # Len(StandingIntent)

\* How many frames of the WAL the snapshot already holds: by its own mark, or
\* by the intent of a snapshot that did not get as far as replacing the WAL.
Held ==
    IF snapshot.mark # None
    THEN IF Matches(snapshot.mark, wal) THEN Len(snapshot.mark) ELSE 0
    ELSE IF StandingIntent # <<>> THEN Len(StandingIntent[1].wal) ELSE 0

\* apply_frames_over: the frames past Held are applied.
LoadedState == snapshot.state \o Data(SubSeq(wal, Held + 1, Len(wal)))

\* A declaration is applied wherever it is in the WAL.
LoadedDeclared == (Carried /\ snapshot.decl) \/ Declaration \in Range(wal)

\* A mutant of Orphans: off by one.
OrphansOneMore == {n \in DOMAIN archives : n <= floor + 1}

\* cleanup_orphaned_archives.
Orphans == {n \in DOMAIN archives : n <= floor}

\* A mutant of Total: the floor is forgotten.
TotalAboveFloor == Len(Archived(archives)) + Len(wal)

\* wal_total_commits and the frame cursor of a load.
Total == floor + Len(Archived(archives)) + Len(wal)

\* A mutant of Load: frames the snapshot holds are applied again.
LoadReplayingAll ==
    /\ state' = snapshot.state \o Data(wal) /\ declared' = LoadedDeclared
    /\ wal_horizon_floor' = floor /\ archive_genesis_chain' = genesis
    /\ snapshot_preserved_history' = ~snapshot.exists
    /\ intent_unsettled' = LeftOver
    /\ wal_frames_written' = floor + Len(Archived(archives')) + Len(wal)
    /\ stale' = FALSE

\* What a load leaves in the handle.
Load ==
    /\ state' = LoadedState /\ declared' = LoadedDeclared
    /\ wal_horizon_floor' = floor /\ archive_genesis_chain' = genesis
    /\ snapshot_preserved_history' = ~snapshot.exists
    /\ intent_unsettled' = LeftOver
    /\ wal_frames_written' = floor + Len(Archived(archives')) + Len(wal)
    /\ stale' = FALSE

\* GraphDb::open keeps the store to itself; SharedDb opens a handle that
\* follows the files.
Open ==
    /\ pc = "down" /\ pc' = "open"
    /\ shared' \in Modes
    /\ archives' = Without(archives, Orphans)
    /\ Load
    /\ UNCHANGED <<wal, snapshot, intent, floor, genesis, taking, past>>

\* The refresh a shared handle makes as it enters a write scope.
Reload ==
    /\ pc = "open" /\ shared /\ stale
    /\ UNCHANGED archives /\ Load
    /\ UNCHANGED <<wal, snapshot, intent, floor, genesis, pc, shared, taking, past>>

\* A write scope was entered on files the handle knows.
Entered == pc = "open" /\ ~(shared /\ stale)

Crash ==
    /\ pc # "down" /\ pc' = "down" /\ crashes < MaxCrashes
    /\ crashes' = crashes + 1
    /\ UNCHANGED <<files, handle, taking, made, enabled, numbers, snapshots, errors>>

-----------------------------------------------------------------------------
(* Writes: log_then_apply_with.                                            *)

\* settle_snapshot_intent: what is left over in the intent file goes before
\* the next append.
Settle ==
    /\ Entered /\ intent_unsettled /\ (made < MaxCommits \/ ~enabled)
    /\ intent' = StandingIntent /\ intent_unsettled' = FALSE
    /\ UNCHANGED <<wal, snapshot, archives, floor, genesis, pc, shared, state, declared,
                   wal_horizon_floor, archive_genesis_chain, snapshot_preserved_history,
                   wal_frames_written, stale, taking, past>>

Append1(frame) ==
    /\ Entered /\ ~intent_unsettled
    /\ wal' = Append(wal, frame)
    /\ wal_frames_written' = wal_frames_written + 1
    /\ UNCHANGED <<snapshot, intent, archives, floor, genesis, pc, shared, wal_horizon_floor,
                   archive_genesis_chain, snapshot_preserved_history, intent_unsettled, stale,
                   taking, snapshots, crashes, errors>>

\* A commit: stamp_commit_time gives it the number of its frame.
Commit ==
    /\ made < MaxCommits
    /\ made' = made + 1
    /\ Append1(made')
    /\ state' = Append(state, made')
    /\ numbers' = numbers \cup {<<wal_frames_written, made'>>}
    /\ UNCHANGED <<declared, enabled>>

\* The opt-in, made once.
Declare ==
    /\ ~enabled /\ enabled' = TRUE
    /\ Append1(Declaration)
    /\ declared' = TRUE
    /\ UNCHANGED <<state, made, numbers>>

-----------------------------------------------------------------------------
(* snapshot_with.                                                          *)

Replaces == kind # "keep"

\* What the WAL is replaced with: the store's declarations.
Baseline == IF declared THEN <<Declaration>> ELSE <<>>

rest == <<shared, state, declared, wal_frames_written>>

\* The genesis marker, ahead of the first archive of a store whose history was
\* never cut, and the encoding of the snapshot.
SnapshotBegins(k) ==
    /\ Entered /\ snapshots < MaxSnapshots
    /\ snapshots' = snapshots + 1
    /\ pc' = "begun" /\ kind' = k
    /\ LET had_prior_snapshot == snapshot.exists /\ ~snapshot_preserved_history
           first == /\ k = "archive" /\ ~had_prior_snapshot /\ ~archive_genesis_chain
                    /\ archives = <<>>
       IN  /\ genesis' = (genesis \/ first)
           /\ archive_genesis_chain' = (archive_genesis_chain \/ first)
    /\ buf' = [exists |-> TRUE, state |-> state, mark |-> IF k = "keep" THEN wal ELSE None,
               truncated |-> k # "keep", decl |-> declared]
    /\ UNCHANGED <<wal, snapshot, intent, archives, floor, doomed, rest, wal_horizon_floor,
                   snapshot_preserved_history, intent_unsettled, stale, made, enabled, numbers,
                   crashes, errors>>

\* A mutant of IntentFile: the standing intent is dropped.
IntentFileAlone == <<[snapshot |-> buf, wal |-> wal]>>

\* The intent file: the snapshot about to be written, beside an intent that
\* stands until that write replaces the snapshot it names.
IntentFile == <<[snapshot |-> buf, wal |-> wal]>> \o StandingIntent

\* The intent goes down ahead of the snapshot it names.
WriteIntent ==
    /\ pc = "begun" /\ pc' = "intended"
    /\ IF Replaces
       THEN /\ intent' = IntentFile
            /\ intent_unsettled' = TRUE
       ELSE UNCHANGED <<intent, intent_unsettled>>
    /\ UNCHANGED <<wal, snapshot, archives, floor, genesis, taking, rest, wal_horizon_floor,
                   archive_genesis_chain, snapshot_preserved_history, stale, past>>

WriteSnapshot ==
    /\ pc = "intended" /\ snapshot' = buf /\ stale' = TRUE
    /\ pc' = IF kind = "archive" THEN "archive" ELSE IF kind = "keep" THEN "finish" ELSE "cut"
    /\ UNCHANGED <<wal, intent, archives, floor, genesis, taking, rest, wal_horizon_floor,
                   archive_genesis_chain, snapshot_preserved_history, intent_unsettled, past>>

fixed == <<snapshot, intent, kind, buf, rest, snapshot_preserved_history, intent_unsettled,
           stale, past>>

\* The archive's name is the global number its last frame ends at.
ArchiveName ==
    Len(wal) + IF archives = <<>> THEN wal_horizon_floor ELSE Max(DOMAIN archives)

\* The WAL holds nothing that was written since the last replacement.
NothingToArchive == wal = <<>> \/ (wal = Baseline /\ archives # <<>>)

\* The rename.  An archive is never written over: the snapshot fails instead.
ArchiveWal ==
    /\ pc = "archive" /\ ~NothingToArchive
    /\ IF ArchiveName \in DOMAIN archives
       THEN pc' = "open" /\ UNCHANGED <<archives, wal>>
       ELSE /\ archives' = [n \in DOMAIN archives \cup {ArchiveName} |->
                               IF n = ArchiveName THEN wal ELSE archives[n]]
            /\ wal' = <<>> /\ pc' = "baseline"
    /\ UNCHANGED <<floor, genesis, wal_horizon_floor, archive_genesis_chain, doomed, fixed>>

\* The replacement WAL goes in right after the rename, or over a WAL that had
\* nothing to archive.
WriteBaseline ==
    /\ pc = "baseline" \/ (pc = "archive" /\ NothingToArchive)
    /\ wal' = Baseline
    /\ pc' = "prune"
    /\ UNCHANGED <<archives, floor, genesis, wal_horizon_floor, archive_genesis_chain, doomed,
                   fixed>>

\* Retention: the archives past the newest Keep.
Surplus ==
    IF Keep = 0 THEN {}
    ELSE {n \in DOMAIN archives : Cardinality({m \in DOMAIN archives : m > n}) >= Keep}

\* The frames of the surplus are counted and the floor advanced in memory.
CountSurplus ==
    /\ pc = "prune"
    /\ doomed' = Surplus
    /\ wal_horizon_floor' = wal_horizon_floor +
         Len(Archived(Without(archives, DOMAIN archives \ Surplus)))
    /\ pc' = IF Surplus = {} THEN "finish" ELSE "floor"
    /\ UNCHANGED <<wal, archives, floor, genesis, archive_genesis_chain, fixed>>

\* The floor is persisted before anything is deleted.
WriteFloor ==
    /\ pc = "floor" /\ pc' = "marker"
    /\ floor' = wal_horizon_floor
    /\ UNCHANGED <<wal, archives, genesis, wal_horizon_floor, archive_genesis_chain, doomed,
                   fixed>>

DeleteMarker ==
    /\ pc = "marker" /\ pc' = "delete"
    /\ genesis' = (genesis /\ ~archive_genesis_chain) /\ archive_genesis_chain' = FALSE
    /\ UNCHANGED <<wal, archives, floor, wal_horizon_floor, doomed, fixed>>

DeleteArchive ==
    /\ pc = "delete" /\ doomed # {}
    /\ archives' = Without(archives, {Min(doomed)})
    /\ doomed' = doomed \ {Min(doomed)}
    /\ pc' = IF doomed' = {} THEN "finish" ELSE "delete"
    /\ UNCHANGED <<wal, floor, genesis, wal_horizon_floor, archive_genesis_chain, fixed>>

\* A truncating snapshot: the marker goes, ...
CutMarker ==
    /\ pc = "cut" /\ pc' = "cutFloor"
    /\ genesis' = (genesis /\ ~archive_genesis_chain) /\ archive_genesis_chain' = FALSE
    /\ snapshot_preserved_history' = FALSE
    /\ UNCHANGED <<wal, archives, floor, wal_horizon_floor, snapshot, intent, taking, rest,
                   intent_unsettled, stale, past>>

\* ... the floor moves to where the discarded history ends, ...
CutFloor ==
    /\ pc = "cutFloor" /\ pc' = "cutWal"
    /\ IF Total > wal_horizon_floor
       THEN floor' = Total /\ wal_horizon_floor' = Total
       ELSE UNCHANGED <<floor, wal_horizon_floor>>
    /\ UNCHANGED <<wal, archives, genesis, archive_genesis_chain, doomed, fixed>>

\* ... and the WAL is replaced before the archives are deleted.
CutWal ==
    /\ pc = "cutWal"
    /\ wal' = Baseline
    /\ doomed' = {n \in DOMAIN archives : n <= wal_horizon_floor}
    /\ pc' = IF doomed' = {} THEN "finish" ELSE "delete"
    /\ UNCHANGED <<archives, floor, genesis, wal_horizon_floor, archive_genesis_chain, fixed>>

\* The intent has done its work; the handle takes the files' identities anew.
Finish ==
    /\ pc = "finish" /\ pc' = "open"
    /\ IF Replaces THEN intent' = <<>> /\ intent_unsettled' = FALSE
                   ELSE UNCHANGED <<intent, intent_unsettled>>
    /\ wal_frames_written' = Total /\ stale' = FALSE
    /\ UNCHANGED <<wal, snapshot, archives, floor, genesis, shared, state, declared,
                   wal_horizon_floor, archive_genesis_chain, snapshot_preserved_history,
                   taking, past>>

\* An I/O error at any step hands the handle back with what was done so far.
Error ==
    /\ pc \notin {"down", "open"} /\ pc' = "open" /\ errors < MaxErrors
    /\ errors' = errors + 1
    /\ UNCHANGED <<files, handle, taking, made, enabled, numbers, snapshots, crashes>>

-----------------------------------------------------------------------------
Next ==
    \/ Open \/ Reload \/ Crash \/ Settle \/ Commit \/ Declare
    \/ \E k \in Kinds : SnapshotBegins(k)
    \/ WriteIntent \/ WriteSnapshot \/ ArchiveWal \/ WriteBaseline
    \/ CountSurplus \/ WriteFloor \/ DeleteMarker \/ DeleteArchive
    \/ CutMarker \/ CutFloor \/ CutWal \/ Finish \/ Error

Spec == Init /\ [][Next]_vars

-----------------------------------------------------------------------------
(* Reading the past.                                                       *)

\* The frames a commit number addresses: what is above the floor.
Reachable == Archived(Without(archives, Orphans)) \o wal

\* A mutant of BaseIsGone: archives in front of the WAL are overlooked.
BaseIsGoneByFloor == floor > 0

\* The snapshot the live WAL starts on may have been written over since.
BaseIsGone == floor > 0 \/ Archived(Without(archives, Orphans)) # <<>>

\* open_at_with: the state as of number i, or None when it is refused.
OpenAt(i) ==
    LET frames == Reachable
        archived == Len(frames) - Len(wal)
        taken == i - floor + 1
        snapshot_is_wal_end == StandingIntent # <<>>
        base_usable == snapshot.exists /\ snapshot.truncated /\ ~snapshot_is_wal_end
    IN  IF i < floor \/ taken > Len(frames) THEN None
        ELSE IF taken <= archived
        THEN IF floor > 0 \/ ~genesis THEN None ELSE Data(SubSeq(frames, 1, taken))
        ELSE IF snapshot.exists /\ ~base_usable /\ BaseIsGone THEN None
        ELSE (IF base_usable THEN snapshot.state ELSE <<>>)
             \o Data(SubSeq(wal, 1, taken - archived))

-----------------------------------------------------------------------------
(* Properties.                                                             *)

Steps == {"begun", "intended", "archive", "baseline", "prune", "floor", "marker", "delete",
          "cut", "cutFloor", "cutWal", "finish"}

\* Every file and every field of the handle holds a value of its kind.
TypeOK ==
    /\ wal \in Seq(Frames) /\ state \in Seq(Frames)
    /\ \A i \in 1..Len(intent) : intent[i].wal \in Seq(Frames)
    /\ snapshot.state \in Seq(Frames) /\ snapshot.mark \in Seq(Frames) \cup {None}
    /\ DOMAIN archives \subseteq Nat /\ \A n \in DOMAIN archives : archives[n] \in Seq(Frames)
    /\ floor \in Nat /\ wal_horizon_floor \in Nat /\ wal_frames_written \in Nat
    /\ genesis \in BOOLEAN /\ pc \in Steps \cup {"down", "open"} /\ Len(intent) <= 2

\* A crash at any point loses no commit and applies none twice: whatever is on
\* disk now opens as the whole history (ledger row 92), and with the opt-in a
\* store was given.
CrashSafe == LoadedState = History(made) /\ (enabled => LoadedDeclared)

\* The handle that took the snapshots, interrupted or not, holds the history.
HandleIsHistory == pc # "down" => state = History(made)

\* A commit number above the floor is still answered, and by the commit it was
\* given to (ledger rows 80 and 100).
NumbersKept ==
    \A n \in numbers : n[1] >= floor =>
        n[1] - floor < Len(Reachable) /\ Reachable[n[1] - floor + 1] = n[2]

\* A WAL is never refused its archive because another has its name: names
\* follow the global numbering through retention, crashes and restarts.
ArchiveNameIsFree ==
    pc = "archive" /\ ~NothingToArchive => ArchiveName \notin DOMAIN archives

\* Numbers name their commits as long as snapshots end or crash, and archive
\* names stay free: the numbering is put together from the floor, the archives
\* and the WAL, which change one after the other.
CrashesKeepNumbers == (errors = 0 => NumbersKept) /\ ArchiveNameIsFree

\* open_at refuses a number or answers with the store as it was at the frame
\* it names: never with a graph that misses older commits, holds later ones or
\* repeats some.  Two snapshots of one handle that fail at the floor count their
\* surplus twice in memory, and a truncating one then leaves the floor behind.
AsOfIsPast ==
    errors < 2 => \A n \in 1..Len(Reachable) :
        LET answer == OpenAt(floor + n - 1) IN
        answer # None => /\ answer = History(Len(answer))
                         /\ Reachable[n] # Declaration => Len(answer) = Reachable[n]

\* An archive is never written over, and none is deleted before the floor that
\* accounts for its frames is on disk, but for two failures as above.
ArchivesKept ==
    [][\A n \in DOMAIN archives :
        IF n \in DOMAIN archives' THEN archives'[n] = archives[n]
        ELSE n <= floor' \/ errors' > 1]_vars

\* The floor disowns an archive only for Keep newer ones or for a truncating
\* snapshot, as long as no snapshot fails: each archive's frames are counted into
\* the floor once, over crashes and orphans.
RetentionKept ==
    [][\A n \in DOMAIN archives : errors' = 0 /\ n > floor /\ n <= floor' =>
        \/ kind = "truncate"
        \/ Keep # 0 /\ Cardinality({m \in DOMAIN archives : m > n}) >= Keep]_vars

\* No frame of the history goes but by retention, and then with its floor first.
HistoryKept == ArchivesKept /\ RetentionKept
=============================================================================
