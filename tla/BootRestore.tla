---------------------------- MODULE BootRestore ----------------------------
(***************************************************************************)
(* Restore on boot (crates/backup/src/boot.rs, restore.rs): a server whose *)
(* data directory holds no store moves the files of a backup into it, one  *)
(* rename after the other, under a marker that names them, before it opens *)
(* the store and serves.  A kill leaves what was done, a power loss also   *)
(* forgets any of the changes to the directory since its last fsync; the   *)
(* next boot undoes a restore that did not finish, and must not undo one   *)
(* whose store has served writes since.                                    *)
(*                                                                         *)
(* A file is what its identity tells: the restore it came from and how     *)
(* many served writes it holds.  Downloading, checking and staging the     *)
(* files, the bucket's lease and the sweep of old staging directories are  *)
(* left out: they touch nothing the directory's store is made of.          *)
(***************************************************************************)
EXTENDS Integers, Sequences, FiniteSets, Functions, FiniteSetsExt, SequencesExt

CONSTANTS
    Backups,     \* what a backup holds: sequences of file names, in the order they are moved
    Faults,      \* the faults there are: "kill", "power", "io", "unlink"
    MaxFaults,   \* the bounds: how many faults,
    MaxWrites    \* and how many writes are served

Snapshot == "snapshot.bin"
Wal      == "wal.bin"
Files    == (UNION {Range(b) : b \in Backups}) \cup {Snapshot, Wal}
Configs  == {"unset", "no backup", "backup"}

ASSUME BootAssumption ==
    /\ Backups # {}
    /\ \A b \in Backups : b \in Seq(STRING) /\ b # << >> /\ Last(b) = Wal
    /\ Faults \subseteq {"kill", "power", "io", "unlink"}
    /\ MaxFaults \in Nat /\ MaxWrites \in Nat

VARIABLES
    dir,      \* the data directory as the processes see it
    disk,     \* what a power loss may leave of each: its values since the last fsync
    at,       \* where the server is
    conf,     \* MUSHROOMDB_RESTORE_FROM_S3: not set, to a prefix without a backup, to a backup
    todo,     \* the files still to be moved or removed
    moved,    \* the files moved
    taken,    \* the backups restored so far, in order
    acked,    \* how many writes were served
    faults,   \* how many faults there were
    ignored   \* whether the failure of a removal was ignored

vars == <<dir, disk, at, conf, todo, moved, taken, acked, faults, ignored>>

Absent == [origin |-> -1, writes |-> 0]
Empty  == [origin |-> 0, writes |-> 0]
NoMark == [id |-> 0, names |-> << >>]

\* After an fsync of the directory d, and after a change of it to d.
Synced(d) == [marker |-> {d.marker}, file |-> [f \in Files |-> {d.file[f]}]]
Pending(d) == [marker |-> disk.marker \cup {d.marker},
               file |-> [f \in Files |-> disk.file[f] \cup {d.file[f]}]]

Init ==
    /\ \E w \in {Absent, Empty} :
          dir = [marker |-> NoMark, file |-> [f \in Files |-> IF f = Wal THEN w ELSE Absent]]
    /\ disk = Synced(dir)
    /\ at = "off" /\ conf = "unset"
    /\ todo = << >> /\ moved = << >> /\ taken = << >>
    /\ acked = 0 /\ faults = 0 /\ ignored = FALSE

Goto(label) == at' = label

\* A fault of a kind the instance has.
Fault(kind) ==
    /\ kind \in Faults
    /\ faults < MaxFaults
    /\ faults' = faults + 1

-----------------------------------------------------------------------------
(* A boot, and the undoing of a restore that did not finish.               *)

HoldsAStore == dir.file[Snapshot] # Absent \/ dir.file[Wal] \notin {Absent, Empty}
Interrupted == dir.marker.id # 0

\* check_in_place: nothing but what an empty data directory may hold.
CheckInPlace ==
    \A f \in Files : dir.file[f] \in {Absent} \cup (IF f = Wal THEN {Empty} ELSE {})

\* serve and restore_on_boot: an interrupted restore is not opened; a store is
\* never restored over.
Boot(c) ==
    /\ at = "off"
    /\ c = "unset" => ~Interrupted
    /\ Goto(IF Interrupted THEN "undo"
            ELSE IF c = "unset" \/ HoldsAStore THEN "serve" ELSE "fetch")
    /\ conf' = c
    /\ UNCHANGED <<dir, disk, todo, moved, taken, acked, faults, ignored>>

\* The restore itself: a prefix without a backup starts an empty store.
Fetch ==
    /\ at = "fetch"
    /\ IF conf = "no backup" THEN Goto("serve") /\ UNCHANGED <<todo, taken>>
       ELSE IF ~CheckInPlace THEN Goto("off") /\ UNCHANGED <<todo, taken>>
       ELSE \E b \in Backups :
              /\ Goto("create")
              /\ todo' = b
              /\ taken' = Append(taken, b)
    /\ moved' = << >>
    /\ UNCHANGED <<dir, disk, conf, acked, faults, ignored>>

\* A mutant of Changed: an installed file that grew is still the installed one.
ChangedOrigin ==
    \E f \in Range(dir.marker.names) : dir.file[f].origin \notin {-1, 0, dir.marker.id}

\* The store is not as the install left it: a file the marker names is another
\* one, or a store file it does not name is there.
Changed ==
    \/ \E f \in Range(dir.marker.names) :
          dir.file[f] \notin {Absent, Empty, [origin |-> dir.marker.id, writes |-> 0]}
    \/ \E f \in {Snapshot, Wal} \ Range(dir.marker.names) : dir.file[f] # Absent

\* undo_interrupted_install looks before it removes anything.
Undo ==
    /\ at = "undo"
    /\ IF Changed THEN Goto("refused") /\ UNCHANGED todo
       ELSE Goto("undoRemove") /\ todo' = dir.marker.names
    /\ UNCHANGED <<dir, disk, conf, moved, taken, acked, faults, ignored>>

\* "Delete the marker" is one of the two ways out the error names.
Operator ==
    /\ at = "refused"
    /\ dir' = [dir EXCEPT !.marker = NoMark]
    /\ disk' = Synced(dir')
    /\ Goto("off")
    /\ UNCHANGED <<conf, todo, moved, taken, acked, faults, ignored>>

-----------------------------------------------------------------------------
(* Steps on the directory: each may fail, and the code goes on elsewhere.  *)

Fails(label) == Fault("io") /\ Goto(label) /\ UNCHANGED dir

\* sync_dir: after it the directory is durable.
Sync(here, next, onError) ==
    /\ at = here
    /\ \/ disk' = Synced(dir) /\ Goto(next) /\ UNCHANGED <<dir, faults>>
       \/ Fails(onError) /\ UNCHANGED disk
    /\ UNCHANGED <<conf, todo, moved, taken, acked, ignored>>

\* The marker is created, written or removed.
Mark(here, mark, next, onError) ==
    /\ at = here
    /\ \/ dir' = [dir EXCEPT !.marker = mark] /\ Goto(next) /\ UNCHANGED faults
       \/ Fails(onError)
    /\ disk' = Pending(dir')
    /\ UNCHANGED <<conf, todo, moved, taken, acked, ignored>>

\* A file is removed, the first of those to remove.
RemoveNext(here, next) ==
    /\ at = here
    /\ IF todo = << >> THEN Goto(next) /\ UNCHANGED <<dir, todo>>
       ELSE /\ dir' = [dir EXCEPT !.file[Head(todo)] = Absent]
            /\ todo' = Tail(todo)
            /\ UNCHANGED at
    /\ disk' = Pending(dir')
    /\ UNCHANGED <<conf, moved, taken, acked, faults, ignored>>

RemoveFails ==
    /\ at = "undoRemove" /\ todo # << >>
    /\ Fails("off")
    /\ UNCHANGED <<disk, conf, todo, moved, taken, acked, ignored>>

\* The clean-up does not look at what becomes of a removal.
RemoveIgnored ==
    /\ at = "cleanRemove" /\ todo # << >>
    /\ Fault("unlink")
    /\ todo' = Tail(todo)
    /\ ignored' = TRUE
    /\ UNCHANGED <<dir, disk, at, conf, moved, taken, acked>>

\* The removals are durable before the marker goes.
UndoSteps ==
    \/ RemoveNext("undoRemove", "undoSync") \/ RemoveFails
    \/ Sync("undoSync", "undoMarker", "off")
    \/ Mark("undoMarker", NoMark, "undoSynced", "off")
    \/ Sync("undoSynced", "fetch", "off")

-----------------------------------------------------------------------------
(* install_in_place.                                                       *)

Id == Len(taken)

\* A mutant of MarkerSteps: the moves begin before the marker is durable.
MarkerStepsUnsynced ==
    \/ Mark("create", [id |-> Id, names |-> << >>], "write", "off")
    \/ Mark("write", [id |-> Id, names |-> todo], "move", "off")

\* The marker is made, filled and fsynced, and its name made durable.
MarkerSteps ==
    \/ Mark("create", [id |-> Id, names |-> << >>], "write", "off")
    \/ Mark("write", [id |-> Id, names |-> todo], "markerSync", "off")
    \/ Sync("markerSync", "move", "clean")

\* The files are renamed in, the ones that make the directory a store last.
Move ==
    /\ at = "move"
    /\ IF todo = << >>
       THEN Goto("moveSync") /\ UNCHANGED <<dir, todo, moved, faults>>
       ELSE \/ /\ dir' = [dir EXCEPT !.file[Head(todo)] = [origin |-> Id, writes |-> 0]]
               /\ todo' = Tail(todo)
               /\ moved' = Append(moved, Head(todo))
               /\ UNCHANGED <<at, faults>>
            \/ Fails("clean") /\ UNCHANGED <<todo, moved>>
    /\ disk' = Pending(dir')
    /\ UNCHANGED <<conf, taken, acked, ignored>>

\* The install has succeeded once the marker's removal is durable.
Finish ==
    \/ Sync("moveSync", "dropMarker", "clean")
    \/ Mark("dropMarker", NoMark, "lastSync", "off")
    \/ Sync("lastSync", "serve", "off")

\* What was moved is removed, whatever becomes of each removal, and the marker
\* when that is durable.
Clean ==
    /\ at = "clean"
    /\ Goto("cleanRemove")
    /\ todo' = moved
    /\ UNCHANGED <<dir, disk, conf, moved, taken, acked, faults, ignored>>

\* A mutant of CleanSteps: the marker goes first.
CleanStepsMarkerFirst ==
    \/ Clean
    \/ RemoveNext("cleanRemove", "cleanMarker")
    \/ Mark("cleanMarker", NoMark, "cleanSynced", "off")
    \/ Sync("cleanSynced", "off", "off")

CleanSteps ==
    \/ Clean
    \/ RemoveNext("cleanRemove", "cleanSync") \/ RemoveIgnored
    \/ Sync("cleanSync", "cleanMarker", "off")
    \/ Mark("cleanMarker", NoMark, "cleanSynced", "off")
    \/ Sync("cleanSynced", "off", "off")

-----------------------------------------------------------------------------
(* The server, and the faults.                                             *)

Origin == Max({0, dir.file[Snapshot].origin, dir.file[Wal].origin})

\* A write is acknowledged once it is fsynced: a file's length is durable
\* with it, and so is the name of a file it created.
Write ==
    /\ at = "serve"
    /\ acked < MaxWrites
    /\ acked' = acked + 1
    /\ LET w == [origin |-> Origin, writes |-> acked'] IN
       /\ dir' = [dir EXCEPT !.file[Wal] = w]
       /\ disk' = [disk EXCEPT !.file[Wal] = {w}]
    /\ UNCHANGED <<at, conf, todo, moved, taken, faults, ignored>>

\* A snapshot holds everything and empties the WAL; write_atomic fsyncs the
\* directory.
TakeSnapshot ==
    /\ at = "serve"
    /\ acked > 0 /\ dir.file[Wal].writes > 0
    /\ dir' = [dir EXCEPT !.file[Snapshot] = [origin |-> Origin, writes |-> acked],
                          !.file[Wal] = Empty]
    /\ disk' = Synced(dir')
    /\ UNCHANGED <<at, conf, todo, moved, taken, acked, faults, ignored>>

Running == at \notin {"off", "refused"}

Kill ==
    /\ Running
    /\ Fault("kill")
    /\ Goto("off")
    /\ UNCHANGED <<dir, disk, conf, todo, moved, taken, acked, ignored>>

\* Of the changes since the last fsync, any may be there.
PowerLoss ==
    /\ Running
    /\ Fault("power")
    /\ \E m \in disk.marker, g \in [Files -> UNION Range(disk.file)] :
          /\ \A f \in Files : g[f] \in disk.file[f]
          /\ dir' = [marker |-> m, file |-> g]
    /\ disk' = Synced(dir')
    /\ Goto("off")
    /\ UNCHANGED <<conf, todo, moved, taken, acked, ignored>>

Restoring ==
    Fetch \/ Undo \/ UndoSteps \/ MarkerSteps \/ Move \/ Finish \/ CleanSteps

Next ==
    \/ \E c \in Configs : Boot(c)
    \/ Restoring
    \/ Operator
    \/ Write \/ TakeSnapshot
    \/ Kill \/ PowerLoss

\* The process is started again with a backup to restore from until it
\* serves, a boot goes on, and an operator follows the error's advice.
Fairness ==
    /\ WF_vars(Boot("backup"))
    /\ WF_vars(Restoring)
    /\ WF_vars(Operator)

Spec == Init /\ [][Next]_vars
FairSpec == Spec /\ Fairness

-----------------------------------------------------------------------------
(* Properties.                                                             *)

Labels ==
    {"off", "refused", "serve", "fetch", "undo", "undoRemove", "undoSync", "undoMarker",
     "undoSynced", "create", "write", "markerSync", "move", "moveSync", "dropMarker",
     "lastSync", "clean", "cleanRemove", "cleanSync", "cleanMarker", "cleanSynced"}

Directory(d) ==
    /\ d.marker.id \in 0 .. Len(taken)
    /\ \A f \in Files : /\ d.file[f].origin \in -1 .. Len(taken)
                        /\ d.file[f].writes \in 0 .. acked

TypeOK ==
    /\ Directory(dir) /\ dir.marker \in disk.marker
    /\ \A f \in Files : dir.file[f] \in disk.file[f]
    /\ at \in Labels /\ conf \in Configs
    /\ Range(todo) \subseteq Files /\ Range(moved) \subseteq Files
    /\ acked \in 0 .. MaxWrites /\ faults \in 0 .. MaxFaults /\ ignored \in BOOLEAN

\* "A failure before the marker's removal removes what it moved, makes that
\* durable, and only then removes the marker, so the directory is as it was"
\* (install_in_place): a server never serves a part of a restored store, nor a
\* new store among files of one.
ServesWhole ==
    at = "serve" =>
        LET k == Origin IN
        /\ \A f \in Files : dir.file[f].origin \in {-1, 0, k}
        /\ k # 0 => \A f \in Range(taken[k]) : \/ dir.file[f].origin = k
                                               \/ f = Wal /\ dir.file[Snapshot].writes > 0

\* That, whatever was killed, failed or lost power before, unless the removal of
\* a file failed in the clean-up after another failure.
ServesWholeStore == ~ignored => ServesWhole

\* "The store may have served writes, so nothing was removed"
\* (undo_interrupted_install): no boot, of any configuration and after any
\* power loss, removes a write that was acknowledged.
WritesIn(d) == Max({d.file[Snapshot].writes, d.file[Wal].writes})
AckedIsKept ==
    /\ WritesIn(dir) = acked
    /\ \A s \in disk.file[Snapshot], w \in disk.file[Wal] : Max({s.writes, w.writes}) = acked

\* Whatever happens to the restores before, a boot comes to serve: nothing
\* that they leave behind stops every later one, but for that ignored failure.
EventuallyServes == <>[](at = "serve" \/ ignored)
=============================================================================
