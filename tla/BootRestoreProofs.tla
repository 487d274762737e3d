------------------------- MODULE BootRestoreProofs -------------------------
(***************************************************************************)
(* TLAPS proofs about BootRestore, for every set of backups and any number *)
(* of faults and writes.  The properties speak of the directory a server   *)
(* serves; the inductive invariant says what any boot may find, after any  *)
(* power loss.  Without a marker the files are on disk as they are seen    *)
(* and make a whole store, whichever markers may come back; with one they  *)
(* are untouched, or what the restore it names moved in and nothing else,  *)
(* or a whole store that the undo will refuse to touch.                    *)
(***************************************************************************)
EXTENDS BootRestore, TLAPS

Values  == [origin : Int, writes : Nat]
Markers == [id : Nat, names : Seq(Files)]
Dirs    == [marker : Markers, file : [Files -> Values]]
Disks   == [marker : SUBSET Markers, file : [Files -> SUBSET Values]]

\* What is seen is among what a power loss may leave.
Agree(d, D) == d.marker \in D.marker /\ \A f \in Files : d.file[f] \in D.file[f]

TypeInv ==
    /\ dir \in Dirs /\ disk \in Disks /\ Agree(dir, disk)
    /\ todo \in Seq(Files) /\ moved \in Seq(Files) /\ taken \in Seq(Backups)
    /\ acked \in Nat /\ ignored \in BOOLEAN

\* Every combination of files a power loss may leave holds the writes served,
\* and no restore is under way over a store that served one.
Keeps(D, n) ==
    \A s \in D.file[Snapshot], w \in D.file[Wal] :
        /\ s.writes =< n /\ w.writes =< n
        /\ s.writes = n \/ w.writes = n
Resting == {"off", "refused", "serve", "undo", "fetch"}
KeptInv == Keeps(disk, acked) /\ (at \notin Resting => acked = 0)

Pristine == {Absent, Empty}
Installed(m) == [origin |-> m.id, writes |-> 0]

\* The files are on disk as the processes see them; nothing was moved in; the
\* files are those of the install m names, or not there.
FilesDurable(d, D) == \A f \in Files : D.file[f] = {d.file[f]}
AllPristine(D)     == \A f \in Files : D.file[f] \subseteq Pristine
InstallFiles(m, D) ==
    \A f \in Files :
        D.file[f] \subseteq IF f \in Range(m.names) THEN Pristine \cup {Installed(m)} ELSE {Absent}

\* What ServesWhole and Changed say, of the files F, the restores tk and a marker m.
Top(F) == Max({0, F[Snapshot].origin, F[Wal].origin})
Whole(F, tk) ==
    /\ \A f \in Files : F[f].origin \in {-1, 0, Top(F)}
    /\ Top(F) # 0 => /\ Range(tk[Top(F)]) \subseteq Files
                     /\ \A f \in Range(tk[Top(F)]) : \/ F[f].origin = Top(F)
                                                     \/ f = Wal /\ F[Snapshot].writes > 0
ChangedFor(m, F) ==
    \/ \E f \in Range(m.names) : F[f] \notin Pristine \cup {Installed(m)}
    \/ \E f \in {Snapshot, Wal} \ Range(m.names) : F[f] # Absent

\* A marker that may come back finds files it does not misjudge.
MayReturn(m, F) ==
    \/ \A f \in Files : F[f] \in Pristine
    \/ ChangedFor(m, F)
    \/ \A f \in Files \ Range(m.names) : F[f] = Absent

\* What an undo or a clean-up may remove leaves no part of a store.
Removable(d, D) == AllPristine(D) \/ (D.marker = {d.marker} /\ InstallFiles(d.marker, D))
Refusable(d, D, tk) ==
    D.marker = {d.marker} /\ FilesDurable(d, D) /\ ChangedFor(d.marker, d.file) /\ Whole(d.file, tk)

Sound(d, D, tk) ==
    IF d.marker.id = 0
    THEN FilesDurable(d, D) /\ Whole(d.file, tk) /\ \A m \in D.marker : m.id # 0 => MayReturn(m, d.file)
    ELSE Removable(d, D) \/ Refusable(d, D, tk)

\* Where the server is, and what that tells of the directory.
RestIn(fs) == \A f \in Files : dir.file[f] \in Pristine \/ f \in Range(fs)
LabelInv ==
    /\ at \in {"serve", "fetch", "create", "undoSynced", "lastSync", "cleanSynced"} =>
          dir.marker.id = 0
    /\ at \in {"create", "write", "markerSync"} =>
          CheckInPlace /\ FilesDurable(dir, disk) /\ todo = taken[Id] /\ moved = << >> /\ Id > 0
    /\ at = "write" => dir.marker.id = Id
    /\ at \in {"markerSync", "move", "moveSync", "dropMarker"} =>
          dir.marker = [id |-> Id, names |-> taken[Id]] /\ Id > 0
    /\ at \in {"move", "moveSync", "dropMarker"} =>
          disk.marker = {dir.marker} /\ InstallFiles(dir.marker, disk)
    /\ at = "move" =>
          /\ Range(todo) \subseteq Range(dir.marker.names)
          /\ \A f \in Range(dir.marker.names) :
                dir.file[f] = Installed(dir.marker) \/ f \in Range(todo)
    /\ at \in {"moveSync", "dropMarker"} =>
          \A f \in Range(dir.marker.names) : dir.file[f] = Installed(dir.marker)
    /\ at \in {"move", "moveSync", "clean"} => RestIn(moved)
    /\ at \in {"undoRemove", "cleanRemove"} => RestIn(todo)
    /\ at \in {"undoSync", "cleanSync", "undoMarker", "cleanMarker"} =>
          \A f \in Files : dir.file[f] \in Pristine
    /\ at \in {"dropMarker", "undoMarker", "cleanMarker"} => FilesDurable(dir, disk)
    /\ at \in {"undoRemove", "undoSync", "undoMarker", "clean", "cleanRemove", "cleanSync",
               "cleanMarker"} => dir.marker.id # 0 /\ Removable(dir, disk)
    /\ at \in {"refused", "undo"} => dir.marker.id # 0
    /\ at = "refused" => ChangedFor(dir.marker, dir.file)

WholeInv == ~ignored => Sound(dir, disk, taken) /\ LabelInv

IInv == TypeInv /\ KeptInv /\ WholeInv

-----------------------------------------------------------------------------
(* Files, backups and origins.                                             *)

\* The two store files are files, and every backup's last one is the WAL.
LEMMA FileFacts ==
    /\ Snapshot \in Files /\ Wal \in Files /\ Snapshot # Wal
    /\ \A b \in Backups : b \in Seq(Files) /\ Wal \in Range(b)
<1>1. Snapshot \in Files /\ Wal \in Files BY DEF Files
<1>0. Snapshot # Wal BY DEF Snapshot, Wal
<1>2. ASSUME NEW b \in Backups PROVE b \in Seq(Files) /\ Wal \in Range(b)
  <2>1. b \in Seq(STRING) /\ b # << >> /\ Last(b) = Wal BY BootAssumption
  <2>2. Range(b) \subseteq Files BY DEF Files
  <2>3. Len(b) \in 1 .. Len(b) /\ DOMAIN b = 1 .. Len(b) /\ b[Len(b)] = Wal BY <2>1 DEF Last
  <2>4. Wal \in Range(b) BY <2>3 DEF Range
  <2>5. \A i \in 1 .. Len(b) : b[i] \in Files BY <2>2, <2>3 DEF Range
  <2>6. b \in [1 .. Len(b) -> Files] BY <2>1, <2>5
  <2>7. Len(b) \in Nat BY <2>1
  <2> QED BY <2>4, <2>6, <2>7
<1> QED BY <1>0, <1>1, <1>2

\* The larger of two numbers and 0.
LEMMA LargestOfThree ==
    ASSUME NEW a \in Int, NEW b \in Int
    PROVE  /\ Max({0, a, b}) \in {0, a, b}
           /\ Max({0, a, b}) >= 0 /\ Max({0, a, b}) >= a /\ Max({0, a, b}) >= b
<1> DEFINE S == {0, a, b}
<1>1. \E x \in S : \A y \in S : x >= y
  <2>1. CASE a >= 0 /\ a >= b BY <2>1
  <2>2. CASE b >= 0 /\ b >= a BY <2>2
  <2>3. CASE 0 >= a /\ 0 >= b BY <2>3
  <2> QED BY <2>1, <2>2, <2>3
<1>2. Max(S) \in S /\ \A y \in S : Max(S) >= y BY <1>1 DEF Max
<1> QED BY <1>2

LEMMA LargestOfTwo ==
    ASSUME NEW a \in Nat, NEW b \in Nat, NEW n \in Nat, a =< n, b =< n, a = n \/ b = n
    PROVE  Max({a, b}) = n
<1> DEFINE S == {a, b}
<1>1. n \in S /\ \A y \in S : n >= y OBVIOUS
<1>2. Max(S) \in S /\ \A y \in S : Max(S) >= y BY <1>1 DEF Max
<1> QED BY <1>1, <1>2

LEMMA TopFacts ==
    ASSUME NEW F \in [Files -> Values]
    PROVE  /\ Top(F) \in Int /\ Top(F) >= 0
           /\ Top(F) >= F[Snapshot].origin /\ Top(F) >= F[Wal].origin
           /\ Top(F) \in {0, F[Snapshot].origin, F[Wal].origin}
<1> DEFINE a == F[Snapshot].origin
           b == F[Wal].origin
<1>1. a \in Int /\ b \in Int BY FileFacts DEF Values
<1>2. Top(F) = Max({0, a, b}) BY DEF Top
<1> HIDE DEF a, b
<1>3. Max({0, a, b}) \in {0, a, b} /\ Max({0, a, b}) >= 0 /\ Max({0, a, b}) >= a /\ Max({0, a, b}) >= b
  BY <1>1, LargestOfThree
<1>4. Top(F) \in {0, a, b} /\ Top(F) >= 0 /\ Top(F) >= a /\ Top(F) >= b BY <1>2, <1>3
<1>5. Top(F) \in Int BY <1>1, <1>4
<1> QED BY <1>4, <1>5 DEF a, b

\* Files nothing was moved to make an empty store.
LEMMA PristineIsWhole ==
    ASSUME NEW F \in [Files -> Values], NEW tk, \A f \in Files : F[f] \in Pristine
    PROVE  Whole(F, tk)
<1>1. \A f \in Files : F[f].origin \in {-1, 0} BY DEF Pristine, Absent, Empty
<1>2. Top(F) = 0 BY <1>1, TopFacts, FileFacts
<1> QED BY <1>1, <1>2 DEF Whole

\* The files a restore has moved in make its backup's store.
LEMMA InstalledIsWhole ==
    ASSUME NEW F \in [Files -> Values], NEW tk, NEW m \in Markers, m.id > 0,
           m.names = tk[m.id], Wal \in Range(m.names), Range(m.names) \subseteq Files,
           \A f \in Range(m.names) : F[f] = Installed(m),
           \A f \in Files \ Range(m.names) : F[f] = Absent
    PROVE  Whole(F, tk)
<1>1. m.id \in Nat BY DEF Markers
<1>2. \A f \in Range(m.names) : F[f].origin = m.id BY DEF Installed
<1>3. \A f \in Files \ Range(m.names) : F[f].origin = -1 BY DEF Absent
<1>4. F[Wal].origin = m.id /\ F[Snapshot].origin \in {-1, m.id} BY <1>2, <1>3, FileFacts
<1>5. Top(F) = m.id BY <1>1, <1>4, TopFacts
<1> QED BY <1>2, <1>3, <1>5 DEF Whole

\* The names of a marker, of files to move and of files to remove are files.
LEMMA RangeOfFiles == ASSUME NEW s \in Seq(Files) PROVE Range(s) \subseteq Files
BY DEF Range

LEMMA RangeOfTail ==
    ASSUME NEW s \in Seq(Files), s # << >>
    PROVE  /\ Head(s) \in Files /\ Tail(s) \in Seq(Files)
           /\ \A f \in Range(s) : f = Head(s) \/ f \in Range(Tail(s))
           /\ Head(s) \in Range(s) /\ Range(Tail(s)) \subseteq Range(s)
<1>1. Head(s) \in Files /\ Tail(s) \in Seq(Files) OBVIOUS
<1>2. ASSUME NEW f \in Range(s), f # Head(s) PROVE f \in Range(Tail(s))
  <2>1. PICK i \in 1 .. Len(s) : s[i] = f BY DEF Range
  <2>2. i # 1 BY <2>1, <1>2
  <2>3. i - 1 \in DOMAIN Tail(s) /\ Tail(s)[i - 1] = f BY <2>1, <2>2
  <2> QED BY <2>3 DEF Range
<1>3. Head(s) \in Range(s)
  <2>1. 1 \in DOMAIN s /\ s[1] = Head(s) OBVIOUS
  <2> QED BY <2>1 DEF Range
<1>4. ASSUME NEW f \in Range(Tail(s)) PROVE f \in Range(s)
  <2>1. PICK i \in 1 .. Len(Tail(s)) : Tail(s)[i] = f BY <1>1 DEF Range
  <2>2. i + 1 \in DOMAIN s /\ s[i + 1] = f BY <2>1
  <2> QED BY <2>2 DEF Range
<1> QED BY <1>1, <1>2, <1>3, <1>4

LEMMA RangeOfNone == Range(<< >>) = {}
BY DEF Range

LEMMA RangeOfAppend ==
    ASSUME NEW s \in Seq(Files), NEW f \in Files
    PROVE  Append(s, f) \in Seq(Files) /\ Range(s) \cup {f} \subseteq Range(Append(s, f))
<1>1. Append(s, f) \in Seq(Files) OBVIOUS
<1>2. ASSUME NEW x \in Range(s) PROVE x \in Range(Append(s, f))
  <2>1. PICK i \in 1 .. Len(s) : s[i] = x BY DEF Range
  <2>2. i \in DOMAIN Append(s, f) /\ Append(s, f)[i] = x BY <2>1
  <2> QED BY <2>2 DEF Range
<1>3. f \in Range(Append(s, f))
  <2>1. Len(s) + 1 \in DOMAIN Append(s, f) /\ Append(s, f)[Len(s) + 1] = f OBVIOUS
  <2> QED BY <2>1 DEF Range
<1> QED BY <1>1, <1>2, <1>3

-----------------------------------------------------------------------------
(* The directory after an fsync, after a change, and after a power loss.   *)

LEMMA SyncedFacts ==
    ASSUME NEW d \in Dirs
    PROVE  /\ Synced(d) \in Disks /\ Agree(d, Synced(d)) /\ FilesDurable(d, Synced(d))
           /\ Synced(d).marker = {d.marker}
           /\ \A f \in Files : Synced(d).file[f] = {d.file[f]}
BY DEF Dirs, Disks, Agree, FilesDurable, Synced

\* An fsync keeps the directory sound, and the writes in it.
LEMMA SyncSound ==
    ASSUME NEW d \in Dirs, NEW D \in Disks, NEW tk, Agree(d, D), Sound(d, D, tk)
    PROVE  Sound(d, Synced(d), tk)
<1>1. /\ FilesDurable(d, Synced(d)) /\ Synced(d).marker = {d.marker}
      /\ \A f \in Files : Synced(d).file[f] = {d.file[f]}
  BY SyncedFacts
<1>2. \A f \in Files : d.file[f] \in D.file[f] BY DEF Agree
<1>3. CASE d.marker.id = 0 BY <1>1, <1>3 DEF Sound
<1>4. CASE d.marker.id # 0 /\ Removable(d, D)
  <2>1. Removable(d, Synced(d)) BY <1>1, <1>2, <1>4 DEF Removable, AllPristine, InstallFiles
  <2> QED BY <1>4, <2>1 DEF Sound
<1>5. CASE d.marker.id # 0 /\ Refusable(d, D, tk) BY <1>1, <1>5 DEF Sound, Refusable
<1> QED BY <1>3, <1>4, <1>5 DEF Sound

LEMMA SyncKeeps ==
    ASSUME NEW d \in Dirs, NEW D \in Disks, NEW n, Agree(d, D), Keeps(D, n)
    PROVE  Keeps(Synced(d), n)
<1>1. Synced(d).file[Snapshot] = {d.file[Snapshot]} /\ Synced(d).file[Wal] = {d.file[Wal]}
  BY SyncedFacts, FileFacts
<1> QED BY <1>1, FileFacts DEF Keeps, Agree

\* A change to d may or may not be there after a power loss.
LEMMA PendingFacts ==
    ASSUME TypeInv, NEW d \in Dirs
    PROVE  /\ Pending(d) \in Disks /\ Agree(d, Pending(d))
           /\ Pending(d).marker = disk.marker \cup {d.marker}
           /\ \A f \in Files : Pending(d).file[f] = disk.file[f] \cup {d.file[f]}
BY DEF TypeInv, Dirs, Disks, Agree, Pending

\* No change at all adds nothing to that.
LEMMA PendingSame == ASSUME TypeInv PROVE Pending(dir) = disk
<1>1. /\ disk.marker \cup {dir.marker} = disk.marker
      /\ \A f \in Files : disk.file[f] \cup {dir.file[f]} = disk.file[f]
  BY DEF TypeInv, Agree
<1>2. [f \in Files |-> disk.file[f] \cup {dir.file[f]}] = disk.file
  <2>1. disk.file \in [Files -> SUBSET Values] BY DEF TypeInv, Disks
  <2> QED BY <1>1, <2>1
<1>3. Pending(dir) = [marker |-> disk.marker, file |-> disk.file] BY <1>1, <1>2 DEF Pending
<1>4. disk = [marker |-> disk.marker, file |-> disk.file] BY DEF TypeInv, Disks
<1> QED BY <1>3, <1>4

\* What a power loss may leave of a sound directory is sound.
LEMMA LossSound ==
    ASSUME NEW d \in Dirs, NEW D \in Disks, NEW tk, Sound(d, D, tk),
           NEW m \in D.marker, NEW g \in [Files -> Values], \A f \in Files : g[f] \in D.file[f],
           NEW e \in Dirs, e = [marker |-> m, file |-> g]
    PROVE  Sound(e, Synced(e), tk)
<1>1. e.marker = m /\ e.file = g BY DEF Dirs
<1>2. /\ FilesDurable(e, Synced(e)) /\ Synced(e).marker = {m}
      /\ \A f \in Files : Synced(e).file[f] = {g[f]}
  BY <1>1, SyncedFacts
<1>3. CASE FilesDurable(d, D) /\ m.id = 0 /\ d.marker.id = 0
  <2>1. d.file = g
    <3>1. d.file \in [Files -> Values] BY DEF Dirs
    <3>2. \A f \in Files : d.file[f] = g[f] BY <1>3 DEF FilesDurable
    <3> QED BY <3>1, <3>2
  <2> QED BY <1>1, <1>2, <1>3, <2>1 DEF Sound
<1>4. CASE FilesDurable(d, D) /\ m.id # 0 /\ d.marker.id = 0
  <2>1. d.file = g
    <3>1. d.file \in [Files -> Values] BY DEF Dirs
    <3>2. \A f \in Files : d.file[f] = g[f] BY <1>4 DEF FilesDurable
    <3> QED BY <3>1, <3>2
  <2>2. MayReturn(m, g) /\ Whole(g, tk) BY <1>4, <2>1 DEF Sound
  <2>3. CASE \A f \in Files : g[f] \in Pristine
    <3>1. AllPristine(Synced(e)) BY <1>2, <2>3 DEF AllPristine
    <3> QED BY <1>1, <1>4, <3>1 DEF Sound, Removable
  <2>4. CASE ChangedFor(m, g) BY <1>1, <1>2, <1>4, <2>2, <2>4 DEF Sound, Refusable
  <2>5. CASE ~ChangedFor(m, g) /\ \A f \in Files \ Range(m.names) : g[f] = Absent
    <3>1. InstallFiles(m, Synced(e)) BY <1>2, <2>5 DEF InstallFiles, ChangedFor
    <3> QED BY <1>1, <1>2, <1>4, <3>1 DEF Sound, Removable
  <2> QED BY <2>2, <2>3, <2>4, <2>5 DEF MayReturn
<1>5. CASE d.marker.id # 0 /\ AllPristine(D)
  <2>1. \A f \in Files : g[f] \in Pristine BY <1>5 DEF AllPristine
  <2>2. AllPristine(Synced(e)) BY <1>2, <2>1 DEF AllPristine
  <2>3. Whole(g, tk) BY <2>1, PristineIsWhole
  <2> QED BY <1>1, <1>2, <2>2, <2>3 DEF Sound, Removable
<1>6. CASE d.marker.id # 0 /\ D.marker = {d.marker} /\ InstallFiles(d.marker, D)
  <2>1. InstallFiles(m, Synced(e)) BY <1>2, <1>6 DEF InstallFiles
  <2> QED BY <1>1, <1>2, <1>6, <2>1 DEF Sound, Removable
<1>7. CASE d.marker.id # 0 /\ Refusable(d, D, tk)
  <2>1. d.file = g
    <3>1. d.file \in [Files -> Values] BY DEF Dirs
    <3>2. \A f \in Files : d.file[f] = g[f] BY <1>7 DEF Refusable, FilesDurable
    <3> QED BY <3>1, <3>2
  <2> QED BY <1>1, <1>2, <1>7, <2>1 DEF Sound, Refusable
<1> QED BY <1>3, <1>4, <1>5, <1>6, <1>7 DEF Sound, Removable

-----------------------------------------------------------------------------
(* The steps that leave the directory alone.                               *)

\* Off says nothing of the directory.
LEMMA OffLabel == ASSUME at' = "off" PROVE LabelInv'
BY DEF LabelInv

LEMMA StillKeeps ==
    ASSUME IInv, UNCHANGED <<dir, disk, taken, acked, ignored>>,
           todo' \in Seq(Files), moved' \in Seq(Files),
           at' \notin Resting => acked = 0,
           ~ignored => LabelInv'
    PROVE  IInv'
<1>1. TypeInv' BY DEF IInv, TypeInv
<1>2. KeptInv' BY DEF IInv, KeptInv
<1>3. WholeInv' BY DEF IInv, WholeInv
<1> QED BY <1>1, <1>2, <1>3 DEF IInv

\* A boot goes to serve, to undo or to fetch, by what the marker says.
LEMMA BootKeeps == ASSUME IInv, NEW c \in Configs, Boot(c) PROVE IInv'
<1>1. /\ at' \in {"serve", "undo", "fetch"}
      /\ at' \in {"serve", "fetch"} => dir.marker.id = 0
      /\ at' = "undo" => dir.marker.id # 0
  BY DEF Boot, Goto, Interrupted
<1>2. UNCHANGED <<dir, disk, taken, acked, ignored, todo, moved>> BY DEF Boot
<1>3. LabelInv' BY <1>1, <1>2 DEF LabelInv
<1>4. todo' \in Seq(Files) /\ moved' \in Seq(Files) BY <1>2 DEF IInv, TypeInv
<1> QED BY <1>1, <1>2, <1>3, <1>4, StillKeeps DEF Resting

\* A restore begins only in a directory without a store, which served nothing.
LEMMA FetchKeeps == ASSUME IInv, Fetch PROVE IInv'
<1>0. << >> \in Seq(Files) OBVIOUS
<1>1. /\ UNCHANGED <<dir, disk, acked, ignored>> /\ moved' = << >> /\ at = "fetch"
      /\ moved' \in Seq(Files)
  BY <1>0 DEF Fetch
<1>2. CASE UNCHANGED <<todo, taken>> /\ at' \in {"serve", "off"}
  <2>1. ~ignored => LabelInv' BY <1>1, <1>2 DEF LabelInv, IInv, WholeInv
  <2>2. todo' \in Seq(Files) BY <1>2 DEF IInv, TypeInv
  <2> QED BY <1>1, <1>2, <2>1, <2>2, StillKeeps DEF Resting
<1>3. ASSUME NEW b \in Backups, CheckInPlace, at' = "create", todo' = b, taken' = Append(taken, b)
      PROVE  IInv'
  <2>1. \A f \in Files : dir.file[f] \in Pristine BY <1>3 DEF CheckInPlace, Pristine
  <2>2. b \in Seq(Files) BY FileFacts
  <2>3. taken' \in Seq(Backups) /\ Len(taken') > 0 /\ taken'[Len(taken')] = b
    BY <1>3 DEF IInv, TypeInv
  <2>4. TypeInv' BY <1>1, <1>3, <2>2, <2>3 DEF IInv, TypeInv
  <2>5. acked = 0
    <3>1. dir.file[Snapshot].writes = 0 /\ dir.file[Wal].writes = 0
      BY <2>1, FileFacts DEF Pristine, Absent, Empty
    <3> QED BY <3>1, FileFacts DEF IInv, KeptInv, Keeps, TypeInv, Agree
  <2>6. KeptInv' BY <1>1, <1>3, <2>5 DEF IInv, KeptInv
  <2>7. ASSUME ~ignored PROVE Sound(dir, disk, taken)' /\ LabelInv'
    <3>1. dir.marker.id = 0 /\ Sound(dir, disk, taken) BY <1>1, <2>7 DEF IInv, WholeInv, LabelInv
    <3>2. dir.file \in [Files -> Values] BY DEF IInv, TypeInv, Dirs
    <3>3. Whole(dir.file, taken') BY <2>1, <3>2, PristineIsWhole
    <3>4. FilesDurable(dir, disk) BY <3>1 DEF Sound
    <3>5. Sound(dir, disk, taken)' BY <1>1, <3>1, <3>3 DEF Sound
    <3>6. CheckInPlace' BY <1>1, <1>3 DEF CheckInPlace
    <3> QED BY <1>1, <1>3, <2>3, <3>1, <3>4, <3>5, <3>6 DEF LabelInv, Id
  <2> QED BY <1>1, <2>4, <2>6, <2>7 DEF IInv, WholeInv
<1> QED BY <1>2, <1>3 DEF Fetch, Goto

\* The module's own Changed is the one of the marker and the files.
LEMMA ChangedIs == Changed <=> ChangedFor(dir.marker, dir.file)
BY DEF Changed, ChangedFor, Pristine, Installed

\* The undo refuses a store that changed; what it is going to remove is all
\* that is there, and it served nothing.
LEMMA UndoKeeps == ASSUME IInv, Undo PROVE IInv'
<1>1. UNCHANGED <<dir, disk, taken, acked, ignored, moved>> /\ at = "undo" BY DEF Undo
<1>2. moved' \in Seq(Files) BY <1>1 DEF IInv, TypeInv
<1>3. CASE Changed
  <2>1. at' = "refused" /\ todo' = todo BY <1>3 DEF Undo, Goto
  <2>2. ~ignored => LabelInv' BY <1>1, <1>3, <2>1, ChangedIs DEF LabelInv, IInv, WholeInv
  <2>3. todo' \in Seq(Files) BY <2>1 DEF IInv, TypeInv
  <2> QED BY <1>1, <1>2, <2>1, <2>2, <2>3, StillKeeps DEF Resting
<1>4. CASE ~Changed
  <2>1. at' = "undoRemove" /\ todo' = dir.marker.names BY <1>4 DEF Undo, Goto
  <2>2. todo' \in Seq(Files) BY <2>1 DEF IInv, TypeInv, Dirs, Markers
  <2>3. ~ChangedFor(dir.marker, dir.file) BY <1>4, ChangedIs
  <2>4. acked = 0
    <3>1. \A f \in {Snapshot, Wal} : dir.file[f].writes = 0
      BY <2>3 DEF ChangedFor, Pristine, Installed, Absent, Empty
    <3> QED BY <3>1, FileFacts DEF IInv, KeptInv, Keeps, TypeInv, Agree
  <2>5. ASSUME ~ignored PROVE LabelInv'
    <3>1. dir.marker.id # 0 /\ Sound(dir, disk, taken) BY <1>1, <2>5 DEF IInv, WholeInv, LabelInv
    <3>2. Removable(dir, disk) BY <2>3, <3>1 DEF Sound, Refusable
    <3>3. \A f \in Files : dir.file[f] \in Pristine \/ f \in Range(dir.marker.names)
      <4>1. \A f \in Files : dir.file[f] \in disk.file[f] BY DEF IInv, TypeInv, Agree
      <4> QED BY <3>2, <4>1 DEF Removable, AllPristine, InstallFiles, Pristine
    <3>4. RestIn(todo)' BY <1>1, <2>1, <3>3 DEF RestIn
    <3> QED BY <1>1, <2>1, <3>1, <3>2, <3>4 DEF LabelInv
  <2> QED BY <1>1, <1>2, <2>2, <2>4, <2>5, StillKeeps
<1> QED BY <1>3, <1>4

\* The clean-up begins with what was moved.
LEMMA CleanKeeps == ASSUME IInv, Clean PROVE IInv'
<1>1. /\ UNCHANGED <<dir, disk, taken, acked, ignored, moved>> /\ at = "clean"
      /\ at' = "cleanRemove" /\ todo' = moved
  BY DEF Clean, Goto
<1>2. todo' \in Seq(Files) /\ moved' \in Seq(Files) BY <1>1 DEF IInv, TypeInv
<1>3. ~ignored => LabelInv' BY <1>1 DEF IInv, WholeInv, LabelInv, RestIn
<1>4. acked = 0 BY <1>1 DEF IInv, KeptInv, Resting
<1> QED BY <1>1, <1>2, <1>3, <1>4, StillKeeps

\* A removal that fails ends the boot.
LEMMA RemoveFailsKeeps == ASSUME IInv, RemoveFails PROVE IInv'
<1>1. /\ UNCHANGED <<dir, disk, taken, acked, ignored, moved, todo>> /\ at' = "off"
  BY DEF RemoveFails, Fails, Goto
<1> QED BY <1>1, OffLabel, StillKeeps DEF Resting, IInv, TypeInv

\* A removal whose failure was not looked at.
LEMMA RemoveIgnoredKeeps == ASSUME IInv, RemoveIgnored PROVE IInv'
<1>1. /\ UNCHANGED <<dir, disk, taken, acked, moved, at>> /\ ignored' = TRUE
      /\ todo' = Tail(todo) /\ todo # << >>
  BY DEF RemoveIgnored
<1>2. todo' \in Seq(Files) BY <1>1 DEF IInv, TypeInv
<1>3. TypeInv' BY <1>1, <1>2 DEF IInv, TypeInv
<1>4. KeptInv' BY <1>1 DEF IInv, KeptInv
<1>5. WholeInv' BY <1>1 DEF WholeInv
<1> QED BY <1>3, <1>4, <1>5 DEF IInv

LEMMA KillKeeps == ASSUME IInv, Kill PROVE IInv'
<1>1. /\ UNCHANGED <<dir, disk, taken, acked, ignored, moved, todo>> /\ at' = "off"
  BY DEF Kill, Goto
<1> QED BY <1>1, OffLabel, StillKeeps DEF Resting, IInv, TypeInv

-----------------------------------------------------------------------------
(* The fsyncs.                                                             *)

LEMMA SyncFrame ==
    ASSUME IInv, NEW here, here \notin Resting, NEW next, NEW onError, Sync(here, next, onError)
    PROVE  /\ TypeInv' /\ KeptInv'
           /\ ~ignored => Sound(dir, disk, taken)'
           /\ UNCHANGED <<dir, todo, moved, taken, ignored>>
           /\ at = here
           /\ \/ disk' = Synced(dir) /\ at' = next
              \/ disk' = disk /\ at' = onError
<1>1. /\ UNCHANGED <<dir, todo, moved, taken, acked, ignored>> /\ at = here
      /\ \/ disk' = Synced(dir) /\ at' = next
         \/ disk' = disk /\ at' = onError
  BY DEF Sync, Fails, Goto
<1>2. dir \in Dirs /\ disk \in Disks /\ Agree(dir, disk) BY DEF IInv, TypeInv
<1>3. disk' \in Disks /\ Agree(dir', disk') BY <1>1, <1>2, SyncedFacts
<1>4. TypeInv' BY <1>1, <1>3 DEF IInv, TypeInv
<1>5. Keeps(disk', acked) BY <1>1, <1>2, SyncKeeps DEF IInv, KeptInv
<1>6. acked = 0 BY <1>1 DEF IInv, KeptInv
<1>7. KeptInv' BY <1>1, <1>5, <1>6 DEF KeptInv
<1>8. ASSUME ~ignored PROVE Sound(dir, disk, taken)'
  <2>1. Sound(dir, disk, taken) BY <1>8 DEF IInv, WholeInv
  <2>2. Sound(dir, disk', taken) BY <1>1, <1>2, <2>1, SyncSound
  <2> QED BY <1>1, <2>2
<1> QED BY <1>1, <1>4, <1>7, <1>8

LEMMA UndoSyncKeeps == ASSUME IInv, Sync("undoSync", "undoMarker", "off") PROVE IInv'
<1>1. /\ TypeInv' /\ KeptInv' /\ (~ignored => Sound(dir, disk, taken)')
      /\ UNCHANGED <<dir, taken, ignored>> /\ at = "undoSync"
      /\ (disk' = Synced(dir) /\ at' = "undoMarker") \/ at' = "off"
  BY SyncFrame DEF Resting
<1>2. ASSUME ~ignored, at' = "undoMarker", disk' = Synced(dir) PROVE LabelInv'
  <2>1. /\ dir.marker.id # 0 /\ \A f \in Files : dir.file[f] \in Pristine
    BY <1>1, <1>2 DEF IInv, WholeInv, LabelInv
  <2>2. FilesDurable(dir, disk') /\ \A f \in Files : disk'.file[f] = {dir.file[f]}
    BY <1>2, SyncedFacts DEF IInv, TypeInv
  <2>3. Removable(dir, disk') BY <2>1, <2>2 DEF Removable, AllPristine
  <2> QED BY <1>1, <1>2, <2>1, <2>2, <2>3 DEF LabelInv
<1> QED BY <1>1, <1>2, OffLabel DEF IInv, WholeInv

LEMMA CleanSyncKeeps == ASSUME IInv, Sync("cleanSync", "cleanMarker", "off") PROVE IInv'
<1>1. /\ TypeInv' /\ KeptInv' /\ (~ignored => Sound(dir, disk, taken)')
      /\ UNCHANGED <<dir, taken, ignored>> /\ at = "cleanSync"
      /\ (disk' = Synced(dir) /\ at' = "cleanMarker") \/ at' = "off"
  BY SyncFrame DEF Resting
<1>2. ASSUME ~ignored, at' = "cleanMarker", disk' = Synced(dir) PROVE LabelInv'
  <2>1. /\ dir.marker.id # 0 /\ \A f \in Files : dir.file[f] \in Pristine
    BY <1>1, <1>2 DEF IInv, WholeInv, LabelInv
  <2>2. FilesDurable(dir, disk') /\ \A f \in Files : disk'.file[f] = {dir.file[f]}
    BY <1>2, SyncedFacts DEF IInv, TypeInv
  <2>3. Removable(dir, disk') BY <2>1, <2>2 DEF Removable, AllPristine
  <2> QED BY <1>1, <1>2, <2>1, <2>2, <2>3 DEF LabelInv
<1> QED BY <1>1, <1>2, OffLabel DEF IInv, WholeInv

\* The marker's removal is durable: the install is undone, cleaned up or done.
LEMMA LastSyncsKeep ==
    ASSUME IInv, \/ Sync("undoSynced", "fetch", "off")
                 \/ Sync("lastSync", "serve", "off")
                 \/ Sync("cleanSynced", "off", "off")
    PROVE  IInv'
<1>1. /\ TypeInv' /\ KeptInv' /\ (~ignored => Sound(dir, disk, taken)')
      /\ UNCHANGED <<dir, taken, ignored>> /\ at \in {"undoSynced", "lastSync", "cleanSynced"}
      /\ at' \in {"fetch", "serve", "off"}
  BY SyncFrame DEF Resting
<1>2. ASSUME ~ignored PROVE LabelInv'
  <2>1. dir.marker.id = 0 BY <1>1, <1>2 DEF IInv, WholeInv, LabelInv
  <2> QED BY <1>1, <2>1 DEF LabelInv
<1> QED BY <1>1, <1>2 DEF IInv, WholeInv

\* The marker is durable before the first file is moved.
LEMMA MarkerSyncKeeps == ASSUME IInv, Sync("markerSync", "move", "clean") PROVE IInv'
<1>1. /\ TypeInv' /\ KeptInv' /\ (~ignored => Sound(dir, disk, taken)')
      /\ UNCHANGED <<dir, todo, moved, taken, ignored>> /\ at = "markerSync"
      /\ \/ disk' = Synced(dir) /\ at' = "move"
         \/ disk' = disk /\ at' = "clean"
  BY SyncFrame DEF Resting
<1>2. ASSUME ~ignored PROVE LabelInv'
  <2>1. /\ CheckInPlace /\ FilesDurable(dir, disk) /\ todo = taken[Id] /\ moved = << >>
        /\ dir.marker = [id |-> Id, names |-> taken[Id]] /\ Id > 0
    BY <1>1, <1>2 DEF IInv, WholeInv, LabelInv
  <2>2. Id' = Id /\ Id \in Nat /\ taken[Id] \in Backups BY <1>1, <2>1 DEF Id, IInv, TypeInv
  <2>3. dir.marker.id # 0 /\ dir.marker.names = taken[Id] BY <2>1, <2>2
  <2>4. \A f \in Files : dir.file[f] \in Pristine BY <2>1 DEF CheckInPlace, Pristine
  <2>5. RestIn(moved)' BY <1>1, <2>4 DEF RestIn
  <2>6. CASE disk' = disk /\ at' = "clean"
    <3>1. AllPristine(disk) BY <2>1, <2>4 DEF AllPristine, FilesDurable
    <3> QED BY <1>1, <2>3, <2>5, <2>6, <3>1 DEF LabelInv, Removable
  <2>7. CASE disk' = Synced(dir) /\ at' = "move"
    <3>1. disk'.marker = {dir.marker} /\ \A f \in Files : disk'.file[f] = {dir.file[f]}
      BY <2>7, SyncedFacts DEF IInv, TypeInv
    <3>2. Wal \in Range(dir.marker.names) BY <2>2, <2>3, FileFacts
    <3>3. InstallFiles(dir.marker, disk')
      BY <2>1, <3>1, <3>2 DEF InstallFiles, CheckInPlace, Pristine
    <3>4. \A f \in Range(dir.marker.names) : f \in Range(todo) BY <2>1, <2>3
    <3> QED BY <1>1, <2>1, <2>2, <2>5, <2>7, <3>1, <3>3, <3>4 DEF LabelInv
  <2> QED BY <1>1, <2>6, <2>7
<1> QED BY <1>1, <1>2 DEF IInv, WholeInv

\* The files are durable before the marker goes.
LEMMA MoveSyncKeeps == ASSUME IInv, Sync("moveSync", "dropMarker", "clean") PROVE IInv'
<1>1. /\ TypeInv' /\ KeptInv' /\ (~ignored => Sound(dir, disk, taken)')
      /\ UNCHANGED <<dir, todo, moved, taken, ignored>> /\ at = "moveSync"
      /\ \/ disk' = Synced(dir) /\ at' = "dropMarker"
         \/ disk' = disk /\ at' = "clean"
  BY SyncFrame DEF Resting
<1>2. ASSUME ~ignored PROVE LabelInv'
  <2>1. /\ dir.marker = [id |-> Id, names |-> taken[Id]] /\ Id > 0
        /\ disk.marker = {dir.marker} /\ InstallFiles(dir.marker, disk)
        /\ \A f \in Range(dir.marker.names) : dir.file[f] = Installed(dir.marker)
        /\ RestIn(moved)
    BY <1>1, <1>2 DEF IInv, WholeInv, LabelInv
  <2>2. Id' = Id /\ Id \in Nat BY <1>1 DEF Id, IInv, TypeInv
  <2>3. dir.marker.id # 0 BY <2>1, <2>2
  <2>4. RestIn(moved)' BY <1>1, <2>1 DEF RestIn
  <2>5. CASE disk' = disk /\ at' = "clean"
    BY <1>1, <2>1, <2>3, <2>4, <2>5 DEF LabelInv, Removable
  <2>6. CASE disk' = Synced(dir) /\ at' = "dropMarker"
    <3>1. /\ disk'.marker = {dir.marker} /\ \A f \in Files : disk'.file[f] = {dir.file[f]}
          /\ FilesDurable(dir, disk')
      BY <2>6, SyncedFacts DEF IInv, TypeInv
    <3>2. \A f \in Files : dir.file[f] \in disk.file[f] BY DEF IInv, TypeInv, Agree
    <3>3. InstallFiles(dir.marker, disk') BY <2>1, <3>1, <3>2 DEF InstallFiles
    <3> QED BY <1>1, <2>1, <2>2, <2>6, <3>1, <3>3 DEF LabelInv
  <2> QED BY <1>1, <2>5, <2>6
<1> QED BY <1>1, <1>2 DEF IInv, WholeInv

-----------------------------------------------------------------------------
(* The marker.                                                             *)

LEMMA MarkFrame ==
    ASSUME IInv, NEW here, here \notin Resting, NEW mark \in Markers, NEW next, NEW onError,
           Mark(here, mark, next, onError)
    PROVE  /\ TypeInv' /\ KeptInv'
           /\ UNCHANGED <<todo, moved, taken, ignored>> /\ at = here
           /\ dir'.file = dir.file /\ disk'.file = disk.file
           /\ \/ dir'.marker = mark /\ disk'.marker = disk.marker \cup {mark} /\ at' = next
              \/ dir' = dir /\ disk' = disk /\ at' = onError
<1>1. /\ UNCHANGED <<todo, moved, taken, acked, ignored>> /\ at = here
      /\ disk' = Pending(dir')
      /\ \/ dir' = [dir EXCEPT !.marker = mark] /\ at' = next
         \/ dir' = dir /\ at' = onError
  BY DEF Mark, Fails, Goto
<1>2. dir \in Dirs /\ disk \in Disks /\ Agree(dir, disk) BY DEF IInv, TypeInv
<1>3. acked = 0 BY <1>1 DEF IInv, KeptInv
<1>4. CASE dir' = dir /\ at' = onError
  <2>1. disk' = disk BY <1>1, <1>4, PendingSame DEF IInv
  <2>2. TypeInv' BY <1>1, <1>4, <2>1 DEF IInv, TypeInv
  <2>3. KeptInv' BY <1>1, <1>3, <2>1 DEF IInv, KeptInv
  <2> QED BY <1>1, <1>4, <2>1, <2>2, <2>3
<1>5. CASE dir' = [dir EXCEPT !.marker = mark] /\ at' = next
  <2>1. dir' \in Dirs /\ dir'.file = dir.file /\ dir'.marker = mark BY <1>2, <1>5 DEF Dirs
  <2>2. /\ disk' \in Disks /\ Agree(dir', disk')
        /\ disk'.marker = disk.marker \cup {mark}
        /\ \A f \in Files : disk'.file[f] = disk.file[f] \cup {dir.file[f]}
    BY <1>1, <2>1, PendingFacts DEF IInv
  <2>3. disk'.file = disk.file
    <3>1. disk'.file \in [Files -> SUBSET Values] /\ disk.file \in [Files -> SUBSET Values]
      BY <1>2, <2>2 DEF Disks
    <3>2. \A f \in Files : dir.file[f] \in disk.file[f] BY <1>2 DEF Agree
    <3>3. \A f \in Files : disk.file[f] \cup {dir.file[f]} = disk.file[f] BY <3>2
    <3>4. \A f \in Files : disk'.file[f] = disk.file[f] BY <2>2, <3>3
    <3> QED BY <3>1, <3>4
  <2>4. TypeInv' BY <1>1, <2>1, <2>2 DEF IInv, TypeInv
  <2>5. KeptInv' BY <1>1, <1>3, <2>3 DEF IInv, KeptInv, Keeps
  <2> QED BY <1>1, <1>5, <2>1, <2>2, <2>3, <2>4, <2>5
<1> QED BY <1>1, <1>4, <1>5

LEMMA NoMarkType == NoMark \in Markers /\ NoMark.id = 0
<1>1. << >> \in Seq(Files) OBVIOUS
<1> QED BY <1>1 DEF NoMark, Markers

\* A step on the marker that fails leaves everything as it was.
LEMMA MarkFailsKeeps ==
    ASSUME IInv, TypeInv', KeptInv', UNCHANGED <<dir, disk, taken, ignored>>, at' = "off"
    PROVE  IInv'
BY OffLabel DEF IInv, WholeInv

\* An undo or a clean-up takes the marker away when nothing is left.
LEMMA MarkerGoesKeeps ==
    ASSUME IInv, \/ Mark("undoMarker", NoMark, "undoSynced", "off")
                 \/ Mark("cleanMarker", NoMark, "cleanSynced", "off")
    PROVE  IInv'
<1>1. /\ TypeInv' /\ KeptInv' /\ UNCHANGED <<taken, ignored>> /\ at \in {"undoMarker", "cleanMarker"}
      /\ dir'.file = dir.file /\ disk'.file = disk.file
      /\ \/ dir'.marker = NoMark /\ at' \in {"undoSynced", "cleanSynced"}
         \/ dir' = dir /\ disk' = disk /\ at' = "off"
  BY MarkFrame, NoMarkType DEF Resting
<1>2. CASE dir' = dir /\ disk' = disk /\ at' = "off" BY <1>1, <1>2, MarkFailsKeeps
<1>3. CASE dir'.marker = NoMark /\ at' \in {"undoSynced", "cleanSynced"}
  <2>1. ASSUME ~ignored PROVE Sound(dir, disk, taken)' /\ LabelInv'
    <3>1. FilesDurable(dir, disk) /\ \A f \in Files : dir.file[f] \in Pristine
      BY <1>1, <2>1 DEF IInv, WholeInv, LabelInv
    <3>2. dir.file \in [Files -> Values] BY DEF IInv, TypeInv, Dirs
    <3>3. Whole(dir'.file, taken') BY <1>1, <3>1, <3>2, PristineIsWhole
    <3>4. FilesDurable(dir', disk') BY <1>1, <3>1 DEF FilesDurable
    <3>5. \A m \in disk'.marker : MayReturn(m, dir'.file) BY <1>1, <3>1 DEF MayReturn
    <3>6. dir'.marker.id = 0 BY <1>3, NoMarkType
    <3> QED BY <1>3, <3>3, <3>4, <3>5, <3>6 DEF Sound, LabelInv
  <2> QED BY <1>1, <2>1 DEF IInv, WholeInv
<1> QED BY <1>1, <1>2, <1>3

\* The install takes it away when all is moved and durable.
LEMMA DropMarkerKeeps == ASSUME IInv, Mark("dropMarker", NoMark, "lastSync", "off") PROVE IInv'
<1>1. /\ TypeInv' /\ KeptInv' /\ UNCHANGED <<taken, ignored>> /\ at = "dropMarker"
      /\ dir'.file = dir.file /\ disk'.file = disk.file
      /\ \/ dir'.marker = NoMark /\ disk'.marker = disk.marker \cup {NoMark} /\ at' = "lastSync"
         \/ dir' = dir /\ disk' = disk /\ at' = "off"
  BY MarkFrame, NoMarkType DEF Resting
<1>2. CASE dir' = dir /\ disk' = disk /\ at' = "off" BY <1>1, <1>2, MarkFailsKeeps
<1>3. CASE dir'.marker = NoMark /\ disk'.marker = disk.marker \cup {NoMark} /\ at' = "lastSync"
  <2>1. ASSUME ~ignored PROVE Sound(dir, disk, taken)' /\ LabelInv'
    <3> DEFINE m == dir.marker
    <3>1. /\ FilesDurable(dir, disk) /\ disk.marker = {m} /\ InstallFiles(m, disk)
          /\ \A f \in Range(m.names) : dir.file[f] = Installed(m)
          /\ m = [id |-> Id, names |-> taken[Id]] /\ Id > 0
      BY <1>1, <2>1 DEF IInv, WholeInv, LabelInv
    <3>2. dir.file \in [Files -> Values] /\ m \in Markers BY DEF IInv, TypeInv, Dirs
    <3>3. \A f \in Files \ Range(m.names) : dir.file[f] = Absent
      BY <3>1 DEF FilesDurable, InstallFiles
    <3>4. m.id = Id /\ m.names = taken[m.id] BY <3>1
    <3>5. taken[Id] \in Backups BY <3>1 DEF IInv, TypeInv, Id
    <3>6. Wal \in Range(m.names) /\ Range(m.names) \subseteq Files
      BY <3>4, <3>5, FileFacts, RangeOfFiles
    <3>7. Whole(dir.file, taken) BY <3>1, <3>2, <3>3, <3>4, <3>6, InstalledIsWhole
    <3>8. FilesDurable(dir', disk') BY <1>1, <3>1 DEF FilesDurable
    <3>9. MayReturn(m, dir'.file) BY <1>1, <3>3 DEF MayReturn
    <3>10. dir'.marker.id = 0 BY <1>3, NoMarkType
    <3>11. \A x \in disk'.marker : x.id # 0 => MayReturn(x, dir'.file)
      BY <1>3, <3>1, <3>9, NoMarkType
    <3>12. Whole(dir'.file, taken') BY <1>1, <3>7
    <3> HIDE DEF m
    <3> QED BY <1>3, <3>8, <3>10, <3>11, <3>12 DEF Sound, LabelInv
  <2> QED BY <1>1, <2>1 DEF IInv, WholeInv
<1> QED BY <1>1, <1>2, <1>3

\* A directory that CheckInPlace passed stays as it was while its marker is made.
LEMMA MarkerMadeSound ==
    ASSUME NEW d \in Dirs, NEW D \in Disks, NEW tk, d.marker.id # 0, FilesDurable(d, D),
           \A f \in Files : d.file[f] \in Pristine
    PROVE  Sound(d, D, tk)
<1>1. AllPristine(D) BY DEF AllPristine, FilesDurable
<1> QED BY <1>1 DEF Sound, Removable

LEMMA CreateKeeps ==
    ASSUME IInv, Mark("create", [id |-> Id, names |-> << >>], "write", "off") PROVE IInv'
<1> DEFINE mark == [id |-> Id, names |-> << >>]
<1>0. mark \in Markers /\ mark.id = Id
  <2>1. << >> \in Seq(Files) OBVIOUS
  <2>2. Id \in Nat BY DEF Id, IInv, TypeInv
  <2> QED BY <2>1, <2>2 DEF Markers
<1>1. /\ TypeInv' /\ KeptInv' /\ UNCHANGED <<todo, moved, taken, ignored>> /\ at = "create"
      /\ dir'.file = dir.file /\ disk'.file = disk.file
      /\ \/ dir'.marker = mark /\ at' = "write"
         \/ dir' = dir /\ disk' = disk /\ at' = "off"
  BY <1>0, MarkFrame DEF Resting
<1>2. CASE dir' = dir /\ disk' = disk /\ at' = "off" BY <1>1, <1>2, MarkFailsKeeps
<1>3. CASE dir'.marker = mark /\ at' = "write"
  <2>1. ASSUME ~ignored PROVE Sound(dir, disk, taken)' /\ LabelInv'
    <3>1. CheckInPlace /\ FilesDurable(dir, disk) /\ todo = taken[Id] /\ moved = << >> /\ Id > 0
      BY <1>1, <2>1 DEF IInv, WholeInv, LabelInv
    <3>2. Id' = Id BY <1>1 DEF Id
    <3>3. CheckInPlace' BY <1>1, <3>1 DEF CheckInPlace
    <3>4. \A f \in Files : dir'.file[f] \in Pristine BY <3>3 DEF CheckInPlace, Pristine
    <3>5. FilesDurable(dir', disk') BY <1>1, <3>1 DEF FilesDurable
    <3>6. dir'.marker.id = Id' /\ dir'.marker.id # 0 BY <1>0, <1>3, <3>1, <3>2
    <3>7. dir' \in Dirs /\ disk' \in Disks BY <1>1 DEF TypeInv
    <3>8. Sound(dir', disk', taken') BY <3>4, <3>5, <3>6, <3>7, MarkerMadeSound
    <3> QED BY <1>1, <1>3, <3>1, <3>2, <3>3, <3>5, <3>6, <3>8 DEF LabelInv
  <2> QED BY <1>1, <2>1 DEF IInv, WholeInv
<1> QED BY <1>1, <1>2, <1>3

LEMMA WriteMarkerKeeps ==
    ASSUME IInv, Mark("write", [id |-> Id, names |-> todo], "markerSync", "off") PROVE IInv'
<1> DEFINE mark == [id |-> Id, names |-> todo]
<1>0. mark \in Markers /\ mark.id = Id /\ mark.names = todo
  BY DEF Id, IInv, TypeInv, Markers
<1>1. /\ TypeInv' /\ KeptInv' /\ UNCHANGED <<todo, moved, taken, ignored>> /\ at = "write"
      /\ dir'.file = dir.file /\ disk'.file = disk.file
      /\ \/ dir'.marker = mark /\ at' = "markerSync"
         \/ dir' = dir /\ disk' = disk /\ at' = "off"
  BY <1>0, MarkFrame DEF Resting
<1>2. CASE dir' = dir /\ disk' = disk /\ at' = "off" BY <1>1, <1>2, MarkFailsKeeps
<1>3. CASE dir'.marker = mark /\ at' = "markerSync"
  <2>1. ASSUME ~ignored PROVE Sound(dir, disk, taken)' /\ LabelInv'
    <3>1. CheckInPlace /\ FilesDurable(dir, disk) /\ todo = taken[Id] /\ moved = << >> /\ Id > 0
      BY <1>1, <2>1 DEF IInv, WholeInv, LabelInv
    <3>2. Id' = Id BY <1>1 DEF Id
    <3>3. CheckInPlace' BY <1>1, <3>1 DEF CheckInPlace
    <3>4. \A f \in Files : dir'.file[f] \in Pristine BY <3>3 DEF CheckInPlace, Pristine
    <3>5. FilesDurable(dir', disk') BY <1>1, <3>1 DEF FilesDurable
    <3>6. dir'.marker.id # 0 BY <1>0, <1>3, <3>1
    <3>7. dir' \in Dirs /\ disk' \in Disks BY <1>1 DEF TypeInv
    <3>8. Sound(dir', disk', taken') BY <3>4, <3>5, <3>6, <3>7, MarkerMadeSound
    <3>9. dir'.marker = [id |-> Id', names |-> taken'[Id']] BY <1>1, <1>3, <3>1, <3>2
    <3> QED BY <1>1, <1>3, <3>1, <3>2, <3>3, <3>5, <3>8, <3>9 DEF LabelInv
  <2> QED BY <1>1, <2>1 DEF IInv, WholeInv
<1> QED BY <1>1, <1>2, <1>3

-----------------------------------------------------------------------------
(* The files of a restore are moved, and removed again.                    *)

\* One file changes to v, in a directory that served nothing.
LEMMA FileChanges ==
    ASSUME IInv, acked = 0, NEW h \in Files, NEW v \in Values, v.writes = 0,
           dir' = [dir EXCEPT !.file[h] = v], disk' = Pending(dir'), UNCHANGED acked
    PROVE  /\ dir' \in Dirs /\ disk' \in Disks /\ Agree(dir', disk') /\ Keeps(disk', acked')
           /\ dir'.marker = dir.marker /\ disk'.marker = disk.marker
           /\ dir'.file[h] = v /\ \A f \in Files \ {h} : dir'.file[f] = dir.file[f]
           /\ disk'.file[h] = disk.file[h] \cup {v}
           /\ \A f \in Files \ {h} : disk'.file[f] = disk.file[f]
<1>1. dir \in Dirs /\ disk \in Disks /\ Agree(dir, disk) BY DEF IInv, TypeInv
<1>2. /\ dir' \in Dirs /\ dir'.marker = dir.marker
      /\ dir'.file[h] = v /\ \A f \in Files \ {h} : dir'.file[f] = dir.file[f]
  BY <1>1 DEF Dirs
<1>3. /\ disk' \in Disks /\ Agree(dir', disk')
      /\ disk'.marker = disk.marker \cup {dir'.marker}
      /\ \A f \in Files : disk'.file[f] = disk.file[f] \cup {dir'.file[f]}
  BY <1>2, PendingFacts DEF IInv
<1>4. dir.marker \in disk.marker /\ \A f \in Files : dir.file[f] \in disk.file[f]
  BY <1>1 DEF Agree
<1>5. disk'.marker = disk.marker
  <2>1. dir'.marker \in disk.marker BY <1>2, <1>4
  <2>2. disk'.marker = disk.marker \cup {dir'.marker} BY <1>3
  <2> QED BY <2>1, <2>2
<1>6. disk'.file[h] = disk.file[h] \cup {v} BY <1>2, <1>3
<1>7. \A f \in Files \ {h} : disk'.file[f] = disk.file[f]
  <2> SUFFICES ASSUME NEW f \in Files \ {h} PROVE disk'.file[f] = disk.file[f] OBVIOUS
  <2>1. dir'.file[f] \in disk.file[f] BY <1>2, <1>4
  <2>2. disk'.file[f] = disk.file[f] \cup {dir'.file[f]} BY <1>3
  <2> QED BY <2>1, <2>2
<1>8. Keeps(disk', acked')
  <2>1. Keeps(disk, 0) BY DEF IInv, KeptInv
  <2>2. \A f \in {Snapshot, Wal} : \A x \in disk.file[f] : x.writes = 0
    <3>1. \A f \in {Snapshot, Wal} : \A x \in disk.file[f] : x.writes \in Nat
      BY <1>1, FileFacts DEF Disks, Values
    <3>2. dir.file[Snapshot] \in disk.file[Snapshot] /\ dir.file[Wal] \in disk.file[Wal]
      BY <1>4, FileFacts
    <3> QED BY <2>1, <3>1, <3>2 DEF Keeps
  <2>3. \A f \in {Snapshot, Wal} : \A x \in disk'.file[f] : x.writes = 0
    BY <1>6, <1>7, <2>2, FileFacts
  <2> QED BY <2>3 DEF Keeps
<1> QED BY <1>2, <1>3, <1>5, <1>6, <1>7, <1>8

LEMMA AbsentType == Absent \in Values /\ Absent.writes = 0
BY DEF Absent, Values

\* A removal, in an undo or a clean-up, keeps what is left removable.
LEMMA RemoveNextKeeps ==
    ASSUME IInv, NEW here, NEW next, RemoveNext(here, next),
           (here = "undoRemove" /\ next = "undoSync") \/ (here = "cleanRemove" /\ next = "cleanSync")
    PROVE  IInv'
<1>1. /\ UNCHANGED <<moved, taken, acked, ignored>> /\ at = here /\ disk' = Pending(dir')
      /\ at \in {"undoRemove", "cleanRemove"} /\ acked = 0
  BY DEF RemoveNext, IInv, KeptInv, Resting
<1>2. CASE todo = << >>
  <2>1. dir' = dir /\ todo' = todo /\ at' \in {"undoSync", "cleanSync"} BY <1>2 DEF RemoveNext, Goto
  <2>2. disk' = disk BY <1>1, <2>1, PendingSame DEF IInv
  <2>3. ASSUME ~ignored PROVE LabelInv'
    <3>1. dir.marker.id # 0 /\ Removable(dir, disk) /\ RestIn(todo)
      BY <1>1, <2>3 DEF IInv, WholeInv, LabelInv
    <3>2. \A f \in Files : dir.file[f] \in Pristine BY <1>2, <3>1, RangeOfNone DEF RestIn
    <3> QED BY <2>1, <2>2, <3>1, <3>2 DEF LabelInv
  <2>4. todo' \in Seq(Files) /\ moved' \in Seq(Files) BY <1>1, <2>1 DEF IInv, TypeInv
  <2> QED BY <1>1, <2>1, <2>2, <2>3, <2>4, StillKeeps
<1>3. CASE todo # << >>
  <2> DEFINE h == Head(todo)
  <2>1. dir' = [dir EXCEPT !.file[h] = Absent] /\ todo' = Tail(todo) /\ at' = at
    BY <1>3 DEF RemoveNext
  <2>2. todo \in Seq(Files) BY DEF IInv, TypeInv
  <2>3. /\ h \in Files /\ todo' \in Seq(Files)
        /\ \A f \in Range(todo) : f = h \/ f \in Range(todo')
    BY <1>3, <2>1, <2>2, RangeOfTail
  <2> HIDE DEF h
  <2>4. /\ dir' \in Dirs /\ disk' \in Disks /\ Agree(dir', disk') /\ Keeps(disk', acked')
        /\ dir'.marker = dir.marker /\ disk'.marker = disk.marker
        /\ dir'.file[h] = Absent /\ \A f \in Files \ {h} : dir'.file[f] = dir.file[f]
        /\ disk'.file[h] = disk.file[h] \cup {Absent}
        /\ \A f \in Files \ {h} : disk'.file[f] = disk.file[f]
    BY <1>1, <2>1, <2>3, FileChanges, AbsentType
  <2>5. TypeInv' BY <1>1, <2>3, <2>4 DEF IInv, TypeInv
  <2>6. KeptInv' BY <1>1, <2>1, <2>4 DEF KeptInv
  <2>7. ASSUME ~ignored PROVE Sound(dir, disk, taken)' /\ LabelInv'
    <3>1. dir.marker.id # 0 /\ Removable(dir, disk) /\ RestIn(todo)
      BY <1>1, <2>7 DEF IInv, WholeInv, LabelInv
    <3>2. Removable(dir', disk')
      <4>1. CASE AllPristine(disk)
        <5>1. AllPristine(disk') BY <2>3, <2>4, <4>1 DEF AllPristine, Pristine
        <5> QED BY <5>1 DEF Removable
      <4>2. CASE disk.marker = {dir.marker} /\ InstallFiles(dir.marker, disk)
        <5>1. InstallFiles(dir'.marker, disk')
          BY <2>3, <2>4, <4>2 DEF InstallFiles, Pristine
        <5> QED BY <2>4, <4>2, <5>1 DEF Removable
      <4> QED BY <3>1, <4>1, <4>2 DEF Removable
    <3>3. RestIn(todo)' BY <2>3, <2>4, <3>1 DEF RestIn, Pristine
    <3>4. dir'.marker.id # 0 BY <2>4, <3>1
    <3> QED BY <1>1, <2>1, <3>2, <3>3, <3>4 DEF LabelInv, Sound
  <2> QED BY <1>1, <2>5, <2>6, <2>7 DEF IInv, WholeInv
<1> QED BY <1>2, <1>3

\* A file is renamed in.
LEMMA MoveKeeps == ASSUME IInv, Move PROVE IInv'
<1>1. /\ UNCHANGED <<taken, acked, ignored>> /\ at = "move" /\ disk' = Pending(dir') /\ acked = 0
  BY DEF Move, IInv, KeptInv, Resting
<1>2. todo \in Seq(Files) /\ moved \in Seq(Files) BY DEF IInv, TypeInv
<1>3. ASSUME ~ignored
      PROVE  /\ dir.marker = [id |-> Id, names |-> taken[Id]] /\ Id > 0
             /\ disk.marker = {dir.marker} /\ InstallFiles(dir.marker, disk)
             /\ Range(todo) \subseteq Range(dir.marker.names)
             /\ \A f \in Range(dir.marker.names) :
                   dir.file[f] = Installed(dir.marker) \/ f \in Range(todo)
             /\ RestIn(moved)
  BY <1>1, <1>3 DEF IInv, WholeInv, LabelInv
<1>4. CASE todo = << >>
  <2>1. dir' = dir /\ todo' = todo /\ moved' = moved /\ at' = "moveSync" BY <1>4 DEF Move, Goto
  <2>2. disk' = disk BY <1>1, <2>1, PendingSame DEF IInv
  <2>3. ASSUME ~ignored PROVE LabelInv'
    <3>1. \A f \in Range(dir.marker.names) : dir.file[f] = Installed(dir.marker)
      BY <1>3, <1>4, <2>3, RangeOfNone
    <3>2. RestIn(moved)' BY <1>3, <2>1, <2>3 DEF RestIn
    <3>3. Id' = Id BY <1>1 DEF Id
    <3> QED BY <1>1, <1>3, <2>1, <2>2, <2>3, <3>1, <3>2, <3>3 DEF LabelInv
  <2> QED BY <1>1, <1>2, <2>1, <2>2, <2>3, StillKeeps
<1>5. CASE todo # << >> /\ Fails("clean") /\ UNCHANGED <<todo, moved>>
  <2>1. dir' = dir /\ at' = "clean" BY <1>5 DEF Fails, Goto
  <2>2. disk' = disk BY <1>1, <2>1, PendingSame DEF IInv
  <2>3. ASSUME ~ignored PROVE LabelInv'
    <3>1. dir.marker.id # 0
      <4>1. Id \in Nat BY DEF Id, IInv, TypeInv
      <4> QED BY <1>3, <2>3, <4>1
    <3>2. RestIn(moved)' BY <1>3, <1>5, <2>1, <2>3 DEF RestIn
    <3>3. Removable(dir, disk) BY <1>3, <2>3 DEF Removable
    <3> QED BY <2>1, <2>2, <3>1, <3>2, <3>3 DEF LabelInv
  <2> QED BY <1>1, <1>2, <1>5, <2>1, <2>2, <2>3, StillKeeps
<1>6. CASE /\ todo # << >>
           /\ dir' = [dir EXCEPT !.file[Head(todo)] = [origin |-> Id, writes |-> 0]]
           /\ todo' = Tail(todo)
           /\ moved' = Append(moved, Head(todo))
           /\ UNCHANGED <<at, faults>>
  <2> DEFINE h == Head(todo)
             v == [origin |-> Id, writes |-> 0]
  <2>1. /\ h \in Files /\ todo' \in Seq(Files)
        /\ \A f \in Range(todo) : f = h \/ f \in Range(todo')
        /\ h \in Range(todo) /\ Range(todo') \subseteq Range(todo)
    BY <1>2, <1>6, RangeOfTail
  <2>2. moved' \in Seq(Files) /\ Range(moved) \cup {h} \subseteq Range(moved')
    BY <1>2, <1>6, <2>1, RangeOfAppend
  <2>3. v \in Values /\ v.writes = 0 BY DEF Id, Values, IInv, TypeInv
  <2>4. dir' = [dir EXCEPT !.file[h] = v] BY <1>6
  <2>0. ~ignored => v = Installed(dir.marker) BY <1>3 DEF Installed
  <2> HIDE DEF h, v
  <2>5. /\ dir' \in Dirs /\ disk' \in Disks /\ Agree(dir', disk') /\ Keeps(disk', acked')
        /\ dir'.marker = dir.marker /\ disk'.marker = disk.marker
        /\ dir'.file[h] = v /\ \A f \in Files \ {h} : dir'.file[f] = dir.file[f]
        /\ disk'.file[h] = disk.file[h] \cup {v}
        /\ \A f \in Files \ {h} : disk'.file[f] = disk.file[f]
    BY <1>1, <2>1, <2>3, <2>4, FileChanges
  <2>6. TypeInv' BY <1>1, <2>1, <2>2, <2>5 DEF IInv, TypeInv
  <2>7. KeptInv' BY <1>1, <1>6, <2>5 DEF KeptInv
  <2>8. ASSUME ~ignored PROVE Sound(dir, disk, taken)' /\ LabelInv'
    <3>1. v = Installed(dir'.marker) BY <2>0, <2>5, <2>8
    <3>2. Range(dir.marker.names) \subseteq Files
      BY RangeOfFiles DEF IInv, TypeInv, Dirs, Markers
    <3>3. h \in Range(dir.marker.names) /\ Range(todo') \subseteq Range(dir'.marker.names)
      BY <1>3, <2>1, <2>5, <2>8
    <3>4. InstallFiles(dir'.marker, disk')
      BY <1>3, <2>1, <2>5, <2>8, <3>1, <3>3 DEF InstallFiles, Pristine
    <3>5. \A f \in Range(dir'.marker.names) :
             dir'.file[f] = Installed(dir'.marker) \/ f \in Range(todo')
      BY <1>3, <2>1, <2>5, <2>8, <3>1, <3>2
    <3>6. RestIn(moved)' BY <1>3, <2>2, <2>5, <2>8 DEF RestIn
    <3>7. Id' = Id /\ Id \in Nat BY <1>1 DEF Id, IInv, TypeInv
    <3>8. dir'.marker.id # 0 BY <1>3, <2>5, <2>8, <3>7
    <3>9. Sound(dir', disk', taken') BY <1>3, <2>5, <2>8, <3>4, <3>8 DEF Sound, Removable
    <3> QED BY <1>1, <1>3, <1>6, <2>5, <2>8, <3>3, <3>4, <3>5, <3>6, <3>7, <3>9 DEF LabelInv
  <2> QED BY <1>1, <2>6, <2>7, <2>8 DEF IInv, WholeInv
<1> QED BY <1>4, <1>5, <1>6 DEF Move

-----------------------------------------------------------------------------
(* The server, the operator, the power.                                    *)

\* The marker of a store that was refused is deleted: what is there is a whole store.
LEMMA OperatorKeeps == ASSUME IInv, Operator PROVE IInv'
<1>1. /\ UNCHANGED <<todo, moved, taken, acked, ignored>> /\ at = "refused" /\ at' = "off"
      /\ dir' = [dir EXCEPT !.marker = NoMark] /\ disk' = Synced(dir')
  BY DEF Operator, Goto
<1>2. dir \in Dirs /\ disk \in Disks /\ Agree(dir, disk) BY DEF IInv, TypeInv
<1>3. dir' \in Dirs /\ dir'.file = dir.file /\ dir'.marker = NoMark BY <1>1, <1>2, NoMarkType DEF Dirs
<1>4. /\ disk' \in Disks /\ Agree(dir', disk') /\ FilesDurable(dir', disk')
      /\ disk'.marker = {NoMark}
      /\ \A f \in Files : disk'.file[f] = {dir.file[f]}
  BY <1>1, <1>3, SyncedFacts, ZenonT(30)
<1>5. TypeInv' BY <1>1, <1>3, <1>4 DEF IInv, TypeInv
<1>6. KeptInv'
  <2>1. disk'.file[Snapshot] = {dir.file[Snapshot]} /\ disk'.file[Wal] = {dir.file[Wal]}
    BY <1>4, FileFacts
  <2>2. dir.file[Snapshot] \in disk.file[Snapshot] /\ dir.file[Wal] \in disk.file[Wal]
    BY <1>2, FileFacts DEF Agree
  <2>3. Keeps(disk', acked) BY <2>1, <2>2 DEF IInv, KeptInv, Keeps
  <2> QED BY <1>1, <2>3 DEF KeptInv, Resting
<1>7. ASSUME ~ignored PROVE Sound(dir, disk, taken)'
  <2>1. /\ dir.marker.id # 0 /\ ChangedFor(dir.marker, dir.file)
        /\ Removable(dir, disk) \/ Refusable(dir, disk, taken)
    BY <1>1, <1>7 DEF IInv, WholeInv, LabelInv, Sound
  <2>2. \A f \in Files : dir.file[f] \in disk.file[f] BY <1>2 DEF Agree
  <2>3. dir.file \in [Files -> Values] /\ Range(dir.marker.names) \subseteq Files
    BY <1>2, RangeOfFiles DEF Dirs, Markers
  <2>4. CASE AllPristine(disk)
    <3>1. \A f \in Files : dir.file[f] \in Pristine BY <2>2, <2>4 DEF AllPristine
    <3> QED BY <2>3, <3>1, PristineIsWhole, <1>1, <1>3, <1>4, NoMarkType DEF Sound
  <2>5. CASE InstallFiles(dir.marker, disk)
    BY <2>1, <2>2, <2>3, <2>5, FileFacts DEF InstallFiles, ChangedFor
  <2>6. CASE Refusable(dir, disk, taken)
    BY <1>1, <1>3, <1>4, <2>6, NoMarkType DEF Sound, Refusable
  <2> QED BY <2>1, <2>4, <2>5, <2>6 DEF Removable
<1> QED BY <1>1, <1>5, <1>6, <1>7, OffLabel DEF IInv, WholeInv

\* A write keeps the store whole, and makes it one no undo touches.
LEMMA WriteKeeps == ASSUME IInv, Write PROVE IInv'
<1> DEFINE w == [origin |-> Origin, writes |-> acked + 1]
<1>1. /\ UNCHANGED <<at, todo, moved, taken, ignored>> /\ at = "serve" /\ acked' = acked + 1
      /\ dir' = [dir EXCEPT !.file[Wal] = w] /\ disk' = [disk EXCEPT !.file[Wal] = {w}]
  BY DEF Write
<1>2. dir \in Dirs /\ disk \in Disks /\ Agree(dir, disk) /\ acked \in Nat BY DEF IInv, TypeInv
<1>3. dir.file \in [Files -> Values] BY <1>2 DEF Dirs
<1>4. Origin = Top(dir.file) BY DEF Origin, Top
<1>5. w \in Values /\ w.writes = acked + 1 /\ w.origin = Top(dir.file)
  BY <1>2, <1>3, <1>4, TopFacts DEF Values
<1> HIDE DEF w
<1>6. /\ dir' \in Dirs /\ dir'.marker = dir.marker /\ dir'.file[Wal] = w
      /\ \A f \in Files \ {Wal} : dir'.file[f] = dir.file[f]
  BY <1>1, <1>2, <1>5, FileFacts DEF Dirs
<1>7. /\ disk' \in Disks /\ disk'.marker = disk.marker /\ disk'.file[Wal] = {w}
      /\ \A f \in Files \ {Wal} : disk'.file[f] = disk.file[f]
  BY <1>1, <1>2, <1>5, FileFacts DEF Disks
<1>8. TypeInv' BY <1>1, <1>2, <1>6, <1>7 DEF IInv, TypeInv, Agree
<1>9. KeptInv'
  <2>1. disk'.file[Snapshot] = disk.file[Snapshot] BY <1>7, FileFacts
  <2>2. dir.file[Wal] \in disk.file[Wal] BY <1>2, FileFacts DEF Agree
  <2>3. \A s \in disk.file[Snapshot] : s.writes =< acked /\ s.writes \in Nat
    BY <1>2, <2>2, FileFacts DEF IInv, KeptInv, Keeps, Disks, Values
  <2>4. Keeps(disk', acked') BY <1>1, <1>2, <1>5, <1>7, <2>1, <2>3 DEF Keeps
  <2> QED BY <1>1, <2>4 DEF KeptInv, Resting
<1>10. ASSUME ~ignored PROVE Sound(dir, disk, taken)' /\ LabelInv'
  <2>1. dir.marker.id = 0 /\ FilesDurable(dir, disk) /\ Whole(dir.file, taken)
    BY <1>1, <1>10 DEF IInv, WholeInv, LabelInv, Sound
  <2>2. FilesDurable(dir', disk') BY <1>6, <1>7, <2>1 DEF FilesDurable
  <2>3. dir'.file \in [Files -> Values] BY <1>6 DEF Dirs
  <2>4. Top(dir'.file) = Top(dir.file)
    <3>1. dir'.file[Wal].origin = Top(dir.file) /\ dir'.file[Snapshot] = dir.file[Snapshot]
      BY <1>5, <1>6, FileFacts
    <3> QED BY <1>3, <2>3, <3>1, TopFacts
  <2>5. Whole(dir'.file, taken')
    <3>1. ASSUME NEW f \in Files PROVE dir'.file[f].origin \in {-1, 0, Top(dir.file)}
      <4>1. CASE f = Wal BY <1>5, <1>6, <4>1
      <4>2. CASE f # Wal BY <1>6, <2>1, <4>2 DEF Whole
      <4> QED BY <4>1, <4>2
    <3>2. ASSUME Top(dir.file) # 0, NEW f \in Range(taken[Top(dir.file)])
          PROVE  dir'.file[f].origin = Top(dir.file) \/ (f = Wal /\ dir'.file[Snapshot].writes > 0)
      <4>0. f \in Files BY <2>1, <3>2 DEF Whole
      <4>1. CASE f = Wal BY <1>5, <1>6, <4>1
      <4>2. CASE f # Wal BY <1>6, <2>1, <3>2, <4>0, <4>2 DEF Whole
      <4> QED BY <4>1, <4>2
    <3>3. Top(dir.file) # 0 => Range(taken[Top(dir.file)]) \subseteq Files BY <2>1 DEF Whole
    <3> QED BY <1>1, <2>4, <3>1, <3>2, <3>3 DEF Whole
  <2>6. ASSUME NEW m \in disk'.marker PROVE ChangedFor(m, dir'.file)
    <3>1. w \notin Pristine \cup {Installed(m)} /\ w # Absent
      BY <1>2, <1>5 DEF Pristine, Absent, Empty, Installed
    <3> QED BY <1>6, <3>1 DEF ChangedFor
  <2>7. Sound(dir', disk', taken') BY <1>6, <2>1, <2>2, <2>5, <2>6 DEF Sound, MayReturn
  <2> QED BY <1>1, <1>6, <2>1, <2>7 DEF LabelInv
<1> QED BY <1>1, <1>8, <1>9, <1>10 DEF IInv, WholeInv

\* A snapshot takes the place of the WAL in the store.
LEMMA TakeSnapshotKeeps == ASSUME IInv, TakeSnapshot PROVE IInv'
<1> DEFINE s == [origin |-> Origin, writes |-> acked]
<1>1. /\ UNCHANGED <<at, todo, moved, taken, acked, ignored>> /\ at = "serve" /\ acked > 0
      /\ dir' = [dir EXCEPT !.file[Snapshot] = s, !.file[Wal] = Empty] /\ disk' = Synced(dir')
  BY DEF TakeSnapshot
<1>2. dir \in Dirs /\ disk \in Disks /\ Agree(dir, disk) /\ acked \in Nat BY DEF IInv, TypeInv
<1>3. dir.file \in [Files -> Values] BY <1>2 DEF Dirs
<1>4. Origin = Top(dir.file) BY DEF Origin, Top
<1>5. s \in Values /\ s.writes = acked /\ s.origin = Top(dir.file)
  BY <1>2, <1>3, <1>4, TopFacts DEF Values
<1>6. Empty \in Values /\ Empty.writes = 0 /\ Empty.origin = 0 BY DEF Empty, Values
<1> HIDE DEF s
<1>7. /\ dir' \in Dirs /\ dir'.marker = dir.marker
      /\ dir'.file[Snapshot] = s /\ dir'.file[Wal] = Empty
      /\ \A f \in Files \ {Snapshot, Wal} : dir'.file[f] = dir.file[f]
  <2> DEFINE mid == [dir EXCEPT !.file[Snapshot] = s]
  <2>1. /\ mid \in Dirs /\ mid.marker = dir.marker /\ mid.file[Snapshot] = s
        /\ \A f \in Files \ {Snapshot} : mid.file[f] = dir.file[f]
    BY <1>2, <1>5, FileFacts DEF Dirs
  <2>2. dir' = [mid EXCEPT !.file[Wal] = Empty] BY <1>1
  <2> HIDE DEF mid
  <2>3. /\ dir' \in Dirs /\ dir'.marker = mid.marker /\ dir'.file[Wal] = Empty
        /\ \A f \in Files \ {Wal} : dir'.file[f] = mid.file[f]
    BY <1>6, <2>1, <2>2, FileFacts DEF Dirs
  <2> QED BY <2>1, <2>3, FileFacts
<1>8. /\ disk' \in Disks /\ Agree(dir', disk') /\ FilesDurable(dir', disk')
      /\ disk'.marker = {dir.marker}
      /\ disk'.file[Snapshot] = {s} /\ disk'.file[Wal] = {Empty}
  <2>1. /\ disk' \in Disks /\ Agree(dir', disk') /\ FilesDurable(dir', disk')
        /\ disk'.marker = {dir'.marker} /\ \A f \in Files : disk'.file[f] = {dir'.file[f]}
    BY <1>1, <1>7, SyncedFacts
  <2> QED BY <1>7, <2>1, FileFacts
<1>9. TypeInv' BY <1>1, <1>7, <1>8 DEF IInv, TypeInv
<1>10. KeptInv'
  <2>1. Keeps(disk', acked') BY <1>1, <1>2, <1>5, <1>6, <1>8 DEF Keeps
  <2> QED BY <1>1, <2>1 DEF KeptInv, Resting
<1>11. ASSUME ~ignored PROVE Sound(dir, disk, taken)' /\ LabelInv'
  <2>1. dir.marker.id = 0 /\ Whole(dir.file, taken)
    BY <1>1, <1>11 DEF IInv, WholeInv, LabelInv, Sound
  <2>2. Top(dir'.file) = Top(dir.file)
    <3>1. dir'.file \in [Files -> Values] BY <1>7 DEF Dirs
    <3>2. dir'.file[Wal].origin = 0 /\ dir'.file[Snapshot].origin = Top(dir.file)
      BY <1>5, <1>6, <1>7
    <3> QED BY <1>3, <3>1, <3>2, TopFacts
  <2>3. Whole(dir'.file, taken')
    <3>1. ASSUME NEW f \in Files PROVE dir'.file[f].origin \in {-1, 0, Top(dir.file)}
      <4>1. CASE f = Wal BY <1>6, <1>7, <4>1
      <4>2. CASE f = Snapshot BY <1>5, <1>7, <4>2
      <4>3. CASE f \notin {Snapshot, Wal} BY <1>7, <2>1, <4>3 DEF Whole
      <4> QED BY <4>1, <4>2, <4>3
    <3>2. ASSUME Top(dir.file) # 0, NEW f \in Range(taken[Top(dir.file)])
          PROVE  dir'.file[f].origin = Top(dir.file) \/ (f = Wal /\ dir'.file[Snapshot].writes > 0)
      <4>0. f \in Files BY <2>1, <3>2 DEF Whole
      <4>1. CASE f = Wal BY <1>1, <1>5, <1>7, <4>1
      <4>2. CASE f = Snapshot BY <1>5, <1>7, <4>2
      <4>3. CASE f \notin {Snapshot, Wal} BY <1>7, <2>1, <3>2, <4>0, <4>3 DEF Whole
      <4> QED BY <4>1, <4>2, <4>3
    <3>3. Top(dir.file) # 0 => Range(taken[Top(dir.file)]) \subseteq Files BY <2>1 DEF Whole
    <3> QED BY <1>1, <2>2, <3>1, <3>2, <3>3 DEF Whole
  <2>4. Sound(dir', disk', taken') BY <1>7, <1>8, <2>1, <2>3 DEF Sound
  <2> QED BY <1>1, <1>7, <2>1, <2>4 DEF LabelInv
<1> QED BY <1>1, <1>9, <1>10, <1>11 DEF IInv, WholeInv

\* Whatever of the last changes is left.
LEMMA PowerLossKeeps == ASSUME IInv, PowerLoss PROVE IInv'
<1>1. /\ UNCHANGED <<todo, moved, taken, acked, ignored>> /\ at' = "off" /\ disk' = Synced(dir')
  BY DEF PowerLoss, Goto
<1>2. PICK m \in disk.marker, g \in [Files -> UNION Range(disk.file)] :
          /\ \A f \in Files : g[f] \in disk.file[f]
          /\ dir' = [marker |-> m, file |-> g]
  BY DEF PowerLoss
<1>3. dir \in Dirs /\ disk \in Disks BY DEF IInv, TypeInv
<1>4. g \in [Files -> Values] /\ m \in Markers BY <1>2, <1>3 DEF Disks
<1>5. dir' \in Dirs BY <1>2, <1>4 DEF Dirs
<1>6. /\ disk' \in Disks /\ Agree(dir', disk')
      /\ disk'.file[Snapshot] = {g[Snapshot]} /\ disk'.file[Wal] = {g[Wal]}
  BY <1>1, <1>2, <1>5, SyncedFacts, FileFacts
<1>7. TypeInv' BY <1>1, <1>5, <1>6 DEF IInv, TypeInv
<1>8. KeptInv'
  <2>1. g[Snapshot] \in disk.file[Snapshot] /\ g[Wal] \in disk.file[Wal] BY <1>2, FileFacts
  <2>2. Keeps(disk', acked') BY <1>1, <1>6, <2>1 DEF IInv, KeptInv, Keeps
  <2> QED BY <1>1, <2>2 DEF KeptInv, Resting
<1>9. ASSUME ~ignored PROVE Sound(dir, disk, taken)'
  <2>1. Sound(dir, disk, taken) BY <1>9 DEF IInv, WholeInv
  <2>2. Sound(dir', Synced(dir'), taken) BY <1>2, <1>3, <1>4, <1>5, <2>1, LossSound
  <2> QED BY <1>1, <2>2
<1> QED BY <1>1, <1>7, <1>8, <1>9, OffLabel DEF IInv, WholeInv

-----------------------------------------------------------------------------
LEMMA InitIInv == Init => IInv
<1> SUFFICES ASSUME Init PROVE IInv OBVIOUS
<1>1. PICK w \in {Absent, Empty} :
          dir = [marker |-> NoMark, file |-> [f \in Files |-> IF f = Wal THEN w ELSE Absent]]
  BY DEF Init
<1>2. /\ disk = Synced(dir) /\ at = "off" /\ acked = 0 /\ ignored = FALSE
      /\ todo = << >> /\ moved = << >> /\ taken = << >>
  BY DEF Init
<1>3. Absent \in Values /\ Empty \in Values /\ Absent.writes = 0 /\ Empty.writes = 0
  BY DEF Absent, Empty, Values
<1>4. dir \in Dirs /\ dir.marker.id = 0 /\ \A f \in Files : dir.file[f] \in Pristine
  BY <1>1, <1>3, NoMarkType DEF Dirs, Pristine
<1>5. /\ disk \in Disks /\ Agree(dir, disk) /\ FilesDurable(dir, disk) /\ disk.marker = {dir.marker}
      /\ \A f \in Files : disk.file[f] = {dir.file[f]}
  BY <1>2, <1>4, SyncedFacts
<1>6. << >> \in Seq(Files) /\ << >> \in Seq(Backups) OBVIOUS
<1>7. TypeInv BY <1>2, <1>4, <1>5, <1>6 DEF TypeInv
<1>8. KeptInv
  <2>1. dir.file[Snapshot].writes = 0 /\ dir.file[Wal].writes = 0
    BY <1>3, <1>4, FileFacts DEF Pristine
  <2>2. Keeps(disk, 0) BY <1>5, <2>1, FileFacts DEF Keeps
  <2> QED BY <1>2, <2>2 DEF KeptInv, Resting
<1>9. Whole(dir.file, taken)
  <2>1. dir.file \in [Files -> Values] BY <1>4 DEF Dirs
  <2> QED BY <1>4, <2>1, PristineIsWhole
<1>10. Sound(dir, disk, taken) BY <1>4, <1>5, <1>9 DEF Sound
<1>11. LabelInv BY <1>2 DEF LabelInv
<1> QED BY <1>7, <1>8, <1>10, <1>11 DEF IInv, WholeInv

LEMMA NextIInv == IInv /\ [Next]_vars => IInv'
<1> SUFFICES ASSUME IInv, [Next]_vars PROVE IInv' OBVIOUS
<1>1. CASE \E c \in Configs : Boot(c) BY <1>1, BootKeeps
<1>2. CASE Restoring
  <2>1. CASE UndoSteps
    <3>1. CASE RemoveNext("undoRemove", "undoSync") BY <3>1, RemoveNextKeeps
    <3>2. CASE RemoveFails BY <3>2, RemoveFailsKeeps
    <3>3. CASE Sync("undoSync", "undoMarker", "off") BY <3>3, UndoSyncKeeps
    <3>4. CASE Mark("undoMarker", NoMark, "undoSynced", "off") BY <3>4, MarkerGoesKeeps
    <3>5. CASE Sync("undoSynced", "fetch", "off") BY <3>5, LastSyncsKeep
    <3> QED BY <2>1, <3>1, <3>2, <3>3, <3>4, <3>5 DEF UndoSteps
  <2>2. CASE MarkerSteps
    BY <2>2, CreateKeeps, WriteMarkerKeeps, MarkerSyncKeeps DEF MarkerSteps
  <2>3. CASE Finish BY <2>3, MoveSyncKeeps, DropMarkerKeeps, LastSyncsKeep DEF Finish
  <2>4. CASE CleanSteps
    <3>1. CASE RemoveNext("cleanRemove", "cleanSync") BY <3>1, RemoveNextKeeps
    <3> QED BY <2>4, <3>1, CleanKeeps, RemoveIgnoredKeeps, CleanSyncKeeps, MarkerGoesKeeps,
               LastSyncsKeep DEF CleanSteps
  <2> QED BY <1>2, <2>1, <2>2, <2>3, <2>4, FetchKeeps, UndoKeeps, MoveKeeps DEF Restoring
<1>3. CASE UNCHANGED vars
  <2>1. UNCHANGED <<dir, disk, at, todo, moved, taken, acked, ignored>> BY <1>3 DEF vars
  <2>2. TypeInv' BY <2>1 DEF IInv, TypeInv
  <2>3. KeptInv' BY <2>1 DEF IInv, KeptInv
  <2>4. LabelInv => LabelInv' BY <2>1 DEF LabelInv, CheckInPlace, RestIn, Id
  <2>5. WholeInv' BY <2>1, <2>4 DEF IInv, WholeInv
  <2> QED BY <2>2, <2>3, <2>5 DEF IInv
<1> QED BY <1>1, <1>2, <1>3, OperatorKeeps, WriteKeeps, TakeSnapshotKeeps, KillKeeps, PowerLossKeeps
        DEF Next

\* The invariant holds of every run of boots, restores, writes and faults.
THEOREM Invariance == Spec => []IInv
BY InitIInv, NextIInv, PTL DEF Spec

\* A server never serves a part of a restored store, nor a new store among the
\* files of one, whatever was killed, failed or lost power in the restores and
\* undos before (install_in_place, undo_interrupted_install), unless the
\* clean-up ignored the failure of a removal.
THEOREM WholeStoreIsServed == Spec => []ServesWholeStore
<1>1. IInv => ServesWholeStore
  <2> SUFFICES ASSUME IInv, ~ignored, at = "serve" PROVE ServesWhole BY DEF ServesWholeStore, ServesWhole
  <2>1. dir.marker.id = 0 /\ Sound(dir, disk, taken) BY DEF IInv, WholeInv, LabelInv
  <2>2. Whole(dir.file, taken) BY <2>1 DEF Sound
  <2>3. Origin = Top(dir.file) BY DEF Origin, Top
  <2> QED BY <2>2, <2>3 DEF ServesWhole, Whole
<1> QED BY <1>1, Invariance, PTL

\* No boot, of any configuration and after any power loss, removes a write that
\* was acknowledged: the store as it is seen and all that a power loss may leave
\* of it hold them (undo_interrupted_install, restore_on_boot).
THEOREM AckedWritesAreKept == Spec => []AckedIsKept
<1>1. IInv => AckedIsKept
  <2> SUFFICES ASSUME IInv PROVE AckedIsKept OBVIOUS
  <2>1. ASSUME NEW s \in disk.file[Snapshot], NEW w \in disk.file[Wal]
        PROVE  Max({s.writes, w.writes}) = acked
    <3>1. s.writes \in Nat /\ w.writes \in Nat /\ acked \in Nat
      BY FileFacts DEF IInv, TypeInv, Disks, Values
    <3>2. /\ s.writes =< acked /\ w.writes =< acked
          /\ s.writes = acked \/ w.writes = acked
      BY DEF IInv, KeptInv, Keeps
    <3> QED BY <3>1, <3>2, LargestOfTwo
  <2>2. dir.file[Snapshot] \in disk.file[Snapshot] /\ dir.file[Wal] \in disk.file[Wal]
    BY FileFacts DEF IInv, TypeInv, Agree
  <2> QED BY <2>1, <2>2 DEF AckedIsKept, WritesIn
<1> QED BY <1>1, Invariance, PTL
=============================================================================
