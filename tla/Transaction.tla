---------------------------- MODULE Transaction ----------------------------
(***************************************************************************)
(* Interactive transactions: crates/core-api/src/transaction.rs over the   *)
(* compare-and-set path of crates/core-api/src/db.rs, for several          *)
(* processes with a store open.                                            *)
(*                                                                         *)
(* A transaction reads the snapshot it began on and takes no lock.  It     *)
(* records every key it reads or writes with the last_change number that   *)
(* key had, and its commit is refused when a number differs.  The numbers  *)
(* are each handle's own: commit_seq counts the commits the handle makes   *)
(* and the frames it replays, among them the history markers a rule adds,  *)
(* which the handle that wrote them did not count; a reload starts from    *)
(* the numbers in the snapshot.                                            *)
(*                                                                         *)
(* A value is the commit that wrote it, 0 when the key is absent, so any   *)
(* change of a key shows.                                                  *)
(***************************************************************************)
EXTENDS Integers, Sequences, FiniteSets

CONSTANTS
    Keys,
    Handles,      \* processes with the store open
    Txs,          \* transactions ever begun
    MaxCommits,   \* bound on the commits ever made
    MaxSnapshots  \* bound on the snapshots that replace the WAL

ASSUME TransactionBounds ==
    {MaxCommits, MaxSnapshots} \subseteq Nat

Absent == 0
Unrecorded == -2
Changed == -1   \* TX_CHANGED_SINCE_BEGIN: no number ever equals it

VARIABLES
    wal,       \* the frames of wal.bin
    snapshot,  \* the state in snapshot.bin, commit_seq what a load seeds
    generation,\* identity of snapshot.bin
    handle,    \* each process's GraphDb
    tx,        \* the transactions
    made,      \* the number of commits ever made
    overlap,   \* per transaction, the keys written by others since it began
    moved      \* of a transaction whose commit was answered: of its recorded keys,
               \* when accepted, those with another value than at BEGIN, when
               \* refused, those others wrote since; and whether the handle was
               \* reloaded since BEGIN

vars == <<wal, snapshot, generation, handle, tx, made, overlap, moved>>

\* A frame sets or deletes keys; a marker and a declaration do neither.
Frame(commit, sets, dels) == [commit |-> commit, sets |-> sets, dels |-> dels]
Marker == Frame(0, {}, {})

\* last_change keeps the entries of deleted nodes: `top` is its highest number.
Empty == [values |-> [k \in Keys |-> Absent], last_change |-> [k \in Keys |-> 0],
          top |-> 0, commit_seq |-> 0]

NoTx == [state |-> "none", at |-> "none", values |-> Empty.values,
         base_version |-> 0, base_store |-> 0, keys |-> [k \in Keys |-> Unrecorded],
         sets |-> {}, dels |-> {}]

Still == [keys |-> {}, reloaded |-> FALSE]

Init ==
    /\ wal = <<>> /\ snapshot = Empty /\ generation = 0
    /\ handle = [h \in Handles |->
                   [db |-> Empty, consumed |-> 0, generation |-> 0, store_id |-> 0]]
    /\ tx = [t \in Txs |-> NoTx]
    /\ made = 0 /\ overlap = [t \in Txs |-> {}] /\ moved = [t \in Txs |-> Still]

-----------------------------------------------------------------------------
(* Following the files.                                                    *)

Greatest(S) == CHOOSE m \in S : \A n \in S : n <= m

\* apply_frames_over and update_last_change_from_rec: every frame takes a number,
\* a set gives it to the key, a deleted key answers 0.
Replay(db, frames) ==
    LET touching(k) == {i \in 1..Len(frames) : k \in frames[i].sets \cup frames[i].dels}
        setting == {i \in 1..Len(frames) : frames[i].sets # {}}
        last(k) == Greatest(touching(k))
        live(k) == k \in frames[last(k)].sets
    IN  [values |-> [k \in Keys |->
            IF touching(k) = {} THEN db.values[k]
            ELSE IF live(k) THEN frames[last(k)].commit ELSE Absent],
         last_change |-> [k \in Keys |->
            IF touching(k) = {} THEN db.last_change[k]
            ELSE IF live(k) THEN db.commit_seq + last(k) ELSE 0],
         top |-> IF setting = {} THEN db.top ELSE db.commit_seq + Greatest(setting),
         commit_seq |-> db.commit_seq + Len(frames)]

\* refresh_checking: absorb the frames that were appended, or reload from the
\* snapshot when it is another one.
Refreshed(h) ==
    IF handle[h].generation = generation
    THEN [handle[h] EXCEPT
            !.db = Replay(@, SubSeq(wal, handle[h].consumed + 1, Len(wal))),
            !.consumed = Len(wal)]
    ELSE [db |-> Replay(snapshot, wal), consumed |-> Len(wal),
          generation |-> generation, store_id |-> handle[h].store_id + 1]

\* log_then_apply_with on a refreshed handle; `marked` when rules fired and a
\* marker frame follows.  The handle counts one commit.
Logged(fresh, sets, dels, marked) ==
    LET seq == fresh.db.commit_seq + 1 IN
    [fresh EXCEPT
       !.db = [values |-> [k \in Keys |-> IF k \in sets THEN made + 1
                                          ELSE IF k \in dels THEN Absent ELSE @.values[k]],
               last_change |-> [k \in Keys |-> IF k \in sets THEN seq
                                               ELSE IF k \in dels THEN 0 ELSE @.last_change[k]],
               top |-> IF sets = {} THEN @.top ELSE seq,
               commit_seq |-> seq],
       !.consumed = @ + IF marked THEN 2 ELSE 1]

AppendCommit(h, fresh, sets, dels, marked) ==
    /\ made < MaxCommits /\ made' = made + 1
    /\ wal' = wal \o <<Frame(made', sets, dels)>> \o (IF marked THEN <<Marker>> ELSE <<>>)
    /\ handle' = [handle EXCEPT ![h] = Logged(fresh, sets, dels, marked)]

\* The keys written since each open transaction began, with these.
Written(keys) ==
    [t \in Txs |-> IF tx[t].state = "open" THEN overlap[t] \cup keys ELSE {}]

\* A write outside a transaction.  One that touches no key changes the schema.
AutoCommit(h, sets, dels, marked) ==
    /\ \A k \in dels : Refreshed(h).db.values[k] # Absent
    /\ AppendCommit(h, Refreshed(h), sets, dels, marked)
    /\ overlap' = Written(sets \cup dels)
    /\ UNCHANGED <<snapshot, generation, tx, moved>>

\* A snapshot that replaces the WAL.  It holds the handle's numbers, and a load
\* seeds commit_seq from the highest of them; the handle keeps its own.
TakeSnapshot(h) ==
    /\ generation < MaxSnapshots
    /\ LET fresh == Refreshed(h) IN
       /\ snapshot' = [fresh.db EXCEPT !.commit_seq = fresh.db.top]
       /\ generation' = generation + 1
       /\ wal' = <<>>
       /\ handle' = [handle EXCEPT ![h] = [fresh EXCEPT !.consumed = 0,
                                                        !.generation = generation']]
    /\ UNCHANGED <<tx, made, overlap, moved>>

-----------------------------------------------------------------------------
(* Transactions.                                                           *)

\* begin_transaction: the snapshot a read guard gives.
Begin(t, h) ==
    /\ tx[t].state = "none"
    /\ LET fresh == Refreshed(h) IN
       /\ handle' = [handle EXCEPT ![h] = fresh]
       /\ tx' = [tx EXCEPT ![t] = [NoTx EXCEPT !.state = "open", !.at = h,
                   !.values = fresh.db.values, !.base_version = fresh.db.commit_seq,
                   !.base_store = fresh.store_id]]
    /\ UNCHANGED <<wal, snapshot, generation, made, overlap, moved>>

\* Mutants of BaseLastChange: the number of now, and an off-by-one.
BaseLastChangeNow(t, fresh, k) ==
    IF fresh.store_id # tx[t].base_store THEN Changed
    ELSE IF fresh.db.values[k] = Absent THEN 0 ELSE fresh.db.last_change[k]
BaseLastChangeBefore(t, fresh, k) ==
    IF fresh.store_id # tx[t].base_store \/ fresh.db.last_change[k] >= tx[t].base_version
    THEN Changed ELSE fresh.db.last_change[k]

\* tx_base_last_change: the number `k` had at BEGIN, worked out from the handle.
BaseLastChange(t, fresh, k) ==
    LET in_base == tx[t].values[k] # Absent
        live == fresh.db.values[k] # Absent
    IN  IF fresh.store_id # tx[t].base_store \/ live # in_base THEN Changed
        ELSE IF ~live THEN 0
        ELSE IF fresh.db.last_change[k] > tx[t].base_version THEN Changed
        ELSE fresh.db.last_change[k]

\* What the transaction reads: its base snapshot under its own writes.
Sees(t, k) == k \in tx[t].sets \/ (tx[t].values[k] # Absent /\ k \notin tx[t].dels)

\* execute: a statement that reads, sets or deletes `k`, and record_keys.
Execute(t, k, op) ==
    /\ tx[t].state = "open" /\ (op = "delete" => Sees(t, k))
    /\ LET h == tx[t].at
           fresh == Refreshed(h)
           recorded == tx[t].keys[k] # Unrecorded
       IN  /\ handle' = IF recorded THEN handle ELSE [handle EXCEPT ![h] = fresh]
           /\ tx' = [tx EXCEPT
                ![t].keys[k] = IF recorded THEN @ ELSE BaseLastChange(t, fresh, k),
                ![t].sets = IF op = "set" THEN @ \cup {k} ELSE IF op = "delete" THEN @ \ {k} ELSE @,
                ![t].dels = IF op = "delete" THEN @ \cup {k} ELSE IF op = "set" THEN @ \ {k} ELSE @]
    /\ UNCHANGED <<wal, snapshot, generation, made, overlap, moved>>

Recorded(t) == {k \in Keys : tx[t].keys[k] # Unrecorded}

\* check_preconditions, on the handle as it is under the write guard.
Unchanged(t, fresh) ==
    \A k \in Recorded(t) :
        tx[t].keys[k] = IF fresh.db.values[k] = Absent THEN 0 ELSE fresh.db.last_change[k]

\* commit and rollback consume the transaction.
Ends(t, how, written) ==
    /\ tx' = [tx EXCEPT ![t] = [NoTx EXCEPT !.state = how]]
    /\ overlap' = [written EXCEPT ![t] = {}]

\* rollback: the buffer is dropped.
Rollback(t) ==
    /\ tx[t].state = "open"
    /\ Ends(t, "rolled back", overlap)
    /\ UNCHANGED <<wal, snapshot, generation, handle, made, moved>>

\* A transaction that wrote nothing commits without a frame.
CommitReads(t) ==
    /\ tx[t].state = "open" /\ tx[t].sets \cup tx[t].dels = {}
    /\ Ends(t, "read", overlap)
    /\ UNCHANGED <<wal, snapshot, generation, handle, made, moved>>

Commit(t, marked) ==
    LET fresh == Refreshed(tx[t].at) IN
    /\ tx[t].state = "open" /\ tx[t].sets \cup tx[t].dels # {}
    /\ Unchanged(t, fresh)
    /\ AppendCommit(tx[t].at, fresh, tx[t].sets, tx[t].dels, marked)
    /\ Ends(t, "committed", Written(tx[t].sets \cup tx[t].dels))
    /\ moved' = [moved EXCEPT ![t] =
                    [keys |-> {k \in Recorded(t) : fresh.db.values[k] # tx[t].values[k]},
                     reloaded |-> fresh.store_id # tx[t].base_store]]
    /\ UNCHANGED <<snapshot, generation>>

CommitConflicts(t) ==
    LET fresh == Refreshed(tx[t].at) IN
    /\ tx[t].state = "open" /\ tx[t].sets \cup tx[t].dels # {}
    /\ ~Unchanged(t, fresh)
    /\ Ends(t, "refused", overlap)
    /\ moved' = [moved EXCEPT ![t] = [keys |-> overlap[t] \cap Recorded(t),
                                     reloaded |-> fresh.store_id # tx[t].base_store]]
    /\ handle' = [handle EXCEPT ![tx[t].at] = fresh]
    /\ UNCHANGED <<wal, snapshot, generation, made>>

-----------------------------------------------------------------------------
Next ==
    \/ \E h \in Handles, marked \in BOOLEAN :
         \/ AutoCommit(h, {}, {}, FALSE)
         \/ \E k \in Keys : AutoCommit(h, {k}, {}, marked) \/ AutoCommit(h, {}, {k}, marked)
    \/ \E h \in Handles : TakeSnapshot(h)
    \/ \E t \in Txs :
         \/ \E h \in Handles : Begin(t, h)
         \/ \E k \in Keys, op \in {"read", "set", "delete"} : Execute(t, k, op)
         \/ Rollback(t) \/ CommitReads(t) \/ CommitConflicts(t)
         \/ \E marked \in BOOLEAN : Commit(t, marked)

Spec == Init /\ [][Next]_vars

-----------------------------------------------------------------------------
(* Properties.                                                             *)

Dbs == [values : [Keys -> 0..MaxCommits], last_change : [Keys -> Nat], top : Nat,
        commit_seq : Nat]

\* Every variable holds a value of its kind; an open transaction belongs to a
\* handle, and its buffer leaves a key set or deleted, never both.
TypeOK ==
    /\ wal \in Seq([commit : 0..MaxCommits, sets : SUBSET Keys, dels : SUBSET Keys])
    /\ snapshot \in Dbs /\ generation \in 0..MaxSnapshots
    /\ handle \in [Handles -> [db : Dbs, consumed : Nat, generation : 0..MaxSnapshots,
                               store_id : Nat]]
    /\ tx \in [Txs -> [state : {"none", "open", "rolled back", "read", "committed", "refused"},
                       at : Handles \cup {"none"}, values : [Keys -> 0..MaxCommits],
                       base_version : Nat, base_store : Nat, keys : [Keys -> Nat \cup {Unrecorded, Changed}],
                       sets : SUBSET Keys, dels : SUBSET Keys]]
    /\ \A t \in Txs : /\ tx[t].sets \cap tx[t].dels = {}
                      /\ tx[t].state = "open" => tx[t].at \in Handles
    /\ made \in 0..MaxCommits
    /\ overlap \in [Txs -> SUBSET Keys]
    /\ moved \in [Txs -> [keys : SUBSET Keys, reloaded : BOOLEAN]]

\* "Lost updates are impossible": when a transaction's commit is accepted, every
\* key it read or wrote still has the value it had at BEGIN, whichever process
\* wrote in between and whenever the key was recorded.
NoLostUpdate == \A t \in Txs : tx[t].state = "committed" => moved[t].keys = {}

\* The same for a handle that was not reloaded since BEGIN: its own commits and
\* snapshots and the frames and markers it replays for others hide no change.
NoLostUpdateInOneLoad ==
    \A t \in Txs : tx[t].state = "committed" /\ ~moved[t].reloaded => moved[t].keys = {}

\* A commit is refused only when another commit wrote a key the transaction
\* recorded, or the handle was reloaded, which makes every key look changed: the
\* frames, markers and own snapshots in between never look like a change.
RefusedWasChanged ==
    \A t \in Txs : tx[t].state = "refused" /\ ~moved[t].reloaded => moved[t].keys # {}

=============================================================================
