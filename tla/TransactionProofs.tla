------------------------- MODULE TransactionProofs -------------------------
(***************************************************************************)
(* TLAPS proofs about Transaction: no update is lost within one load of    *)
(* the store, and no commit is refused without a change, for every set of  *)
(* keys, handles and transactions and any number of commits and snapshots. *)
(*                                                                         *)
(* The properties speak of the moment a commit is answered.  The inductive *)
(* invariant relates, at every moment, an open transaction to the handle   *)
(* it began on: as long as that handle was not reloaded, a key whose value *)
(* is another one than at BEGIN shows it by its number or by being there   *)
(* or not, and a key nobody wrote since has the number that was recorded.  *)
(* The frames the handle has not replayed yet touch only keys written      *)
(* since BEGIN.                                                            *)
(***************************************************************************)
EXTENDS Transaction, TLAPS, WellFoundedInduction

Frames == [commit : Nat, sets : SUBSET Keys, dels : SUBSET Keys]
Stores == [values : [Keys -> Nat], last_change : [Keys -> Nat], top : Nat, commit_seq : Nat]
HandleSet == [db : Stores, consumed : Nat, generation : Nat, store_id : Nat]
TxSet  == [state : {"none", "open", "rolled back", "read", "committed", "refused"},
           at : Handles \cup {"none"}, values : [Keys -> Nat], base_version : Nat,
           base_store : Nat, keys : [Keys -> Int], sets : SUBSET Keys, dels : SUBSET Keys]

TypeInv ==
    /\ wal \in Seq(Frames) /\ snapshot \in Stores /\ generation \in Nat
    /\ handle \in [Handles -> HandleSet] /\ tx \in [Txs -> TxSet] /\ made \in Nat
    /\ overlap \in [Txs -> SUBSET Keys]
    /\ moved \in [Txs -> [keys : SUBSET Keys, reloaded : BOOLEAN]]

\* The numbers of a handle: no key has one beyond the last commit, and a key
\* that is there has one.
Numbered(db) ==
    /\ db.top =< db.commit_seq
    /\ \A k \in Keys : /\ db.last_change[k] =< db.top
                       /\ db.values[k] # Absent => db.last_change[k] >= 1

\* A handle follows the files: it read no further than the WAL goes.
Following(H, gen, log) ==
    /\ Numbered(H.db)
    /\ H.generation =< gen
    /\ H.generation = gen => H.consumed =< Len(log)

Num(db, k) == IF db.values[k] = Absent THEN 0 ELSE db.last_change[k]

\* A key of the transaction T against the state db its handle has, with the keys
\* written by others since.
KeyOk(T, db, written, k) ==
    /\ db.values[k] # T.values[k] => \/ (db.values[k] = Absent) # (T.values[k] = Absent)
                                     \/ db.last_change[k] > T.base_version
    /\ k \notin written => db.values[k] = T.values[k] /\ db.last_change[k] =< T.base_version
    /\ T.keys[k] # Unrecorded =>
         /\ T.keys[k] \in {Changed} \cup 0 .. T.base_version
         /\ T.keys[k] = 0 => T.values[k] = Absent
         /\ T.keys[k] > 0 => T.values[k] # Absent
         /\ k \notin written => T.keys[k] = Num(db, k)

\* The transaction against its handle, of which a reload makes another store.
TxOk(T, H, written) ==
    /\ T.base_store =< H.store_id
    /\ T.base_store = H.store_id =>
         /\ T.base_version =< H.db.commit_seq
         /\ \A k \in Keys : KeyOk(T, H.db, written, k)

\* What the handle has not replayed yet was written since BEGIN.
TailOk(T, H, gen, log, written) ==
    T.base_store = H.store_id /\ H.generation = gen =>
        \A i \in 1 .. Len(log) : i > H.consumed => log[i].sets \cup log[i].dels \subseteq written

OpenOk(t) ==
    /\ tx[t].at \in Handles
    /\ TxOk(tx[t], handle[tx[t].at], overlap[t])
    /\ TailOk(tx[t], handle[tx[t].at], generation, wal, overlap[t])

IInv ==
    /\ TypeInv
    /\ Numbered(snapshot)
    /\ \A h \in Handles : Following(handle[h], generation, wal)
    /\ \A t \in Txs : tx[t].state = "open" => OpenOk(t)
    /\ NoLostUpdateInOneLoad /\ RefusedWasChanged

-----------------------------------------------------------------------------
(* Well-foundedness of the natural numbers gives a finite set of numbers   *)
(* its greatest element.                                                   *)

Smaller == {ss \in Nat \X Nat : ss[1] < ss[2]}

LEMMA LeastOf ==
    ASSUME NEW T \in SUBSET Nat, T # {}
    PROVE  \E x \in T : \A y \in T : x =< y
<1>1. Smaller = OpToRel(<, Nat) BY DEF Smaller, OpToRel
<1>2. IsWellFoundedOn(Smaller, Nat) BY <1>1, NatLessThanWellFounded
<1>3. PICK x \in T : \A y \in T : ~ (<<y, x>> \in Smaller) BY <1>2, WFMin
<1>4. ASSUME NEW y \in T, y < x PROVE FALSE
  <2>1. <<y, x>> \in Smaller BY <1>4 DEF Smaller
  <2> QED BY <1>3, <2>1
<1> QED BY <1>4

LEMMA GreatestOf ==
    ASSUME NEW n \in Nat, NEW S \in SUBSET (1 .. n), S # {}
    PROVE  Greatest(S) \in S /\ \A i \in S : i =< Greatest(S)
<1> DEFINE T == {n - i : i \in S}
<1>1. T \in SUBSET Nat
  <2>1. \A i \in S : n - i \in Nat OBVIOUS
  <2> QED BY <2>1
<1>2. T # {}
  <2>1. PICK i \in S : TRUE OBVIOUS
  <2>2. n - i \in T OBVIOUS
  <2> QED BY <2>2
<1>3. PICK x \in T : \A y \in T : x =< y BY <1>1, <1>2, LeastOf
<1>4. PICK m \in S : x = n - m OBVIOUS
<1>5. ASSUME NEW i \in S PROVE i =< m
  <2>1. n - m =< n - i BY <1>3, <1>4
  <2> QED BY <2>1
<1> QED BY <1>5 DEF Greatest

-----------------------------------------------------------------------------
(* Replaying frames.                                                       *)

Touching(frames, k) == {i \in 1..Len(frames) : k \in frames[i].sets \cup frames[i].dels}
Setting(frames) == {i \in 1..Len(frames) : frames[i].sets # {}}

\* What Replay makes of a key.
LEMMA ReplayOfKey ==
    ASSUME NEW db \in Stores, Numbered(db), NEW frames \in Seq(Frames), NEW k \in Keys,
           NEW r, r = Replay(db, frames)
    PROVE  /\ r.values[k] \in Nat /\ r.last_change[k] \in Nat
           /\ Touching(frames, k) = {} =>
                 r.values[k] = db.values[k] /\ r.last_change[k] = db.last_change[k]
           /\ Touching(frames, k) # {} =>
                 r.values[k] = Absent \/ r.last_change[k] > db.commit_seq
           /\ r.last_change[k] =< r.top
           /\ r.values[k] # Absent => r.last_change[k] >= 1
<1> DEFINE last == Greatest(Touching(frames, k))
           live == k \in frames[last].sets
<1>1. /\ r.values[k] = IF Touching(frames, k) = {} THEN db.values[k]
                       ELSE IF live THEN frames[last].commit ELSE Absent
      /\ r.last_change[k] = IF Touching(frames, k) = {} THEN db.last_change[k]
                            ELSE IF live THEN db.commit_seq + last ELSE 0
      /\ r.top = IF Setting(frames) = {} THEN db.top ELSE db.commit_seq + Greatest(Setting(frames))
  BY DEF Replay, Touching, Setting
<1>2. /\ db.values[k] \in Nat /\ db.last_change[k] \in Nat /\ db.top \in Nat /\ db.commit_seq \in Nat
      /\ db.top =< db.commit_seq /\ db.last_change[k] =< db.top
      /\ db.values[k] # Absent => db.last_change[k] >= 1
  BY DEF Stores, Numbered
<1>3. Len(frames) \in Nat OBVIOUS
<1>4. Touching(frames, k) \in SUBSET (1 .. Len(frames)) /\ Setting(frames) \in SUBSET (1 .. Len(frames))
  BY DEF Touching, Setting
<1>5. Setting(frames) # {} => /\ Greatest(Setting(frames)) \in 1 .. Len(frames)
                              /\ \A i \in Setting(frames) : i =< Greatest(Setting(frames))
  BY <1>3, <1>4, GreatestOf
<1>6. r.top \in Nat /\ r.top >= db.top BY <1>1, <1>2, <1>5
<1>7. CASE Touching(frames, k) = {} BY <1>1, <1>2, <1>6, <1>7 DEF Absent
<1>8. CASE Touching(frames, k) # {}
  <2>1. last \in 1 .. Len(frames) BY <1>3, <1>4, <1>8, GreatestOf
  <2>2. frames[last] \in Frames BY <2>1
  <2> HIDE DEF last
  <2>3. CASE live
    <3>1. last \in Setting(frames) BY <2>1, <2>3 DEF Setting
    <3>2. last =< Greatest(Setting(frames)) /\ Greatest(Setting(frames)) \in 1 .. Len(frames)
      BY <1>5, <3>1
    <3>3. r.top = db.commit_seq + Greatest(Setting(frames)) BY <1>1, <3>1
    <3>4. r.last_change[k] = db.commit_seq + last /\ r.values[k] = frames[last].commit
      BY <1>1, <1>8, <2>3
    <3>5. r.values[k] \in Nat BY <2>2, <3>4 DEF Frames
    <3> QED BY <1>2, <1>8, <2>1, <3>2, <3>3, <3>4, <3>5, SMTT(30)
  <2>4. CASE ~live
    <3>1. r.values[k] = Absent /\ r.last_change[k] = 0 BY <1>1, <1>8, <2>4
    <3> QED BY <1>6, <1>8, <3>1 DEF Absent
  <2> QED BY <2>3, <2>4
<1> QED BY <1>7, <1>8

\* What it makes of the state.
LEMMA ReplayNumbered ==
    ASSUME NEW db \in Stores, Numbered(db), NEW frames \in Seq(Frames),
           NEW r, r = Replay(db, frames)
    PROVE  /\ r \in Stores /\ Numbered(r) /\ r.commit_seq = db.commit_seq + Len(frames)
<1>1. \A k \in Keys : /\ r.values[k] \in Nat /\ r.last_change[k] \in Nat
                      /\ r.last_change[k] =< r.top
                      /\ r.values[k] # Absent => r.last_change[k] >= 1
  BY ReplayOfKey
<1>2. /\ r = [values |-> r.values, last_change |-> r.last_change, top |-> r.top,
              commit_seq |-> r.commit_seq]
      /\ r.commit_seq = db.commit_seq + Len(frames)
      /\ r.top = IF Setting(frames) = {} THEN db.top ELSE db.commit_seq + Greatest(Setting(frames))
  BY DEF Replay, Setting
<1>3. r.values = [k \in Keys |-> r.values[k]] /\ r.last_change = [k \in Keys |-> r.last_change[k]]
  BY DEF Replay
<1>4. db.top \in Nat /\ db.commit_seq \in Nat /\ db.top =< db.commit_seq /\ Len(frames) \in Nat
  BY DEF Stores, Numbered
<1>5. r.top \in Nat /\ r.top =< r.commit_seq
  <2>1. CASE Setting(frames) = {} BY <1>2, <1>4, <2>1
  <2>2. CASE Setting(frames) # {}
    <3>1. Setting(frames) \in SUBSET (1 .. Len(frames)) BY DEF Setting
    <3>2. Greatest(Setting(frames)) \in 1 .. Len(frames) BY <1>4, <2>2, <3>1, GreatestOf
    <3> QED BY <1>2, <1>4, <2>2, <3>2
  <2> QED BY <2>1, <2>2
<1>6. r.values \in [Keys -> Nat] /\ r.last_change \in [Keys -> Nat] BY <1>1, <1>3
<1>7. r \in Stores BY <1>2, <1>4, <1>5, <1>6 DEF Stores
<1> QED BY <1>1, <1>2, <1>5, <1>7 DEF Numbered
-----------------------------------------------------------------------------
(* A handle moves on under an open transaction.                            *)

\* A commit leaves a key alone, or gives it a number beyond all before, or
\* deletes it; and then the key is among those written.
LEMMA KeyMovesOn ==
    ASSUME NEW T \in TxSet, NEW db \in Stores, NEW new \in Stores, NEW k \in Keys,
           NEW w, NEW w2, w \subseteq w2, KeyOk(T, db, w, k), T.base_version =< db.commit_seq,
           \/ new.values[k] = db.values[k] /\ new.last_change[k] = db.last_change[k]
           \/ /\ k \in w2
              /\ new.values[k] = Absent \/ new.last_change[k] > db.commit_seq
    PROVE  KeyOk(T, new, w2, k)
<1>1. /\ db.values[k] \in Nat /\ db.last_change[k] \in Nat /\ db.commit_seq \in Nat
      /\ new.values[k] \in Nat /\ new.last_change[k] \in Nat
      /\ T.base_version \in Nat /\ T.values[k] \in Nat /\ T.keys[k] \in Int
  BY DEF Stores, TxSet
<1>2. CASE new.values[k] = db.values[k] /\ new.last_change[k] = db.last_change[k]
  BY <1>2 DEF KeyOk, Num
<1>3. CASE k \in w2 /\ (new.values[k] = Absent \/ new.last_change[k] > db.commit_seq)
  <2>1. new.values[k] # T.values[k] => \/ (new.values[k] = Absent) # (T.values[k] = Absent)
                                       \/ new.last_change[k] > T.base_version
    <3>1. CASE new.values[k] = Absent BY <3>1
    <3>2. CASE new.last_change[k] > db.commit_seq BY <1>1, <3>2
    <3> QED BY <1>3, <3>1, <3>2
  <2> QED BY <1>3, <2>1 DEF KeyOk
<1> QED BY <1>2, <1>3

\* The handle after refresh_checking.
LEMMA RefreshedFollows ==
    ASSUME IInv, NEW h \in Handles, NEW f, f = Refreshed(h)
    PROVE  /\ f \in HandleSet /\ Following(f, generation, wal)
           /\ f.generation = generation /\ f.consumed = Len(wal)
<1>1. /\ wal \in Seq(Frames) /\ snapshot \in Stores /\ Numbered(snapshot) /\ generation \in Nat
      /\ handle[h] \in HandleSet /\ Following(handle[h], generation, wal) /\ Len(wal) \in Nat
  BY DEF IInv, TypeInv
<1>2. CASE handle[h].generation = generation
  <2> DEFINE rest == SubSeq(wal, handle[h].consumed + 1, Len(wal))
             r == Replay(handle[h].db, rest)
  <2>1. /\ handle[h].db \in Stores /\ Numbered(handle[h].db) /\ handle[h].consumed \in Nat
        /\ handle[h].consumed =< Len(wal)
    BY <1>1, <1>2 DEF HandleSet, Following
  <2>2. rest \in Seq(Frames) BY <1>1, <2>1
  <2>3. f = [handle[h] EXCEPT !.db = r, !.consumed = Len(wal)] BY <1>2 DEF Refreshed
  <2> HIDE DEF rest
  <2>4. r \in Stores /\ Numbered(r) BY <2>1, <2>2, ReplayNumbered
  <2> HIDE DEF r
  <2>5. /\ f \in HandleSet /\ f.db = r /\ f.consumed = Len(wal)
        /\ f.generation = generation
    BY <1>1, <1>2, <2>3, <2>4 DEF HandleSet
  <2> QED BY <1>1, <2>4, <2>5 DEF Following
<1>3. CASE handle[h].generation # generation
  <2> DEFINE r == Replay(snapshot, wal)
  <2>1. r \in Stores /\ Numbered(r) BY <1>1, ReplayNumbered
  <2>2. f = [db |-> r, consumed |-> Len(wal), generation |-> generation,
             store_id |-> handle[h].store_id + 1]
    BY <1>3 DEF Refreshed
  <2> HIDE DEF r
  <2>3. handle[h].store_id + 1 \in Nat BY <1>1 DEF HandleSet
  <2>4. f \in HandleSet /\ f.db = r /\ f.consumed = Len(wal) /\ f.generation = generation
    BY <1>1, <2>1, <2>2, <2>3 DEF HandleSet
  <2> QED BY <1>1, <2>1, <2>4 DEF Following
<1> QED BY <1>2, <1>3

\* The frames beyond the first c.
LEMMA RestOf ==
    ASSUME NEW log \in Seq(Frames), NEW c \in Nat, c =< Len(log),
           NEW rest, rest = SubSeq(log, c + 1, Len(log))
    PROVE  /\ rest \in Seq(Frames) /\ Len(rest) = Len(log) - c
           /\ \A i \in 1 .. Len(rest) : c + i \in 1 .. Len(log) /\ rest[i] = log[c + i]
<1>1. rest \in Seq(Frames) /\ Len(rest) = Len(log) - c OBVIOUS
<1>2. ASSUME NEW i \in 1 .. Len(rest) PROVE c + i \in 1 .. Len(log) /\ rest[i] = log[c + i]
  <2>1. c + i \in 1 .. Len(log) BY <1>1
  <2>2. rest[i] = log[c + i] BY <1>1, <2>1
  <2> QED BY <2>1, <2>2
<1> QED BY <1>1, <1>2

\* An open transaction against its refreshed handle: the frames replayed touch
\* only keys written since, and a reload makes another store.
LEMMA RefreshedTxOk ==
    ASSUME IInv, NEW t \in Txs, tx[t].state = "open", NEW f, f = Refreshed(tx[t].at)
    PROVE  TxOk(tx[t], f, overlap[t])
<1> DEFINE h == tx[t].at
           T == tx[t]
<1>1. /\ wal \in Seq(Frames) /\ T \in TxSet /\ h \in Handles /\ handle[h] \in HandleSet
      /\ Following(handle[h], generation, wal)
      /\ TxOk(T, handle[h], overlap[t]) /\ TailOk(T, handle[h], generation, wal, overlap[t])
      /\ overlap[t] \subseteq Keys /\ Len(wal) \in Nat
  BY DEF IInv, TypeInv, OpenOk
<1>2. T.base_store \in Nat /\ handle[h].store_id \in Nat BY <1>1 DEF TxSet, HandleSet
<1>3. CASE handle[h].generation # generation
  <2>1. f.store_id = handle[h].store_id + 1 BY <1>3 DEF Refreshed
  <2>2. T.base_store < f.store_id BY <1>1, <1>2, <2>1 DEF TxOk
  <2> QED BY <1>2, <2>1, <2>2 DEF TxOk
<1>4. CASE handle[h].generation = generation
  <2> DEFINE c == handle[h].consumed
             rest == SubSeq(wal, c + 1, Len(wal))
             db == handle[h].db
             r == Replay(db, rest)
  <2>1. db \in Stores /\ Numbered(db) /\ c \in Nat /\ c =< Len(wal)
    BY <1>1, <1>4 DEF HandleSet, Following
  <2>2. /\ rest \in Seq(Frames) /\ Len(rest) = Len(wal) - c
        /\ \A i \in 1 .. Len(rest) : c + i \in 1 .. Len(wal) /\ rest[i] = wal[c + i]
    BY <1>1, <2>1, RestOf
  <2>3. f.db = r /\ f.store_id = handle[h].store_id
    <3>1. f = [handle[h] EXCEPT !.db = r, !.consumed = Len(wal)] BY <1>4 DEF Refreshed
    <3> QED BY <1>1, <3>1 DEF HandleSet
  <2>4. r \in Stores /\ Numbered(r) /\ r.commit_seq = db.commit_seq + Len(rest)
    <3> HIDE DEF rest, db
    <3> QED BY <2>1, <2>2, ReplayNumbered
  <2>5. ASSUME T.base_store = f.store_id
        PROVE  T.base_version =< r.commit_seq /\ \A k \in Keys : KeyOk(T, r, overlap[t], k)
    <3>1. T.base_version =< db.commit_seq /\ \A k \in Keys : KeyOk(T, db, overlap[t], k)
      BY <1>1, <2>3, <2>5 DEF TxOk
    <3>0. T.base_store = handle[h].store_id BY <2>3, <2>5
    <3>2. \A i \in 1 .. Len(wal) : i > c => wal[i].sets \cup wal[i].dels \subseteq overlap[t]
      BY <1>1, <1>4, <3>0 DEF TailOk
    <3>3. ASSUME NEW k \in Keys, NEW i \in Touching(rest, k) PROVE k \in overlap[t]
      <4>1. i \in 1 .. Len(rest) /\ k \in rest[i].sets \cup rest[i].dels BY <3>3 DEF Touching
      <4>2. c + i \in 1 .. Len(wal) /\ rest[i] = wal[c + i] BY <2>2, <4>1
      <4>3. c + i > c BY <2>1, <4>1
      <4> QED BY <3>2, <4>1, <4>2, <4>3
    <3> HIDE DEF rest, db, c
    <3>4. ASSUME NEW k \in Keys PROVE KeyOk(T, r, overlap[t], k)
      <4>1. /\ Touching(rest, k) = {} =>
                 r.values[k] = db.values[k] /\ r.last_change[k] = db.last_change[k]
            /\ Touching(rest, k) # {} =>
                 r.values[k] = Absent \/ r.last_change[k] > db.commit_seq
        BY <2>1, <2>2, ReplayOfKey
      <4>2. Touching(rest, k) # {} => k \in overlap[t] BY <3>3
      <4> HIDE DEF r
      <4> QED BY <1>1, <2>1, <2>4, <3>1, <4>1, <4>2, KeyMovesOn
    <3>5. T.base_version \in Nat BY <1>1 DEF TxSet
    <3>6. db.commit_seq \in Nat BY <2>1 DEF Stores
    <3>7. Len(rest) \in Nat BY <2>2
    <3> QED BY <2>4, <3>1, <3>4, <3>5, <3>6, <3>7
  <2>6. T.base_store =< f.store_id BY <1>1, <2>3 DEF TxOk
  <2> QED BY <2>3, <2>5, <2>6 DEF TxOk
<1> QED BY <1>3, <1>4
\* How many frames a commit appends, and the handle L that f is after it.
Count(marked) == IF marked THEN 2 ELSE 1
MovedOn(L, f, keys, marked) ==
    /\ L \in HandleSet /\ Numbered(L.db)
    /\ L.consumed = f.consumed + Count(marked)
    /\ L.generation = f.generation /\ L.store_id = f.store_id
    /\ L.db.commit_seq = f.db.commit_seq + 1
    /\ \A k \in Keys : \/ /\ L.db.values[k] = f.db.values[k]
                          /\ L.db.last_change[k] = f.db.last_change[k]
                       \/ /\ k \in keys
                          /\ L.db.values[k] = Absent \/ L.db.last_change[k] > f.db.commit_seq

\* log_then_apply_with.
LEMMA LoggedFacts ==
    ASSUME NEW f \in HandleSet, Numbered(f.db), made \in Nat, NEW sets \in SUBSET Keys,
           NEW dels \in SUBSET Keys, NEW marked \in BOOLEAN, NEW L, L = Logged(f, sets, dels, marked)
    PROVE  MovedOn(L, f, sets \cup dels, marked)
<1> DEFINE seq == f.db.commit_seq + 1
           db == [values |-> [k \in Keys |-> IF k \in sets THEN made + 1
                                             ELSE IF k \in dels THEN Absent ELSE f.db.values[k]],
                  last_change |-> [k \in Keys |-> IF k \in sets THEN seq
                                                  ELSE IF k \in dels THEN 0 ELSE f.db.last_change[k]],
                  top |-> IF sets = {} THEN f.db.top ELSE seq,
                  commit_seq |-> seq]
           n == f.consumed + Count(marked)
<1>1. L = [f EXCEPT !.db = db, !.consumed = n] BY DEF Logged, Count
<1>2. /\ f.db \in Stores /\ f.consumed \in Nat /\ f.generation \in Nat /\ f.store_id \in Nat
  BY DEF HandleSet
<1>3. /\ f.db.values \in [Keys -> Nat] /\ f.db.last_change \in [Keys -> Nat]
      /\ f.db.top \in Nat /\ f.db.commit_seq \in Nat /\ f.db.top =< f.db.commit_seq
      /\ \A k \in Keys : f.db.last_change[k] =< f.db.top
      /\ \A k \in Keys : f.db.values[k] # Absent => f.db.last_change[k] >= 1
  BY <1>2 DEF Stores, Numbered
<1>4. db \in Stores BY <1>3 DEF Stores, Absent
<1>5. ASSUME NEW k \in Keys
      PROVE  /\ db.last_change[k] =< db.top /\ (db.values[k] # Absent => db.last_change[k] >= 1)
             /\ \/ db.values[k] = f.db.values[k] /\ db.last_change[k] = f.db.last_change[k]
                \/ /\ k \in sets \cup dels
                   /\ db.values[k] = Absent \/ db.last_change[k] > f.db.commit_seq
  <2>1. f.db.last_change[k] \in Nat /\ f.db.last_change[k] =< f.db.top BY <1>3
  <2>2. CASE k \in sets BY <1>3, <2>1, <2>2
  <2>3. CASE k \notin sets /\ k \in dels BY <1>3, <2>1, <2>3
  <2>4. CASE k \notin sets /\ k \notin dels BY <1>3, <2>1, <2>4
  <2> QED BY <2>2, <2>3, <2>4
<1>6. db.top =< db.commit_seq /\ db.commit_seq = f.db.commit_seq + 1 BY <1>3
<1>7. n \in Nat BY <1>2 DEF Count
<1> HIDE DEF db, n
<1>8. Numbered(db) BY <1>5, <1>6 DEF Numbered
<1>9. /\ L \in HandleSet /\ L.db = db /\ L.consumed = n /\ L.generation = f.generation
      /\ L.store_id = f.store_id
  BY <1>1, <1>4, <1>7 DEF HandleSet
<1> QED BY <1>5, <1>6, <1>8, <1>9 DEF n, MovedOn

LEMMA LoggedTxOk ==
    ASSUME NEW f \in HandleSet, Numbered(f.db), made \in Nat, NEW sets \in SUBSET Keys,
           NEW dels \in SUBSET Keys, NEW marked \in BOOLEAN, NEW L, L = Logged(f, sets, dels, marked),
           NEW T \in TxSet, NEW w \in SUBSET Keys, TxOk(T, f, w)
    PROVE  TxOk(T, L, w \cup sets \cup dels)
<1>0. MovedOn(L, f, sets \cup dels, marked) BY LoggedFacts
<1>1. /\ L \in HandleSet /\ L.store_id = f.store_id /\ L.db.commit_seq = f.db.commit_seq + 1
      /\ \A k \in Keys : \/ /\ L.db.values[k] = f.db.values[k]
                            /\ L.db.last_change[k] = f.db.last_change[k]
                         \/ /\ k \in sets \cup dels
                            /\ L.db.values[k] = Absent \/ L.db.last_change[k] > f.db.commit_seq
  BY <1>0 DEF MovedOn
<1>2. T.base_store =< L.store_id BY <1>1 DEF TxOk
<1>3. ASSUME T.base_store = L.store_id
      PROVE  T.base_version =< L.db.commit_seq /\ \A k \in Keys : KeyOk(T, L.db, w \cup sets \cup dels, k)
  <2>1. T.base_version =< f.db.commit_seq /\ \A k \in Keys : KeyOk(T, f.db, w, k)
    BY <1>1, <1>3 DEF TxOk
  <2>2. f.db \in Stores /\ L.db \in Stores BY <1>1 DEF HandleSet
  <2> DEFINE w2 == w \cup sets \cup dels
  <2>3. w \subseteq w2 /\ sets \cup dels \subseteq w2 OBVIOUS
  <2> HIDE DEF w2
  <2>4. \A k \in Keys : KeyOk(T, L.db, w2, k) BY <1>1, <2>1, <2>2, <2>3, KeyMovesOn
  <2>5. T.base_version \in Nat BY DEF TxSet
  <2>6. f.db.commit_seq \in Nat BY <2>2 DEF Stores
  <2>7. T.base_version =< L.db.commit_seq BY <1>1, <2>1, <2>5, <2>6
  <2> QED BY <2>4, <2>7 DEF w2
<1> QED BY <1>2, <1>3 DEF TxOk

-----------------------------------------------------------------------------
(* What every step does to the handles, and through them to the open       *)
(* transactions.                                                           *)

\* The handles follow the files, and the transactions that are open keep
\* theirs, with the keys of over written since.
Steady(over) ==
    /\ handle' \in [Handles -> HandleSet]
    /\ \A h \in Handles : Following(handle'[h], generation', wal')
    /\ \A t \in Txs : tx[t].state = "open" =>
          /\ tx[t].at \in Handles
          /\ TxOk(tx[t], handle'[tx[t].at], over[t])
          /\ TailOk(tx[t], handle'[tx[t].at], generation', wal', over[t])

LEMMA UnmovedIsSteady ==
    ASSUME IInv, UNCHANGED <<handle, generation, wal>> PROVE Steady(overlap)
BY DEF IInv, TypeInv, Steady, OpenOk

LEMMA RefreshIsSteady ==
    ASSUME IInv, NEW h \in Handles, handle' = [handle EXCEPT ![h] = Refreshed(h)],
           UNCHANGED <<generation, wal>>
    PROVE  Steady(overlap)
<1> DEFINE f == Refreshed(h)
<1>1. /\ f \in HandleSet /\ Following(f, generation, wal)
      /\ f.generation = generation /\ f.consumed = Len(wal)
  BY RefreshedFollows
<1>2. \A t \in Txs : tx[t].state = "open" /\ tx[t].at = h => TxOk(tx[t], f, overlap[t])
  BY RefreshedTxOk
<1>3. handle' = [handle EXCEPT ![h] = f] OBVIOUS
<1> HIDE DEF f
<1>4. handle \in [Handles -> HandleSet] BY DEF IInv, TypeInv
<1>5. handle' \in [Handles -> HandleSet] /\ handle'[h] = f /\ \A g \in Handles \ {h} : handle'[g] = handle[g]
  BY <1>1, <1>3, <1>4
<1>6. \A g \in Handles : Following(handle'[g], generation', wal') BY <1>1, <1>5 DEF IInv
<1>7. ASSUME NEW t \in Txs, tx[t].state = "open"
      PROVE  /\ tx[t].at \in Handles
             /\ TxOk(tx[t], handle'[tx[t].at], overlap[t])
             /\ TailOk(tx[t], handle'[tx[t].at], generation', wal', overlap[t])
  <2>1. OpenOk(t) BY <1>7 DEF IInv
  <2>2. CASE tx[t].at = h
    <3>1. TxOk(tx[t], handle'[tx[t].at], overlap[t]) BY <1>2, <1>5, <1>7, <2>2
    <3>2. Len(wal) \in Nat BY DEF IInv, TypeInv
    <3>3. TailOk(tx[t], f, generation, wal, overlap[t]) BY <1>1, <3>2 DEF TailOk
    <3> QED BY <1>5, <2>1, <2>2, <3>1, <3>3 DEF OpenOk
  <2>3. CASE tx[t].at # h BY <1>5, <2>1, <2>3 DEF OpenOk
  <2> QED BY <2>2, <2>3
<1> QED BY <1>5, <1>6, <1>7 DEF Steady

\* The log with the frames of a commit that writes these keys.
Longer(new, log, keys, marked) ==
    /\ new \in Seq(Frames) /\ Len(new) = Len(log) + Count(marked)
    /\ \A i \in 1 .. Len(log) : new[i] = log[i]
    /\ \A i \in 1 .. Len(new) : i > Len(log) => new[i].sets \cup new[i].dels \subseteq keys

LEMMA AppendedFrames ==
    ASSUME NEW log \in Seq(Frames), NEW c \in Nat, NEW sets \in SUBSET Keys,
           NEW dels \in SUBSET Keys, NEW marked \in BOOLEAN, NEW new,
           new = log \o <<Frame(c, sets, dels)>> \o (IF marked THEN <<Marker>> ELSE <<>>)
    PROVE  Longer(new, log, sets \cup dels, marked)
<1>1. Frame(c, sets, dels) \in Frames /\ Marker \in Frames BY DEF Frame, Marker, Frames
<1>2. Marker.sets = {} /\ Marker.dels = {} BY DEF Marker, Frame
<1>3. Frame(c, sets, dels).sets = sets /\ Frame(c, sets, dels).dels = dels BY DEF Frame
<1> DEFINE fr == Frame(c, sets, dels)
           one == log \o <<fr>>
<1> HIDE DEF fr
<1>4. /\ one \in Seq(Frames) /\ Len(one) = Len(log) + 1 /\ one[Len(log) + 1] = fr
      /\ \A i \in 1 .. Len(log) : one[i] = log[i]
  BY <1>1 DEF fr
<1>5. Len(log) \in Nat OBVIOUS
<1>6. CASE marked
  <2>1. new = one \o <<Marker>> BY <1>6 DEF fr
  <2> HIDE DEF one
  <2>2. /\ new \in Seq(Frames) /\ Len(new) = Len(one) + 1 /\ new[Len(one) + 1] = Marker
        /\ \A i \in 1 .. Len(one) : new[i] = one[i]
    BY <1>1, <1>4, <2>1
  <2>3. \A i \in 1 .. Len(log) : new[i] = log[i] BY <1>4, <1>5, <2>2
  <2>4. new[Len(log) + 1] = fr /\ new[Len(log) + 2] = Marker BY <1>4, <1>5, <2>2
  <2>5. ASSUME NEW i \in 1 .. Len(new), i > Len(log) PROVE i = Len(log) + 1 \/ i = Len(log) + 2
    BY <1>4, <1>5, <2>2, <2>5
  <2> QED BY <1>2, <1>3, <1>4, <1>5, <1>6, <2>2, <2>3, <2>4, <2>5 DEF fr, Longer, Count
<1>7. CASE ~marked
  <2>1. new = one \o << >> BY <1>7 DEF fr
  <2>2. new = one
    <3> HIDE DEF one
    <3> QED BY <1>4, <2>1
  <2> HIDE DEF one
  <2>3. ASSUME NEW i \in 1 .. Len(new), i > Len(log) PROVE i = Len(log) + 1
    BY <1>4, <1>5, <2>2, <2>3
  <2> QED BY <1>3, <1>4, <1>5, <1>7, <2>2, <2>3 DEF fr, Longer, Count
<1> QED BY <1>6, <1>7

LEMMA CommitIsSteady ==
    ASSUME IInv, NEW h \in Handles, NEW sets \in SUBSET Keys, NEW dels \in SUBSET Keys,
           NEW marked \in BOOLEAN, AppendCommit(h, Refreshed(h), sets, dels, marked),
           UNCHANGED generation
    PROVE  /\ Steady(Written(sets \cup dels)) /\ wal' \in Seq(Frames) /\ made' \in Nat
           /\ Written(sets \cup dels) \in [Txs -> SUBSET Keys]
<1> DEFINE f == Refreshed(h)
           L == Logged(f, sets, dels, marked)
           over == Written(sets \cup dels)
<1>1. /\ f \in HandleSet /\ Following(f, generation, wal)
      /\ f.generation = generation /\ f.consumed = Len(wal)
  BY RefreshedFollows
<1>2. \A t \in Txs : tx[t].state = "open" /\ tx[t].at = h => TxOk(tx[t], f, overlap[t])
  BY RefreshedTxOk
<1>3. /\ made' = made + 1 /\ handle' = [handle EXCEPT ![h] = L]
      /\ wal' = wal \o <<Frame(made', sets, dels)>> \o (IF marked THEN <<Marker>> ELSE <<>>)
  BY DEF AppendCommit
<1>4. /\ handle \in [Handles -> HandleSet] /\ wal \in Seq(Frames) /\ made \in Nat
      /\ overlap \in [Txs -> SUBSET Keys] /\ tx \in [Txs -> TxSet] /\ Len(wal) \in Nat
      /\ generation \in Nat
  BY DEF IInv, TypeInv
<1>5. made' \in Nat BY <1>3, <1>4
<1>0. Longer(wal', wal, sets \cup dels, marked) BY <1>3, <1>4, <1>5, AppendedFrames
<1>6. /\ wal' \in Seq(Frames) /\ Len(wal') = Len(wal) + Count(marked)
      /\ \A i \in 1 .. Len(wal) : wal'[i] = wal[i]
      /\ \A i \in 1 .. Len(wal') : i > Len(wal) => wal'[i].sets \cup wal'[i].dels \subseteq sets \cup dels
  BY <1>0 DEF Longer
<1>61. Count(marked) \in Nat BY DEF Count
<1>7. /\ over \in [Txs -> SUBSET Keys]
      /\ \A t \in Txs : tx[t].state = "open" => over[t] = overlap[t] \cup sets \cup dels
  BY <1>4 DEF Written
<1> HIDE DEF f, over
<1>8. /\ L \in HandleSet /\ Numbered(L.db) /\ L.consumed = Len(wal') /\ L.generation = generation
      /\ L.store_id = f.store_id
  <2>1. Numbered(f.db) BY <1>1 DEF Following
  <2>2. MovedOn(L, f, sets \cup dels, marked) BY <1>1, <1>4, <2>1, LoggedFacts
  <2> QED BY <1>1, <1>6, <2>2 DEF MovedOn
<1>9. ASSUME NEW t \in Txs, tx[t].state = "open", tx[t].at = h PROVE TxOk(tx[t], L, over[t])
  <2>1. Numbered(f.db) BY <1>1 DEF Following
  <2>2. TxOk(tx[t], L, overlap[t] \cup sets \cup dels)
    BY <1>1, <1>2, <1>4, <1>9, <2>1, LoggedTxOk
  <2> QED BY <1>7, <1>9, <2>2
<1> HIDE DEF L
<1>10. handle' \in [Handles -> HandleSet] /\ handle'[h] = L /\ \A g \in Handles \ {h} : handle'[g] = handle[g]
  BY <1>3, <1>4, <1>8
<1>11. ASSUME NEW g \in Handles PROVE Following(handle'[g], generation', wal')
  <2>1. CASE g = h BY <1>4, <1>6, <1>8, <1>10, <2>1 DEF Following
  <2>2. CASE g # h
    <3>1. handle'[g] = handle[g] /\ Following(handle[g], generation, wal) BY <1>10, <2>2 DEF IInv
    <3>2. handle[g].consumed \in Nat BY <1>4 DEF HandleSet
    <3>3. Len(wal') \in Nat /\ Len(wal) =< Len(wal') BY <1>4, <1>6, <1>61
    <3> QED BY <1>4, <3>1, <3>2, <3>3 DEF Following
  <2> QED BY <2>1, <2>2
<1>12. ASSUME NEW t \in Txs, tx[t].state = "open"
      PROVE  /\ tx[t].at \in Handles
             /\ TxOk(tx[t], handle'[tx[t].at], over[t])
             /\ TailOk(tx[t], handle'[tx[t].at], generation', wal', over[t])
  <2>1. OpenOk(t) BY <1>12 DEF IInv
  <2>2. CASE tx[t].at = h
    <3>1. TxOk(tx[t], handle'[tx[t].at], over[t]) BY <1>9, <1>10, <1>12, <2>2
    <3>2. TailOk(tx[t], L, generation', wal', over[t])
      <4>1. Len(wal') \in Nat BY <1>6
      <4> QED BY <1>8, <4>1 DEF TailOk
    <3> QED BY <1>10, <2>1, <2>2, <3>1, <3>2 DEF OpenOk
  <2>3. CASE tx[t].at # h
    <3> DEFINE H == handle[tx[t].at]
    <3>1. H \in HandleSet /\ handle'[tx[t].at] = H /\ tx[t] \in TxSet BY <1>4, <1>10, <2>1, <2>3 DEF OpenOk
    <3>2. TxOk(tx[t], H, overlap[t]) /\ TailOk(tx[t], H, generation, wal, overlap[t])
      BY <2>1 DEF OpenOk
    <3> HIDE DEF H
    <3>3. TxOk(tx[t], H, over[t])
      <4>1. ASSUME tx[t].base_store = H.store_id, NEW k \in Keys PROVE KeyOk(tx[t], H.db, over[t], k)
        <5>1. KeyOk(tx[t], H.db, overlap[t], k) /\ tx[t].base_version =< H.db.commit_seq
          BY <3>2, <4>1 DEF TxOk
        <5>2. H.db \in Stores BY <3>1 DEF HandleSet
        <5>3. overlap[t] \subseteq over[t] BY <1>7, <1>12
        <5> QED BY <3>1, <5>1, <5>2, <5>3, KeyMovesOn
      <4> QED BY <3>2, <4>1 DEF TxOk
    <3>4. TailOk(tx[t], H, generation', wal', over[t])
      <4>1. ASSUME tx[t].base_store = H.store_id, H.generation = generation,
                   NEW i \in 1 .. Len(wal'), i > H.consumed
            PROVE  wal'[i].sets \cup wal'[i].dels \subseteq over[t]
        <5>1. CASE i > Len(wal) BY <1>6, <1>7, <1>12, <5>1
        <5>2. CASE ~(i > Len(wal))
          <6>1. i \in 1 .. Len(wal) BY <1>4, <1>6, <5>2
          <6>2. wal'[i] = wal[i] BY <1>6, <6>1
          <6>3. wal[i].sets \cup wal[i].dels \subseteq overlap[t] BY <3>2, <4>1, <6>1 DEF TailOk
          <6> QED BY <1>7, <1>12, <6>2, <6>3
        <5> QED BY <5>1, <5>2
      <4> QED BY <4>1 DEF TailOk
    <3> QED BY <2>1, <3>1, <3>3, <3>4 DEF OpenOk
  <2> QED BY <2>2, <2>3
<1>13. Steady(over) BY <1>10, <1>11, <1>12 DEF Steady
<1> QED BY <1>5, <1>6, <1>7, <1>13 DEF over
\* A snapshot leaves the other handles with another one's generation: they will
\* reload.
LEMMA SnapshotIsSteady ==
    ASSUME IInv, NEW h \in Handles, TakeSnapshot(h)
    PROVE  Steady(overlap) /\ snapshot' \in Stores /\ Numbered(snapshot')
<1> DEFINE f == Refreshed(h)
           H == [f EXCEPT !.consumed = 0, !.generation = generation']
<1>1. /\ f \in HandleSet /\ Following(f, generation, wal)
      /\ f.generation = generation /\ f.consumed = Len(wal)
  BY RefreshedFollows
<1>2. \A t \in Txs : tx[t].state = "open" /\ tx[t].at = h => TxOk(tx[t], f, overlap[t])
  BY RefreshedTxOk
<1>3. /\ snapshot' = [f.db EXCEPT !.commit_seq = f.db.top]
      /\ generation' = generation + 1 /\ wal' = << >> /\ handle' = [handle EXCEPT ![h] = H]
  BY DEF TakeSnapshot
<1>4. handle \in [Handles -> HandleSet] /\ generation \in Nat BY DEF IInv, TypeInv
<1> HIDE DEF f
<1>5. /\ H \in HandleSet /\ H.db = f.db /\ H.store_id = f.store_id /\ H.consumed = 0
      /\ H.generation = generation'
  <2> DEFINE g == generation'
  <2>1. g \in Nat BY <1>3, <1>4
  <2>2. H = [f EXCEPT !.consumed = 0, !.generation = g] OBVIOUS
  <2> HIDE DEF g, H
  <2>3. H \in HandleSet BY <1>1, <2>1, <2>2 DEF HandleSet
  <2>4. H.db = f.db /\ H.store_id = f.store_id /\ H.consumed = 0 /\ H.generation = g
    BY <1>1, <2>2 DEF HandleSet
  <2> QED BY <2>3, <2>4 DEF g
<1> HIDE DEF H
<1>6. handle' \in [Handles -> HandleSet] /\ handle'[h] = H /\ \A g \in Handles \ {h} : handle'[g] = handle[g]
  BY <1>3, <1>4, <1>5
<1>7. f.db \in Stores /\ Numbered(f.db) BY <1>1 DEF HandleSet, Following
<1>8. Len(wal') = 0 BY <1>3
<1>9. \A g \in Handles \ {h} : handle'[g].generation # generation' /\ handle'[g].generation =< generation'
  <2>1. \A g \in Handles : handle[g].generation \in Nat /\ handle[g].generation =< generation
    BY <1>4 DEF IInv, Following, HandleSet
  <2> QED BY <1>3, <1>4, <1>6, <2>1
<1>10. ASSUME NEW g \in Handles PROVE Following(handle'[g], generation', wal')
  <2>1. CASE g = h BY <1>3, <1>4, <1>5, <1>6, <1>7, <1>8, <2>1 DEF Following
  <2>2. CASE g # h
    <3>1. Numbered(handle'[g].db) BY <1>6, <2>2 DEF IInv, Following
    <3> QED BY <1>9, <2>2, <3>1 DEF Following
  <2> QED BY <2>1, <2>2
<1>11. ASSUME NEW t \in Txs, tx[t].state = "open"
      PROVE  /\ tx[t].at \in Handles
             /\ TxOk(tx[t], handle'[tx[t].at], overlap[t])
             /\ TailOk(tx[t], handle'[tx[t].at], generation', wal', overlap[t])
  <2>1. OpenOk(t) BY <1>11 DEF IInv
  <2>2. \A T, G : TailOk(T, G, generation', wal', overlap[t]) BY <1>8 DEF TailOk
  <2>3. TxOk(tx[t], handle'[tx[t].at], overlap[t])
    <3>1. CASE tx[t].at = h BY <1>2, <1>5, <1>6, <1>11, <3>1 DEF TxOk
    <3>2. CASE tx[t].at # h BY <1>6, <2>1, <3>2 DEF OpenOk
    <3> QED BY <3>1, <3>2
  <2> QED BY <2>1, <2>2, <2>3 DEF OpenOk
<1>12. snapshot' \in Stores /\ Numbered(snapshot')
  <2>1. /\ snapshot' \in Stores /\ snapshot'.values = f.db.values
        /\ snapshot'.last_change = f.db.last_change /\ snapshot'.top = f.db.top
        /\ snapshot'.commit_seq = f.db.top /\ f.db.top \in Nat
    BY <1>3, <1>7 DEF Stores
  <2> QED BY <1>7, <2>1 DEF Numbered
<1> QED BY <1>6, <1>10, <1>11, <1>12 DEF Steady

-----------------------------------------------------------------------------
(* The steps.                                                              *)

\* What the properties say of one transaction.
Answered(t) ==
    /\ tx[t].state = "committed" /\ ~moved[t].reloaded => moved[t].keys = {}
    /\ tx[t].state = "refused" /\ ~moved[t].reloaded => moved[t].keys # {}

\* The parts of the invariant, of a step over steady handles.
LEMMA StepKeeps ==
    ASSUME IInv, NEW over, Steady(over), wal' \in Seq(Frames), generation' \in Nat, made' \in Nat,
           snapshot' \in Stores, Numbered(snapshot'), tx' \in [Txs -> TxSet],
           overlap' \in [Txs -> SUBSET Keys],
           moved' \in [Txs -> [keys : SUBSET Keys, reloaded : BOOLEAN]],
           \A t \in Txs : tx'[t].state = "open" =>
               (tx'[t] = tx[t] /\ overlap'[t] = over[t]) \/ OpenOk(t)',
           \A t \in Txs : (tx'[t] = tx[t] /\ moved'[t] = moved[t]) \/ Answered(t)'
    PROVE  IInv'
<1>1. TypeInv' BY DEF TypeInv, Steady
<1>2. \A h \in Handles : Following(handle'[h], generation', wal') BY DEF Steady
<1>3. ASSUME NEW t \in Txs, tx'[t].state = "open" PROVE OpenOk(t)'
  BY <1>3 DEF Steady, OpenOk
<1>4. ASSUME NEW t \in Txs PROVE Answered(t)'
  BY DEF IInv, NoLostUpdateInOneLoad, RefusedWasChanged, Answered
<1>5. NoLostUpdateInOneLoad' /\ RefusedWasChanged'
  BY <1>4 DEF Answered, NoLostUpdateInOneLoad, RefusedWasChanged
<1> QED BY <1>1, <1>2, <1>3, <1>5 DEF IInv

LEMMA AutoCommitKeeps ==
    ASSUME IInv, NEW h \in Handles, NEW sets \in SUBSET Keys, NEW dels \in SUBSET Keys,
           NEW marked \in BOOLEAN, AutoCommit(h, sets, dels, marked)
    PROVE  IInv'
<1>1. /\ AppendCommit(h, Refreshed(h), sets, dels, marked) /\ overlap' = Written(sets \cup dels)
      /\ UNCHANGED <<snapshot, generation, tx, moved>>
  BY DEF AutoCommit
<1> DEFINE over == Written(sets \cup dels)
<1>2. Steady(over) /\ wal' \in Seq(Frames) /\ made' \in Nat /\ over \in [Txs -> SUBSET Keys]
  BY <1>1, CommitIsSteady
<1>3. overlap' = over BY <1>1
<1> HIDE DEF over
<1>4. /\ generation' \in Nat /\ snapshot' \in Stores /\ Numbered(snapshot') /\ tx' \in [Txs -> TxSet]
      /\ moved' \in [Txs -> [keys : SUBSET Keys, reloaded : BOOLEAN]]
  BY <1>1 DEF IInv, TypeInv
<1> QED BY <1>1, <1>2, <1>3, <1>4, StepKeeps

LEMMA TakeSnapshotKeeps == ASSUME IInv, NEW h \in Handles, TakeSnapshot(h) PROVE IInv'
<1>1. Steady(overlap) /\ snapshot' \in Stores /\ Numbered(snapshot') BY SnapshotIsSteady
<1>2. UNCHANGED <<tx, made, overlap, moved>> /\ generation' = generation + 1 /\ wal' = << >>
  BY DEF TakeSnapshot
<1>3. << >> \in Seq(Frames) OBVIOUS
<1>4. /\ wal' \in Seq(Frames) /\ generation' \in Nat /\ made' \in Nat /\ tx' \in [Txs -> TxSet]
      /\ overlap' \in [Txs -> SUBSET Keys]
      /\ moved' \in [Txs -> [keys : SUBSET Keys, reloaded : BOOLEAN]]
  BY <1>2, <1>3 DEF IInv, TypeInv
<1> QED BY <1>1, <1>2, <1>4, StepKeeps

LEMMA NoTxType == NoTx \in TxSet /\ \A k \in Keys : NoTx.keys[k] = Unrecorded
<1>1. [k \in Keys |-> Unrecorded] \in [Keys -> Int] BY DEF Unrecorded
<1>2. [k \in Keys |-> Absent] \in [Keys -> Nat] BY DEF Absent
<1>3. NoTx.keys = [k \in Keys |-> Unrecorded] BY DEF NoTx
<1>4. Empty.values = [k \in Keys |-> Absent] BY DEF Empty
<1> QED BY <1>1, <1>2, <1>3, <1>4 DEF NoTx, TxSet

\* begin_transaction: nothing is recorded, and every number is the base's or less.
LEMMA BeginKeeps == ASSUME IInv, NEW t \in Txs, NEW h \in Handles, Begin(t, h) PROVE IInv'
<1> DEFINE f == Refreshed(h)
           T == [NoTx EXCEPT !.state = "open", !.at = h, !.values = f.db.values,
                             !.base_version = f.db.commit_seq, !.base_store = f.store_id]
<1>1. /\ tx[t].state = "none" /\ handle' = [handle EXCEPT ![h] = f] /\ tx' = [tx EXCEPT ![t] = T]
      /\ UNCHANGED <<wal, snapshot, generation, made, overlap, moved>>
  BY DEF Begin
<1>2. Steady(overlap) BY <1>1, RefreshIsSteady
<1>3. /\ f \in HandleSet /\ Following(f, generation, wal)
      /\ f.generation = generation /\ f.consumed = Len(wal)
  BY RefreshedFollows
<1> HIDE DEF f
<1>4. f.db \in Stores /\ Numbered(f.db) /\ f.store_id \in Nat BY <1>3 DEF HandleSet, Following
<1>5. /\ T \in TxSet /\ T.state = "open" /\ T.at = h /\ T.values = f.db.values
      /\ T.base_version = f.db.commit_seq /\ T.base_store = f.store_id
      /\ \A k \in Keys : T.keys[k] = Unrecorded
  <2>1. NoTx \in TxSet /\ \A k \in Keys : NoTx.keys[k] = Unrecorded BY NoTxType
  <2>2. f.db.values \in [Keys -> Nat] /\ f.db.commit_seq \in Nat BY <1>4 DEF Stores
  <2>3. T \in TxSet BY <1>4, <2>1, <2>2 DEF TxSet
  <2>4. /\ T.state = "open" /\ T.at = h /\ T.values = f.db.values
        /\ T.base_version = f.db.commit_seq /\ T.base_store = f.store_id /\ T.keys = NoTx.keys
    BY <2>1 DEF TxSet
  <2> QED BY <2>1, <2>3, <2>4
<1> HIDE DEF T
<1>6. /\ tx' \in [Txs -> TxSet] /\ tx'[t] = T /\ \A s \in Txs \ {t} : tx'[s] = tx[s]
      /\ handle'[h] = f /\ Len(wal) \in Nat /\ overlap'[t] = overlap[t]
  BY <1>1, <1>5 DEF IInv, TypeInv
<1>7. ASSUME NEW k \in Keys PROVE KeyOk(T, f.db, overlap[t], k)
  <2>1. f.db.last_change[k] =< f.db.commit_seq
    <3>1. f.db.last_change[k] \in Nat /\ f.db.top \in Nat /\ f.db.commit_seq \in Nat
      BY <1>4 DEF Stores
    <3> QED BY <1>4, <3>1 DEF Numbered
  <2> QED BY <1>5, <2>1 DEF KeyOk
<1>8. TxOk(T, f, overlap[t])
  <2>1. f.db.commit_seq \in Nat BY <1>4 DEF Stores
  <2> QED BY <1>4, <1>5, <1>7, <2>1 DEF TxOk
<1>9. TailOk(T, f, generation, wal, overlap[t]) BY <1>3, <1>6 DEF TailOk
<1>10. OpenOk(t)' BY <1>1, <1>5, <1>6, <1>8, <1>9 DEF OpenOk
<1>11. Answered(t)' BY <1>5, <1>6 DEF Answered
<1>12. /\ wal' \in Seq(Frames) /\ generation' \in Nat /\ made' \in Nat /\ snapshot' \in Stores
       /\ Numbered(snapshot') /\ overlap' \in [Txs -> SUBSET Keys]
       /\ moved' \in [Txs -> [keys : SUBSET Keys, reloaded : BOOLEAN]]
  BY <1>1 DEF IInv, TypeInv
<1>13. \A s \in Txs : tx'[s].state = "open" =>
           (tx'[s] = tx[s] /\ overlap'[s] = overlap[s]) \/ OpenOk(s)'
  BY <1>1, <1>6, <1>10
<1>14. \A s \in Txs : (tx'[s] = tx[s] /\ moved'[s] = moved[s]) \/ Answered(s)'
  BY <1>1, <1>6, <1>11
<1> QED BY <1>2, <1>6, <1>12, <1>13, <1>14, StepKeeps
\* record_keys: the number recorded is the one the key had at BEGIN, or none any
\* key can have.
LEMMA BaseLastChangeOk ==
    ASSUME NEW t \in Txs, tx[t] \in TxSet, NEW f \in HandleSet, Numbered(f.db), NEW k \in Keys,
           NEW w, TxOk(tx[t], f, w), NEW n, n = BaseLastChange(t, f, k)
    PROVE  /\ n \in Int
           /\ tx[t].base_store = f.store_id =>
                /\ n # Unrecorded => n \in {Changed} \cup 0 .. tx[t].base_version
                /\ n = 0 => tx[t].values[k] = Absent
                /\ n > 0 => tx[t].values[k] # Absent
                /\ k \notin w => n = Num(f.db, k)
<1>1. /\ f.db.last_change[k] \in Nat /\ f.db.values[k] \in Nat /\ tx[t].values[k] \in Nat
      /\ tx[t].base_version \in Nat
  BY DEF HandleSet, Stores, TxSet
<1>2. f.db.values[k] # Absent => f.db.last_change[k] >= 1 BY DEF Numbered
<1>3. CASE f.store_id # tx[t].base_store
  <2>1. n = Changed BY <1>3 DEF BaseLastChange
  <2> QED BY <1>3, <2>1 DEF Changed
<1>4. CASE f.store_id = tx[t].base_store
  <2>1. KeyOk(tx[t], f.db, w, k) BY <1>4 DEF TxOk
  <2>2. CASE (f.db.values[k] # Absent) # (tx[t].values[k] # Absent)
    <3>1. n = Changed BY <2>2 DEF BaseLastChange
    <3>2. k \in w BY <2>1, <2>2 DEF KeyOk
    <3> QED BY <3>1, <3>2 DEF Changed
  <2>3. CASE f.db.values[k] = Absent /\ tx[t].values[k] = Absent
    <3>1. n = 0 BY <1>4, <2>3 DEF BaseLastChange
    <3> QED BY <1>1, <2>3, <3>1 DEF Num
  <2>4. CASE f.db.values[k] # Absent /\ tx[t].values[k] # Absent
    <3>1. CASE f.db.last_change[k] > tx[t].base_version
      <4>1. n = Changed BY <1>4, <2>4, <3>1 DEF BaseLastChange
      <4>2. k \in w BY <1>1, <2>1, <3>1 DEF KeyOk
      <4> QED BY <4>1, <4>2 DEF Changed
    <3>2. CASE ~(f.db.last_change[k] > tx[t].base_version)
      <4>1. n = f.db.last_change[k] BY <1>4, <2>4, <3>2 DEF BaseLastChange
      <4>2. n = Num(f.db, k) BY <2>4, <4>1 DEF Num
      <4> QED BY <1>1, <1>2, <2>4, <3>2, <4>1, <4>2
    <3> QED BY <3>1, <3>2
  <2> QED BY <2>2, <2>3, <2>4
<1> QED BY <1>3, <1>4

\* A statement reads, sets or deletes a key, on the handle as it is now.
LEMMA ExecuteKeeps ==
    ASSUME IInv, NEW t \in Txs, NEW k \in Keys, NEW op, Execute(t, k, op) PROVE IInv'
<1> DEFINE h == tx[t].at
           f == Refreshed(h)
           recorded == tx[t].keys[k] # Unrecorded
           n == IF recorded THEN tx[t].keys[k] ELSE BaseLastChange(t, f, k)
           sets == IF op = "set" THEN tx[t].sets \cup {k}
                   ELSE IF op = "delete" THEN tx[t].sets \ {k} ELSE tx[t].sets
           dels == IF op = "delete" THEN tx[t].dels \cup {k}
                   ELSE IF op = "set" THEN tx[t].dels \ {k} ELSE tx[t].dels
           T == [tx[t] EXCEPT !.keys = [tx[t].keys EXCEPT ![k] = n], !.sets = sets, !.dels = dels]
<1>1. /\ tx[t].state = "open"
      /\ handle' = IF recorded THEN handle ELSE [handle EXCEPT ![h] = f]
      /\ UNCHANGED <<wal, snapshot, generation, made, overlap, moved>>
  BY DEF Execute
<1>2. tx' = [tx EXCEPT ![t] = T] BY DEF Execute
<1>3. tx \in [Txs -> TxSet] /\ tx[t] \in TxSet /\ h \in Handles /\ handle \in [Handles -> HandleSet]
  BY <1>1 DEF IInv, TypeInv, OpenOk
<1>4. Steady(overlap)
  <2>1. CASE recorded BY <1>1, <2>1, UnmovedIsSteady
  <2>2. CASE ~recorded BY <1>1, <1>3, <2>2, RefreshIsSteady
  <2> QED BY <2>1, <2>2
<1> DEFINE H == handle'[h]
<1>5. /\ H \in HandleSet /\ Numbered(H.db) /\ TxOk(tx[t], H, overlap[t])
      /\ TailOk(tx[t], H, generation', wal', overlap[t])
  BY <1>1, <1>3, <1>4 DEF Steady, Following
<1>6. ~recorded => H = f BY <1>1, <1>3
<1>7. n \in Int /\ (tx[t].base_store = H.store_id =>
          /\ n # Unrecorded => n \in {Changed} \cup 0 .. tx[t].base_version
          /\ n # Unrecorded => (n = 0 => tx[t].values[k] = Absent)
          /\ n # Unrecorded => (n > 0 => tx[t].values[k] # Absent)
          /\ n # Unrecorded => (k \notin overlap[t] => n = Num(H.db, k)))
  <2>1. CASE recorded
    <3>1. n = tx[t].keys[k] /\ n \in Int BY <1>3, <2>1 DEF TxSet
    <3>2. tx[t].base_store = H.store_id => KeyOk(tx[t], H.db, overlap[t], k) BY <1>5 DEF TxOk
    <3> HIDE DEF H, n
    <3> QED BY <2>1, <3>1, <3>2 DEF KeyOk
  <2>2. CASE ~recorded
    <3>1. n = BaseLastChange(t, H, k) BY <1>6, <2>2
    <3> HIDE DEF H, n
    <3> QED BY <1>3, <1>5, <3>1, BaseLastChangeOk
  <2> QED BY <2>1, <2>2
<1>8. sets \in SUBSET Keys /\ dels \in SUBSET Keys BY <1>3 DEF TxSet
<1> HIDE DEF n, sets, dels
<1>9. /\ T \in TxSet /\ T.state = "open" /\ T.at = h /\ T.values = tx[t].values
      /\ T.base_version = tx[t].base_version /\ T.base_store = tx[t].base_store
      /\ T.keys[k] = n /\ \A j \in Keys \ {k} : T.keys[j] = tx[t].keys[j]
  <2>1. tx[t].keys \in [Keys -> Int] BY <1>3 DEF TxSet
  <2> DEFINE ks == [tx[t].keys EXCEPT ![k] = n]
  <2>2. ks \in [Keys -> Int] /\ ks[k] = n /\ \A j \in Keys \ {k} : ks[j] = tx[t].keys[j]
    BY <1>7, <2>1
  <2>3. T = [tx[t] EXCEPT !.keys = ks, !.sets = sets, !.dels = dels] OBVIOUS
  <2> HIDE DEF ks
  <2> DEFINE U == tx[t]
  <2>4. T = [U EXCEPT !.keys = ks, !.sets = sets, !.dels = dels] BY <2>3
  <2>5. U \in TxSet BY <1>3
  <2> HIDE DEF U, T
  <2>6. T \in TxSet BY <1>8, <2>2, <2>4, <2>5 DEF TxSet
  <2>7. /\ T.state = U.state /\ T.at = U.at /\ T.values = U.values
        /\ T.base_version = U.base_version /\ T.base_store = U.base_store /\ T.keys = ks
    BY <2>4, <2>5 DEF TxSet
  <2> QED BY <1>1, <2>2, <2>6, <2>7 DEF U
<1> HIDE DEF T
<1>10. tx' \in [Txs -> TxSet] /\ tx'[t] = T /\ \A s \in Txs \ {t} : tx'[s] = tx[s]
  BY <1>2, <1>3, <1>9
<1> HIDE DEF H
<1>11. TxOk(T, H, overlap[t])
  <2>1. ASSUME T.base_store = H.store_id, NEW j \in Keys PROVE KeyOk(T, H.db, overlap[t], j)
    <3>1. KeyOk(tx[t], H.db, overlap[t], j) BY <1>5, <1>9, <2>1 DEF TxOk
    <3>2. CASE j = k BY <1>7, <1>9, <2>1, <3>1, <3>2 DEF KeyOk
    <3>3. CASE j # k BY <1>9, <3>1, <3>3 DEF KeyOk
    <3> QED BY <3>2, <3>3
  <2> QED BY <1>5, <1>9, <2>1 DEF TxOk
<1>12. TailOk(T, H, generation', wal', overlap[t]) BY <1>5, <1>9 DEF TailOk
<1>13. OpenOk(t)' BY <1>1, <1>3, <1>9, <1>10, <1>11, <1>12 DEF OpenOk, H
<1>14. Answered(t)' BY <1>9, <1>10 DEF Answered
<1>15. /\ wal' \in Seq(Frames) /\ generation' \in Nat /\ made' \in Nat /\ snapshot' \in Stores
       /\ Numbered(snapshot') /\ overlap' \in [Txs -> SUBSET Keys]
       /\ moved' \in [Txs -> [keys : SUBSET Keys, reloaded : BOOLEAN]]
  BY <1>1 DEF IInv, TypeInv
<1>16. \A s \in Txs : tx'[s].state = "open" =>
           (tx'[s] = tx[s] /\ overlap'[s] = overlap[s]) \/ OpenOk(s)'
  BY <1>1, <1>10, <1>13
<1>17. \A s \in Txs : (tx'[s] = tx[s] /\ moved'[s] = moved[s]) \/ Answered(s)'
  BY <1>1, <1>10, <1>14
<1> QED BY <1>4, <1>10, <1>15, <1>16, <1>17, StepKeeps
\* check_preconditions, without a reload: the numbers recorded are the ones now
\* exactly when nothing the transaction touched has moved.
LEMMA SameNumberSameValue ==
    ASSUME NEW t \in Txs, tx[t] \in TxSet, NEW f \in HandleSet, Numbered(f.db), NEW w,
           TxOk(tx[t], f, w), tx[t].base_store = f.store_id, NEW k \in Recorded(t)
    PROVE  /\ tx[t].keys[k] = Num(f.db, k) => f.db.values[k] = tx[t].values[k]
           /\ tx[t].keys[k] # Num(f.db, k) => k \in w
<1>1. k \in Keys /\ tx[t].keys[k] # Unrecorded BY DEF Recorded
<1>2. KeyOk(tx[t], f.db, w, k) BY <1>1 DEF TxOk
<1>3. /\ f.db.last_change[k] \in Nat /\ f.db.values[k] \in Nat /\ tx[t].values[k] \in Nat
      /\ tx[t].base_version \in Nat
  BY <1>1 DEF HandleSet, Stores, TxSet
<1>4. f.db.values[k] # Absent => f.db.last_change[k] >= 1 BY <1>1 DEF Numbered
<1>5. tx[t].keys[k] # Num(f.db, k) => k \in w BY <1>1, <1>2 DEF KeyOk
<1>6. ASSUME tx[t].keys[k] = Num(f.db, k) PROVE f.db.values[k] = tx[t].values[k]
  <2>1. CASE f.db.values[k] = Absent
    <3>1. tx[t].keys[k] = 0 BY <1>6, <2>1 DEF Num
    <3> QED BY <1>1, <1>2, <2>1, <3>1 DEF KeyOk
  <2>2. CASE f.db.values[k] # Absent
    <3>1. tx[t].keys[k] = f.db.last_change[k] /\ tx[t].keys[k] > 0 BY <1>3, <1>4, <1>6, <2>2 DEF Num
    <3>2. tx[t].values[k] # Absent /\ tx[t].keys[k] =< tx[t].base_version
      BY <1>1, <1>2, <1>3, <3>1 DEF KeyOk, Changed
    <3> QED BY <1>2, <1>3, <2>2, <3>1, <3>2 DEF KeyOk
  <2> QED BY <2>1, <2>2
<1> QED BY <1>5, <1>6

\* A transaction ends: it is open no more, and the others are as they were.
Ended(t, how, written) ==
    /\ tx' \in [Txs -> TxSet] /\ tx'[t].state = how /\ \A s \in Txs \ {t} : tx'[s] = tx[s]
    /\ overlap' \in [Txs -> SUBSET Keys] /\ \A s \in Txs \ {t} : overlap'[s] = written[s]

LEMMA EndsFacts ==
    ASSUME IInv, NEW t \in Txs, NEW how \in {"rolled back", "read", "committed", "refused"},
           NEW written \in [Txs -> SUBSET Keys], Ends(t, how, written)
    PROVE  Ended(t, how, written)
<1> DEFINE T == [NoTx EXCEPT !.state = how]
<1>1. tx' = [tx EXCEPT ![t] = T] /\ overlap' = [written EXCEPT ![t] = {}] BY DEF Ends
<1>2. T \in TxSet /\ T.state = how BY NoTxType DEF TxSet
<1> HIDE DEF T
<1>3. tx \in [Txs -> TxSet] BY DEF IInv, TypeInv
<1>4. tx' \in [Txs -> TxSet] /\ tx'[t].state = how /\ \A s \in Txs \ {t} : tx'[s] = tx[s]
  BY <1>1, <1>2, <1>3
<1>5. overlap' \in [Txs -> SUBSET Keys] /\ \A s \in Txs \ {t} : overlap'[s] = written[s]
  BY <1>1
<1> QED BY <1>4, <1>5 DEF Ended

LEMMA EndsKeeps ==
    ASSUME IInv, NEW t \in Txs, NEW how \in {"rolled back", "read", "committed", "refused"},
           NEW written \in [Txs -> SUBSET Keys], Ends(t, how, written), Steady(written),
           wal' \in Seq(Frames), made' \in Nat, UNCHANGED <<snapshot, generation>>,
           NEW m \in [keys : SUBSET Keys, reloaded : BOOLEAN],
           moved' = moved \/ moved' = [moved EXCEPT ![t] = m],
           how = "committed" => moved'[t] = m /\ (~m.reloaded => m.keys = {}),
           how = "refused" => moved'[t] = m /\ (~m.reloaded => m.keys # {})
    PROVE  IInv'
<1>1. /\ tx' \in [Txs -> TxSet] /\ tx'[t].state = how /\ \A s \in Txs \ {t} : tx'[s] = tx[s]
      /\ overlap' \in [Txs -> SUBSET Keys] /\ \A s \in Txs \ {t} : overlap'[s] = written[s]
  <2>1. Ended(t, how, written) BY EndsFacts
  <2> QED BY <2>1 DEF Ended
<1>2. /\ moved' \in [Txs -> [keys : SUBSET Keys, reloaded : BOOLEAN]]
      /\ \A s \in Txs \ {t} : moved'[s] = moved[s]
  BY DEF IInv, TypeInv
<1>3. generation' \in Nat /\ snapshot' \in Stores /\ Numbered(snapshot') BY DEF IInv, TypeInv
<1>4. Answered(t)' BY <1>1 DEF Answered
<1>5. \A s \in Txs : tx'[s].state = "open" =>
          (tx'[s] = tx[s] /\ overlap'[s] = written[s]) \/ OpenOk(s)'
  BY <1>1
<1>6. \A s \in Txs : (tx'[s] = tx[s] /\ moved'[s] = moved[s]) \/ Answered(s)'
  BY <1>1, <1>2, <1>4
<1> QED BY <1>1, <1>2, <1>3, <1>5, <1>6, StepKeeps

\* rollback, and the commit of a transaction that wrote nothing.
LEMMA QuietEndKeeps ==
    ASSUME IInv, NEW t \in Txs, Rollback(t) \/ CommitReads(t) PROVE IInv'
<1>1. /\ UNCHANGED <<wal, snapshot, generation, handle, made, moved>>
      /\ Ends(t, "rolled back", overlap) \/ Ends(t, "read", overlap)
  BY DEF Rollback, CommitReads
<1>2. Steady(overlap) BY <1>1, UnmovedIsSteady
<1>3. overlap \in [Txs -> SUBSET Keys] /\ wal' \in Seq(Frames) /\ made' \in Nat
  BY <1>1 DEF IInv, TypeInv
<1>4. Still \in [keys : SUBSET Keys, reloaded : BOOLEAN] BY DEF Still
<1>5. CASE Ends(t, "rolled back", overlap)
  BY <1>1, <1>2, <1>3, <1>4, <1>5, EndsKeeps
<1>6. CASE Ends(t, "read", overlap)
  BY <1>1, <1>2, <1>3, <1>4, <1>6, EndsKeeps
<1> QED BY <1>1, <1>5, <1>6

\* commit: accepted, so no key the transaction recorded has another value now.
LEMMA CommitKeeps ==
    ASSUME IInv, NEW t \in Txs, NEW marked \in BOOLEAN, Commit(t, marked) PROVE IInv'
<1> DEFINE f == Refreshed(tx[t].at)
           sets == tx[t].sets
           dels == tx[t].dels
           over == Written(sets \cup dels)
           m == [keys |-> {k \in Recorded(t) : f.db.values[k] # tx[t].values[k]},
                 reloaded |-> f.store_id # tx[t].base_store]
<1>1. /\ tx[t].state = "open" /\ Unchanged(t, f)
      /\ AppendCommit(tx[t].at, f, sets, dels, marked)
      /\ Ends(t, "committed", over) /\ moved' = [moved EXCEPT ![t] = m]
      /\ UNCHANGED <<snapshot, generation>>
  BY DEF Commit
<1>2. /\ tx[t] \in TxSet /\ tx[t].at \in Handles /\ TxOk(tx[t], f, overlap[t])
      /\ moved \in [Txs -> [keys : SUBSET Keys, reloaded : BOOLEAN]]
  BY <1>1, RefreshedTxOk DEF IInv, TypeInv, OpenOk
<1>3. f \in HandleSet /\ Numbered(f.db) BY <1>2, RefreshedFollows DEF Following
<1>4. sets \in SUBSET Keys /\ dels \in SUBSET Keys BY <1>2 DEF TxSet
<1> HIDE DEF sets, dels
<1>5. Steady(over) /\ wal' \in Seq(Frames) /\ made' \in Nat /\ over \in [Txs -> SUBSET Keys]
  BY <1>1, <1>2, <1>4, CommitIsSteady
<1> HIDE DEF f, over
<1>6. ASSUME f.store_id = tx[t].base_store, NEW k \in Recorded(t)
      PROVE  f.db.values[k] = tx[t].values[k]
  <2>1. tx[t].keys[k] = Num(f.db, k) BY <1>1 DEF Unchanged, Num
  <2> QED BY <1>2, <1>3, <1>6, <2>1, SameNumberSameValue
<1>7. m \in [keys : SUBSET Keys, reloaded : BOOLEAN] BY DEF Recorded
<1>8. ~m.reloaded => m.keys = {} BY <1>6
<1> HIDE DEF m
<1>9. moved'[t] = m BY <1>1, <1>2
<1> QED BY <1>1, <1>5, <1>7, <1>8, <1>9, EndsKeeps

\* commit: refused, so another commit wrote a key the transaction recorded.
LEMMA CommitConflictsKeeps ==
    ASSUME IInv, NEW t \in Txs, CommitConflicts(t) PROVE IInv'
<1> DEFINE f == Refreshed(tx[t].at)
           m == [keys |-> overlap[t] \cap Recorded(t), reloaded |-> f.store_id # tx[t].base_store]
<1>1. /\ tx[t].state = "open" /\ ~Unchanged(t, f) /\ Ends(t, "refused", overlap)
      /\ moved' = [moved EXCEPT ![t] = m] /\ handle' = [handle EXCEPT ![tx[t].at] = f]
      /\ UNCHANGED <<wal, snapshot, generation, made>>
  BY DEF CommitConflicts
<1>2. /\ tx[t] \in TxSet /\ tx[t].at \in Handles /\ TxOk(tx[t], f, overlap[t])
      /\ moved \in [Txs -> [keys : SUBSET Keys, reloaded : BOOLEAN]]
      /\ overlap \in [Txs -> SUBSET Keys] /\ wal' \in Seq(Frames) /\ made' \in Nat
  BY <1>1, RefreshedTxOk DEF IInv, TypeInv, OpenOk
<1>3. f \in HandleSet /\ Numbered(f.db) BY <1>2, RefreshedFollows DEF Following
<1>4. Steady(overlap) BY <1>1, <1>2, RefreshIsSteady
<1> HIDE DEF f
<1>5. PICK k \in Recorded(t) : tx[t].keys[k] # Num(f.db, k) BY <1>1 DEF Unchanged, Num
<1>6. f.store_id = tx[t].base_store => k \in overlap[t] BY <1>2, <1>3, <1>5, SameNumberSameValue
<1>7. m \in [keys : SUBSET Keys, reloaded : BOOLEAN] BY DEF Recorded
<1>8. ~m.reloaded => m.keys # {} BY <1>6
<1> HIDE DEF m
<1>9. moved'[t] = m BY <1>1, <1>2
<1> QED BY <1>1, <1>2, <1>4, <1>7, <1>8, <1>9, EndsKeeps

-----------------------------------------------------------------------------
LEMMA InitIInv == Init => IInv
<1> SUFFICES ASSUME Init PROVE IInv OBVIOUS
<1>1. /\ Empty.values = [k \in Keys |-> Absent] /\ Empty.last_change = [k \in Keys |-> 0]
      /\ Empty.top = 0 /\ Empty.commit_seq = 0
  BY DEF Empty
<1>2. Empty \in Stores BY DEF Empty, Stores, Absent
<1>3. Numbered(Empty) BY <1>1 DEF Numbered
<1>4. << >> \in Seq(Frames) OBVIOUS
<1>5. ASSUME NEW h \in Handles
      PROVE  handle[h] \in HandleSet /\ Following(handle[h], generation, wal)
  <2>1. handle[h] = [db |-> Empty, consumed |-> 0, generation |-> 0, store_id |-> 0] BY DEF Init
  <2>2. Len(wal) = 0 /\ generation = 0 BY DEF Init
  <2> QED BY <1>2, <1>3, <2>1, <2>2 DEF HandleSet, Following
<1>6. \A t \in Txs : tx[t] = NoTx BY DEF Init
<1>7. NoTx.state = "none" BY DEF NoTx
<1>8. Still \in [keys : SUBSET Keys, reloaded : BOOLEAN] BY DEF Still
<1>9. TypeInv BY <1>2, <1>4, <1>5, <1>8, NoTxType DEF Init, TypeInv
<1>10. Numbered(snapshot) BY <1>3 DEF Init
<1> QED BY <1>5, <1>6, <1>7, <1>9, <1>10 DEF IInv, NoLostUpdateInOneLoad, RefusedWasChanged

LEMMA NextIInv == IInv /\ [Next]_vars => IInv'
<1> SUFFICES ASSUME IInv, [Next]_vars PROVE IInv' OBVIOUS
<1>1. ASSUME NEW h \in Handles, NEW marked \in BOOLEAN,
             \/ AutoCommit(h, {}, {}, FALSE)
             \/ \E k \in Keys : AutoCommit(h, {k}, {}, marked) \/ AutoCommit(h, {}, {k}, marked)
      PROVE  IInv'
  <2>1. \A k \in Keys : {k} \in SUBSET Keys OBVIOUS
  <2>2. {} \in SUBSET Keys /\ FALSE \in BOOLEAN OBVIOUS
  <2> QED BY <1>1, <2>1, <2>2, AutoCommitKeeps
<1>2. ASSUME NEW h \in Handles, TakeSnapshot(h) PROVE IInv' BY <1>2, TakeSnapshotKeeps
<1>3. ASSUME NEW t \in Txs,
             \/ \E h \in Handles : Begin(t, h)
             \/ \E k \in Keys, op \in {"read", "set", "delete"} : Execute(t, k, op)
             \/ Rollback(t) \/ CommitReads(t) \/ CommitConflicts(t)
             \/ \E marked \in BOOLEAN : Commit(t, marked)
      PROVE  IInv'
  BY <1>3, BeginKeeps, ExecuteKeeps, QuietEndKeeps, CommitConflictsKeeps, CommitKeeps
<1>4. CASE UNCHANGED vars
  <2>1. UNCHANGED <<wal, snapshot, generation, handle, tx, made, overlap, moved>> BY <1>4 DEF vars
  <2>2. Steady(overlap) BY <2>1, UnmovedIsSteady
  <2>3. /\ wal' \in Seq(Frames) /\ generation' \in Nat /\ made' \in Nat /\ snapshot' \in Stores
        /\ Numbered(snapshot') /\ tx' \in [Txs -> TxSet] /\ overlap' \in [Txs -> SUBSET Keys]
        /\ moved' \in [Txs -> [keys : SUBSET Keys, reloaded : BOOLEAN]]
    BY <2>1 DEF IInv, TypeInv
  <2> QED BY <2>1, <2>2, <2>3, StepKeeps
<1> QED BY <1>1, <1>2, <1>3, <1>4 DEF Next

\* The invariant holds of every run of commits, snapshots and transactions.
THEOREM Invariance == Spec => []IInv
BY InitIInv, NextIInv, PTL DEF Spec

\* "Lost updates are impossible", for a handle that was not reloaded since BEGIN:
\* of a transaction whose commit was accepted, every key it read or wrote still
\* had the value of BEGIN, whichever process wrote in between, and whatever frames,
\* markers and snapshots of its own the handle has counted (tx_base_last_change,
\* check_preconditions).
THEOREM NoUpdateIsLost == Spec => []NoLostUpdateInOneLoad
<1>1. IInv => NoLostUpdateInOneLoad BY DEF IInv
<1> QED BY <1>1, Invariance, PTL

\* A commit is refused only when another commit wrote a key the transaction
\* recorded, or the handle was reloaded: nothing else the handle counts looks
\* like a change (update_last_change_from_rec, tx_base_last_change).
THEOREM RefusalsAreJustified == Spec => []RefusedWasChanged
<1>1. IInv => RefusedWasChanged BY DEF IInv
<1> QED BY <1>1, Invariance, PTL
=============================================================================
