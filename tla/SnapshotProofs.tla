--------------------------- MODULE SnapshotProofs ---------------------------
(***************************************************************************)
(* TLAPS proofs about Snapshot, for any number of commits, snapshots,      *)
(* crashes and I/O errors and any retention: whatever is on disk opens as  *)
(* the whole history, the handle holds it, commit numbers name their       *)
(* commits, history goes by retention alone, and open_at answers with the  *)
(* past or not at all.                                                     *)
(*                                                                         *)
(* What opens depends on the snapshot, the WAL and the intent file, which  *)
(* change one after the other.  DiskInv says of every record that stands,  *)
(* and of the case that none does, that the frames it leaves to be applied *)
(* complete the snapshot.  An append could make a record true that is not: *)
(* HandleInv says that a handle that need not settle has no such record.   *)
(* StepInv says what each step of a snapshot has done so far.              *)
(*                                                                         *)
(* Numbers depend on the floor, the archives and the WAL.  ArchivesInv,    *)
(* HorizonInv and CountInv say how these fit together whatever fails, with *)
(* at most one failed snapshot, and with none.                             *)
(***************************************************************************)
EXTENDS Snapshot, FiniteSetTheorems, SequenceTheorems, TLAPS, WellFoundedInduction

-----------------------------------------------------------------------------
(* Induction over the natural numbers, by a least counterexample.          *)

Smaller == {ss \in Nat \X Nat : ss[1] < ss[2]}

\* A set of numbers that is not empty has a least element.
LEMMA LeastOf ==
    ASSUME NEW T \in SUBSET Nat, T # {}
    PROVE  \E x \in T : \A y \in T : x <= y
<1>1. Smaller = OpToRel(<, Nat) BY DEF Smaller, OpToRel
<1>2. IsWellFoundedOn(Smaller, Nat) BY <1>1, NatLessThanWellFounded
<1>3. PICK x \in T : \A y \in T : ~ (<<y, x>> \in Smaller) BY <1>2, WFMin
<1>4. ASSUME NEW y \in T, y < x PROVE FALSE
  <2>1. <<y, x>> \in Smaller BY <1>4 DEF Smaller
  <2> QED BY <1>3, <2>1
<1> QED BY <1>4

\* A set that holds 0, and with each number the next one, holds every number.
LEMMA Induction ==
    ASSUME NEW S \in SUBSET Nat, 0 \in S, \A n \in Nat : n \in S => n + 1 \in S
    PROVE  \A n \in Nat : n \in S
<1> DEFINE T == Nat \ S
<1>1. SUFFICES ASSUME T # {} PROVE FALSE OBVIOUS
<1>2. PICK x \in T : \A y \in T : x <= y BY <1>1, LeastOf
<1>3. x \in Nat /\ x # 0 OBVIOUS
<1>4. x - 1 \in Nat /\ x - 1 \notin T BY <1>2, <1>3
<1>5. (x - 1) + 1 \in S BY <1>4
<1> QED BY <1>2, <1>3, <1>5

-----------------------------------------------------------------------------
(* Data, the commits of a WAL.                                             *)

\* g gives the commits among the first n frames of s, for every n.
Collects(g, s) ==
    g = [n \in 0..Len(s) |-> IF n = 0 THEN <<>>
                             ELSE IF s[n] = Declaration THEN g[n - 1]
                             ELSE Append(g[n - 1], s[n])]

\* The next value of such a function.
LEMMA CollectsStep ==
    ASSUME NEW s \in Seq(Nat), NEW g, Collects(g, s)
    PROVE  /\ g[0] = <<>>
           /\ \A n \in Nat : n + 1 <= Len(s) =>
                 g[n + 1] = IF s[n + 1] = Declaration THEN g[n] ELSE Append(g[n], s[n + 1])
<1>0. Len(s) \in Nat OBVIOUS
<1>1. g[0] = <<>> BY <1>0 DEF Collects
<1>2. ASSUME NEW n \in Nat, n + 1 <= Len(s)
      PROVE  g[n + 1] = IF s[n + 1] = Declaration THEN g[n] ELSE Append(g[n], s[n + 1])
  <2>1. n + 1 \in 0..Len(s) /\ n + 1 # 0 /\ (n + 1) - 1 = n BY <1>0, <1>2
  <2> QED BY <2>1 DEF Collects
<1> QED BY <1>1, <1>2

\* It has sequences of commits as values.
LEMMA CollectsType ==
    ASSUME NEW s \in Seq(Nat), NEW g, Collects(g, s)
    PROVE  \A n \in Nat : n <= Len(s) => g[n] \in Seq(Nat)
<1> DEFINE S == {n \in Nat : n <= Len(s) => g[n] \in Seq(Nat)}
<1>0. Len(s) \in Nat OBVIOUS
<1>1. 0 \in S
  <2>1. g[0] = <<>> BY CollectsStep
  <2>2. <<>> \in Seq(Nat) OBVIOUS
  <2> QED BY <2>1, <2>2
<1>2. ASSUME NEW n \in Nat, n \in S PROVE n + 1 \in S
  <2>1. SUFFICES ASSUME n + 1 <= Len(s) PROVE g[n + 1] \in Seq(Nat) OBVIOUS
  <2>2. g[n] \in Seq(Nat) /\ s[n + 1] \in Nat BY <1>0, <1>2, <2>1
  <2>3. Append(g[n], s[n + 1]) \in Seq(Nat) BY <2>2
  <2> QED BY <2>1, <2>2, <2>3, CollectsStep
<1>3. S \in SUBSET Nat OBVIOUS
<1> HIDE DEF S
<1>4. \A n \in Nat : n \in S BY <1>1, <1>2, <1>3, Induction
<1> QED BY <1>4 DEF S

\* There is one for every sequence.
LEMMA CollectsExists == ASSUME NEW s \in Seq(Nat) PROVE \E g : Collects(g, s)
<1> DEFINE S == {n \in Nat : \A t \in Seq(Nat) : Len(t) = n => \E g : Collects(g, t)}
<1>1. 0 \in S
  <2>1. SUFFICES ASSUME NEW t \in Seq(Nat), Len(t) = 0 PROVE \E g : Collects(g, t) OBVIOUS
  <2> DEFINE g == [n \in 0..0 |-> <<>>]
  <2>2. Collects(g, t)
    <3>1. 0..Len(t) = 0..0 BY <2>1
    <3> QED BY <3>1 DEF Collects
  <2> QED BY <2>2
<1>2. ASSUME NEW n \in Nat, n \in S PROVE n + 1 \in S
  <2>1. SUFFICES ASSUME NEW t \in Seq(Nat), Len(t) = n + 1 PROVE \E g : Collects(g, t) OBVIOUS
  <2> DEFINE u == SubSeq(t, 1, n)
  <2>2. u \in Seq(Nat) /\ Len(u) = n /\ \A i \in 1..n : u[i] = t[i] BY <2>1
  <2>3. PICK g : Collects(g, u) BY <1>2, <2>2
  <2> HIDE DEF u
  <2> DEFINE h == [i \in 0..(n + 1) |->
                     IF i <= n THEN g[i]
                     ELSE IF t[n + 1] = Declaration THEN g[n] ELSE Append(g[n], t[n + 1])]
             k == [i \in 0..Len(t) |-> IF i = 0 THEN <<>>
                                       ELSE IF t[i] = Declaration THEN h[i - 1]
                                       ELSE Append(h[i - 1], t[i])]
  <2>4. ASSUME NEW i \in 0..(n + 1) PROVE h[i] = k[i]
    <3>1. CASE i = 0 BY <2>1, <2>2, <2>3, <3>1, CollectsStep
    <3>2. CASE i # 0 /\ i <= n
      <4>1. i - 1 \in Nat /\ (i - 1) + 1 = i /\ i \in 1..n /\ i - 1 \in 0..(n + 1) /\ i - 1 <= n
        BY <3>2
      <4>a. PICK j \in Nat : i = j + 1 BY <4>1
      <4>b. j + 1 <= Len(u) /\ i - 1 = j BY <2>2, <4>1, <4>a
      <4>c. g[j + 1] = IF u[j + 1] = Declaration THEN g[j] ELSE Append(g[j], u[j + 1])
        BY <2>2, <2>3, <4>b, CollectsStep
      <4>2. g[i] = IF u[i] = Declaration THEN g[i - 1] ELSE Append(g[i - 1], u[i])
        BY <4>a, <4>b, <4>c
      <4>3. h[i] = g[i] /\ h[i - 1] = g[i - 1] /\ u[i] = t[i] BY <2>2, <4>1
      <4> QED BY <2>1, <3>2, <4>2, <4>3
    <3>3. CASE i = n + 1
      <4>1. ~(n + 1 <= n) /\ n + 1 # 0 /\ (n + 1) - 1 = n /\ n \in 0..(n + 1) /\ n + 1 \in 0..(n + 1)
        OBVIOUS
      <4>2. h[n] = g[n] BY <4>1
      <4> QED BY <2>1, <3>3, <4>1, <4>2
    <3> QED BY <3>1, <3>2, <3>3
  <2>5. h = k BY <2>1, <2>4
  <2>6. Collects(h, t) BY <2>5 DEF Collects
  <2> QED BY <2>6
<1>3. S \in SUBSET Nat OBVIOUS
<1> HIDE DEF S
<1>4. \A n \in Nat : n \in S BY <1>1, <1>2, <1>3, Induction
<1>5. Len(s) \in S BY <1>4
<1> QED BY <1>5 DEF S

\* Data is its value for all the frames.
LEMMA DataIs == ASSUME NEW s \in Seq(Nat) PROVE \E g : Collects(g, s) /\ Data(s) = g[Len(s)]
<1> DEFINE g == CHOOSE g : Collects(g, s)
<1>1. Collects(g, s) BY CollectsExists
<1>2. Data(s) = g[Len(s)] BY DEF Data, Collects
<1> QED BY <1>1, <1>2

\* The commits of a WAL are a sequence of numbers.
LEMMA DataType == ASSUME NEW s \in Seq(Nat) PROVE Data(s) \in Seq(Nat)
<1>1. PICK g : Collects(g, s) /\ Data(s) = g[Len(s)] BY DataIs
<1> QED BY <1>1, CollectsType

\* Two functions agree where their sequences do.
LEMMA CollectsAgree ==
    ASSUME NEW s \in Seq(Nat), NEW t \in Seq(Nat), NEW g, NEW h, Collects(g, s), Collects(h, t),
           Len(s) <= Len(t), \A i \in 1..Len(s) : s[i] = t[i]
    PROVE  g[Len(s)] = h[Len(s)]
<1> DEFINE S == {n \in Nat : n <= Len(s) => g[n] = h[n]}
<1>0. Len(s) \in Nat /\ Len(t) \in Nat OBVIOUS
<1>1. 0 \in S
  <2>1. g[0] = <<>> /\ h[0] = <<>> BY CollectsStep
  <2> QED BY <2>1
<1>2. ASSUME NEW n \in Nat, n \in S PROVE n + 1 \in S
  <2>1. SUFFICES ASSUME n + 1 <= Len(s) PROVE g[n + 1] = h[n + 1] OBVIOUS
  <2>2. g[n] = h[n] /\ n + 1 \in 1..Len(s) /\ n + 1 <= Len(t) BY <1>0, <1>2, <2>1
  <2>3. s[n + 1] = t[n + 1] BY <2>2
  <2>4. g[n + 1] = IF s[n + 1] = Declaration THEN g[n] ELSE Append(g[n], s[n + 1])
    BY <2>1, CollectsStep
  <2>5. h[n + 1] = IF t[n + 1] = Declaration THEN h[n] ELSE Append(h[n], t[n + 1])
    BY <2>2, CollectsStep
  <2> QED BY <2>2, <2>3, <2>4, <2>5
<1>3. S \in SUBSET Nat OBVIOUS
<1> HIDE DEF S
<1>4. \A n \in Nat : n \in S BY <1>1, <1>2, <1>3, Induction
<1> QED BY <1>0, <1>4 DEF S

\* One more frame is one more commit, or none.
LEMMA DataAppend ==
    ASSUME NEW s \in Seq(Nat), NEW x \in Nat
    PROVE  Data(Append(s, x)) = IF x = Declaration THEN Data(s) ELSE Append(Data(s), x)
<1> DEFINE t == Append(s, x)
<1>1. /\ t \in Seq(Nat) /\ Len(s) \in Nat /\ Len(t) = Len(s) + 1 /\ t[Len(s) + 1] = x
      /\ \A i \in 1..Len(s) : s[i] = t[i]
  OBVIOUS
<1> HIDE DEF t
<1>2. PICK g : Collects(g, s) /\ Data(s) = g[Len(s)] BY DataIs
<1>3. PICK h : Collects(h, t) /\ Data(t) = h[Len(t)] BY <1>1, DataIs
<1>4. g[Len(s)] = h[Len(s)] BY <1>1, <1>2, <1>3, CollectsAgree
<1>5. h[Len(s) + 1] = IF t[Len(s) + 1] = Declaration THEN h[Len(s)] ELSE Append(h[Len(s)], t[Len(s) + 1])
  BY <1>1, <1>3, CollectsStep
<1>6. Data(t) = IF x = Declaration THEN Data(s) ELSE Append(Data(s), x) BY <1>1, <1>2, <1>3, <1>4, <1>5
<1> QED BY <1>6 DEF t

\* Declarations are no commits.
LEMMA DataNone ==
    ASSUME NEW s \in Seq(Nat), \A i \in 1..Len(s) : s[i] = Declaration
    PROVE  Data(s) = <<>>
<1>1. PICK g : Collects(g, s) /\ Data(s) = g[Len(s)] BY DataIs
<1> DEFINE S == {n \in Nat : n <= Len(s) => g[n] = <<>>}
<1>0. Len(s) \in Nat OBVIOUS
<1>2. 0 \in S
  <2>1. g[0] = <<>> BY <1>1, CollectsStep
  <2> QED BY <2>1
<1>3. ASSUME NEW n \in Nat, n \in S PROVE n + 1 \in S
  <2>1. SUFFICES ASSUME n + 1 <= Len(s) PROVE g[n + 1] = <<>> OBVIOUS
  <2>2. g[n] = <<>> /\ n + 1 \in 1..Len(s) BY <1>0, <1>3, <2>1
  <2>3. s[n + 1] = Declaration BY <2>2
  <2>4. g[n + 1] = IF s[n + 1] = Declaration THEN g[n] ELSE Append(g[n], s[n + 1])
    BY <1>1, <2>1, CollectsStep
  <2> QED BY <2>2, <2>3, <2>4
<1>4. S \in SUBSET Nat OBVIOUS
<1> HIDE DEF S
<1>5. \A n \in Nat : n \in S BY <1>2, <1>3, <1>4, Induction
<1> QED BY <1>0, <1>1, <1>5 DEF S

-----------------------------------------------------------------------------
(* What a snapshot and the rest of a WAL hold.                             *)

\* The frames of w past the first h.
Past(w, h) == SubSeq(w, h + 1, Len(w))

\* Sequences with the same elements are the same.
LEMMA SameSeq ==
    ASSUME NEW S, NEW a \in Seq(S), NEW b \in Seq(S), Len(a) = Len(b), \A i \in 1..Len(a) : a[i] = b[i]
    PROVE  a = b
OBVIOUS

\* What lies past a place of a WAL, and that nothing lies past its end.
LEMMA PastFacts ==
    ASSUME NEW w \in Seq(Nat), NEW h \in Nat
    PROVE  /\ Past(w, h) \in Seq(Nat)
           /\ h <= Len(w) => Len(Past(w, h)) = Len(w) - h
           /\ \A i \in 1..Len(Past(w, h)) : Past(w, h)[i] = w[h + i]
           /\ h = Len(w) => Past(w, h) = <<>>
           /\ (\A i \in 1..Len(w) : w[i] = Declaration) =>
                 \A i \in 1..Len(Past(w, h)) : Past(w, h)[i] = Declaration
<1>0. Len(w) \in Nat /\ h + 1 \in 1..(h + 1) OBVIOUS
<1>1. /\ Past(w, h) \in Seq(Nat)
      /\ Len(Past(w, h)) = IF h + 1 <= Len(w) THEN Len(w) - h ELSE 0
      /\ \A i \in 1..Len(Past(w, h)) : Past(w, h)[i] = w[h + i]
  BY <1>0 DEF Past
<1>2. ASSUME h <= Len(w) PROVE Len(Past(w, h)) = Len(w) - h BY <1>0, <1>1, <1>2
<1>3. ASSUME h = Len(w) PROVE Past(w, h) = <<>>
  <2>1. Len(Past(w, h)) = 0 BY <1>0, <1>1, <1>3
  <2> QED BY <1>1, <2>1
<1>4. ASSUME \A i \in 1..Len(w) : w[i] = Declaration, NEW i \in 1..Len(Past(w, h))
      PROVE  Past(w, h)[i] = Declaration
  <2>1. h + i \in 1..Len(w) BY <1>0, <1>1
  <2> QED BY <1>1, <1>4, <2>1
<1> QED BY <1>1, <1>2, <1>3, <1>4

\* A frame that is appended lies past every place of the WAL.
LEMMA PastAppend ==
    ASSUME NEW w \in Seq(Nat), NEW h \in Nat, h <= Len(w), NEW x \in Nat
    PROVE  Past(Append(w, x), h) = Append(Past(w, h), x)
<1>0. Len(w) \in Nat OBVIOUS
<1> DEFINE v == Append(w, x)
           r == Past(w, h)
           p == Past(v, h)
           q == Append(r, x)
<1>1. v \in Seq(Nat) /\ Len(v) = Len(w) + 1 /\ v[Len(w) + 1] = x /\ \A i \in 1..Len(w) : v[i] = w[i]
  OBVIOUS
<1> HIDE DEF v
<1>2. p \in Seq(Nat) /\ Len(p) = Len(w) + 1 - h /\ \A i \in 1..Len(p) : p[i] = v[h + i]
  <2>1. h <= Len(v) BY <1>0, <1>1
  <2>2. Len(p) = Len(v) - h BY <1>1, <2>1, PastFacts
  <2>3. p \in Seq(Nat) /\ \A i \in 1..Len(p) : p[i] = v[h + i] BY <1>1, PastFacts
  <2> QED BY <1>0, <1>1, <2>2, <2>3
<1>3. r \in Seq(Nat) /\ Len(r) = Len(w) - h /\ \A i \in 1..Len(r) : r[i] = w[h + i]
  BY <1>0, PastFacts
<1> HIDE DEF r, p
<1>4. q \in Seq(Nat) /\ Len(q) = Len(r) + 1 /\ q[Len(r) + 1] = x /\ \A i \in 1..Len(r) : q[i] = r[i]
  BY <1>3
<1> HIDE DEF q
<1>5. ASSUME NEW i \in 1..Len(p) PROVE p[i] = q[i]
  <2>1. CASE i = Len(r) + 1
    <3>1. h + i = Len(w) + 1 BY <1>0, <1>3, <2>1
    <3> QED BY <1>1, <1>2, <1>4, <2>1, <3>1
  <2>2. CASE i # Len(r) + 1
    <3>1. i \in 1..Len(r) /\ h + i \in 1..Len(w) BY <1>0, <1>2, <1>3, <2>2
    <3>2. p[i] = v[h + i] /\ v[h + i] = w[h + i] BY <1>1, <1>2, <3>1
    <3>3. q[i] = r[i] /\ r[i] = w[h + i] BY <1>3, <1>4, <3>1
    <3> QED BY <3>2, <3>3
  <2> QED BY <2>1, <2>2
<1>6. Len(p) = Len(q) BY <1>0, <1>2, <1>3, <1>4
<1>7. p = q BY <1>2, <1>4, <1>5, <1>6, SameSeq
<1> QED BY <1>7 DEF p, q, r, v

\* The state st and the frames of w past h are the first n commits.
Complete(st, w, h, n) == st \o Data(Past(w, h)) = History(n)

\* The history up to the next commit is one commit longer.
LEMMA HistoryFacts ==
    ASSUME NEW n \in Nat
    PROVE  /\ History(n) \in Seq(Nat) /\ Len(History(n)) = n
           /\ History(n + 1) = Append(History(n), n + 1)
           /\ History(0) = <<>>
<1>1. History(n) \in Seq(Nat) /\ Len(History(n)) = n /\ \A i \in 1..n : History(n)[i] = i BY DEF History
<1>2. /\ History(n + 1) \in Seq(Nat) /\ Len(History(n + 1)) = n + 1
      /\ \A i \in 1..(n + 1) : History(n + 1)[i] = i
  BY DEF History
<1> DEFINE a == Append(History(n), n + 1)
<1>3. a \in Seq(Nat) /\ Len(a) = n + 1 /\ \A i \in 1..(n + 1) : a[i] = i BY <1>1
<1> HIDE DEF a
<1>4. History(n + 1) = a BY <1>2, <1>3
<1>5. History(0) = <<>> BY DEF History
<1> QED BY <1>1, <1>4, <1>5 DEF a

\* What is appended to the second of two parts is appended to the whole.
LEMMA AppendJoin ==
    ASSUME NEW a \in Seq(Nat), NEW b \in Seq(Nat), NEW x \in Nat
    PROVE  a \o Append(b, x) = Append(a \o b, x)
<1> DEFINE c == a \o b
<1>1. <<x>> \in Seq(Nat) /\ c \in Seq(Nat) OBVIOUS
<1>2. Append(b, x) = b \o <<x>> BY AppendIsConcat
<1>3. Append(c, x) = c \o <<x>> BY <1>1, AppendIsConcat
<1>4. (a \o b) \o <<x>> = a \o (b \o <<x>>) BY <1>1, ConcatAssociative
<1> QED BY <1>2, <1>3, <1>4

\* A commit that is appended, and a declaration, complete the same state.
LEMMA CompleteAppend ==
    ASSUME NEW st \in Seq(Nat), NEW w \in Seq(Nat), NEW h \in Nat, h <= Len(w), NEW n \in Nat,
           Complete(st, w, h, n)
    PROVE  /\ Complete(st, Append(w, n + 1), h, n + 1)
           /\ Complete(st, Append(w, Declaration), h, n)
<1>1. Data(Past(w, h)) \in Seq(Nat) /\ Past(w, h) \in Seq(Nat) BY PastFacts, DataType
<1>2. /\ Past(Append(w, n + 1), h) = Append(Past(w, h), n + 1)
      /\ Past(Append(w, Declaration), h) = Append(Past(w, h), Declaration)
  BY PastAppend DEF Declaration
<1>3. /\ Data(Append(Past(w, h), n + 1)) = Append(Data(Past(w, h)), n + 1)
      /\ Data(Append(Past(w, h), Declaration)) = Data(Past(w, h))
  <2>1. n + 1 \in Nat /\ n + 1 # Declaration /\ Declaration \in Nat BY DEF Declaration
  <2> QED BY <1>1, <2>1, DataAppend
<1>4. st \o Append(Data(Past(w, h)), n + 1) = Append(st \o Data(Past(w, h)), n + 1)
  <2>1. n + 1 \in Nat OBVIOUS
  <2> QED BY <1>1, <2>1, AppendJoin
<1>5. st \o Append(Data(Past(w, h)), n + 1) = Append(History(n), n + 1) BY <1>4 DEF Complete
<1> QED BY <1>2, <1>3, <1>5, HistoryFacts DEF Complete

\* Nothing past h, or nothing but declarations: the state is complete itself.
LEMMA CompleteAlone ==
    ASSUME NEW st \in Seq(Nat), NEW w \in Seq(Nat), NEW h \in Nat, NEW n \in Nat,
           h = Len(w) \/ \A i \in 1..Len(w) : w[i] = Declaration
    PROVE  Complete(st, w, h, n) <=> st = History(n)
<1>1. Past(w, h) \in Seq(Nat) /\ \A i \in 1..Len(Past(w, h)) : Past(w, h)[i] = Declaration
  <2>1. CASE h = Len(w)
    <3>1. Past(w, h) = <<>> BY <2>1, PastFacts
    <3> QED BY <3>1
  <2>2. CASE \A i \in 1..Len(w) : w[i] = Declaration BY <2>2, PastFacts
  <2> QED BY <2>1, <2>2
<1>2. Data(Past(w, h)) = <<>> BY <1>1, DataNone
<1>3. st \o <<>> = st OBVIOUS
<1> QED BY <1>2, <1>3 DEF Complete

-----------------------------------------------------------------------------
(* Marks.                                                                  *)

\* A mark tells declarations from commits, and where the WAL ends.
LEMMA MatchFacts ==
    ASSUME NEW a \in Seq(Nat), NEW b \in Seq(Nat)
    PROVE  Matches(a, b) <=> /\ Len(a) <= Len(b)
                             /\ \A i \in 1..Len(a) : (a[i] = Declaration) <=> (b[i] = Declaration)
<1>0. Len(a) \in Nat /\ Len(b) \in Nat OBVIOUS
<1>1. /\ Bytes(a) \in Seq(BOOLEAN) /\ Len(Bytes(a)) = Len(a)
      /\ \A i \in 1..Len(a) : Bytes(a)[i] = (a[i] = Declaration)
  BY <1>0 DEF Bytes
<1>2. /\ Bytes(b) \in Seq(BOOLEAN) /\ Len(Bytes(b)) = Len(b)
      /\ \A i \in 1..Len(b) : Bytes(b)[i] = (b[i] = Declaration)
  BY <1>0 DEF Bytes
<1>3. ASSUME Len(a) <= Len(b)
      PROVE  /\ SubSeq(Bytes(a), 1, Len(a)) \in Seq(BOOLEAN) /\ Len(SubSeq(Bytes(a), 1, Len(a))) = Len(a)
             /\ \A i \in 1..Len(a) : SubSeq(Bytes(a), 1, Len(a))[i] = (a[i] = Declaration)
             /\ SubSeq(Bytes(b), 1, Len(a)) \in Seq(BOOLEAN) /\ Len(SubSeq(Bytes(b), 1, Len(a))) = Len(a)
             /\ \A i \in 1..Len(a) : SubSeq(Bytes(b), 1, Len(a))[i] = (b[i] = Declaration)
  BY <1>0, <1>1, <1>2, <1>3
<1>4. ASSUME Len(a) <= Len(b)
      PROVE  SubSeq(Bytes(a), 1, Len(a)) = SubSeq(Bytes(b), 1, Len(a)) <=>
                \A i \in 1..Len(a) : (a[i] = Declaration) <=> (b[i] = Declaration)
  <2> DEFINE p == SubSeq(Bytes(a), 1, Len(a))
             q == SubSeq(Bytes(b), 1, Len(a))
  <2>1. /\ p \in Seq(BOOLEAN) /\ Len(p) = Len(a) /\ \A i \in 1..Len(a) : p[i] = (a[i] = Declaration)
        /\ q \in Seq(BOOLEAN) /\ Len(q) = Len(a) /\ \A i \in 1..Len(a) : q[i] = (b[i] = Declaration)
    BY <1>3, <1>4
  <2> HIDE DEF p, q
  <2>2. ASSUME p = q, NEW i \in 1..Len(a) PROVE (a[i] = Declaration) <=> (b[i] = Declaration)
    BY <2>1, <2>2
  <2>3. ASSUME \A i \in 1..Len(a) : (a[i] = Declaration) <=> (b[i] = Declaration) PROVE p = q
    <3>1. ASSUME NEW i \in 1..Len(a) PROVE p[i] = q[i]
      <4>1. (a[i] = Declaration) <=> (b[i] = Declaration) BY <2>3
      <4>2. p[i] = (a[i] = Declaration) /\ q[i] = (b[i] = Declaration) BY <2>1
      <4> QED BY <4>1, <4>2
    <3>2. \A i \in 1..Len(p) : p[i] = q[i] BY <2>1, <3>1
    <3> QED BY <2>1, <3>2, SameSeq
  <2>4. p = q <=> \A i \in 1..Len(a) : (a[i] = Declaration) <=> (b[i] = Declaration) BY <2>2, <2>3
  <2> QED BY <2>4 DEF p, q
<1> QED BY <1>1, <1>2, <1>4 DEF Matches, IsPrefix

\* A WAL matches its own mark, and goes on matching as it grows.
LEMMA MatchGrows ==
    ASSUME NEW a \in Seq(Nat), NEW b \in Seq(Nat), NEW x \in Nat
    PROVE  /\ Matches(a, a)
           /\ Matches(a, b) => Matches(a, Append(b, x)) /\ Len(a) <= Len(b)
           /\ Len(a) <= Len(b) /\ a = SubSeq(b, 1, Len(a)) => Matches(a, b)
<1>1. Matches(a, a) BY MatchFacts
<1>2. ASSUME Matches(a, b) PROVE Matches(a, Append(b, x)) /\ Len(a) <= Len(b)
  <2> DEFINE c == Append(b, x)
  <2>1. c \in Seq(Nat) /\ Len(c) = Len(b) + 1 /\ \A i \in 1..Len(b) : c[i] = b[i] OBVIOUS
  <2> HIDE DEF c
  <2>2. Len(a) <= Len(b) /\ \A i \in 1..Len(a) : (a[i] = Declaration) <=> (b[i] = Declaration)
    BY <1>2, MatchFacts
  <2>3. ASSUME NEW i \in 1..Len(a) PROVE (a[i] = Declaration) <=> (c[i] = Declaration)
    <3>1. i \in 1..Len(b) BY <2>2
    <3> QED BY <2>1, <2>2, <3>1
  <2>4. Len(a) <= Len(c) BY <2>1, <2>2
  <2>5. Matches(a, c) BY <2>1, <2>3, <2>4, MatchFacts
  <2> QED BY <2>2, <2>5 DEF c
<1>3. ASSUME Len(a) <= Len(b), a = SubSeq(b, 1, Len(a)) PROVE Matches(a, b)
  <2>1. ASSUME NEW i \in 1..Len(a) PROVE a[i] = b[i]
    <3>1. SubSeq(b, 1, Len(a))[i] = b[i] BY <1>3
    <3> QED BY <1>3, <3>1
  <2> QED BY <1>3, <2>1, MatchFacts
<1> QED BY <1>1, <1>2, <1>3

-----------------------------------------------------------------------------
(* The inductive invariant.                                                *)

Snapshots == [exists : BOOLEAN, state : Seq(Nat), mark : Seq(Nat) \cup {None},
              truncated : BOOLEAN, decl : BOOLEAN]
Intents   == [snapshot : Snapshots, wal : Seq(Nat)]

TypeInv ==
    /\ wal \in Seq(Nat) /\ state \in Seq(Nat) /\ made \in Nat
    /\ snapshot \in Snapshots /\ buf \in Snapshots /\ intent \in Seq(Intents)
    /\ declared \in BOOLEAN /\ intent_unsettled \in BOOLEAN
    /\ kind \in {"archive", "keep", "truncate"}

Records(file)  == {file[i] : i \in 1..Len(file)}
AllDeclared(w) == \A i \in 1..Len(w) : w[i] = Declaration

\* What an open applies completes the snapshot: the frames past the snapshot's
\* own mark, past an intent that stands, or all of them.
DiskInv ==
    /\ \A r \in Records(intent) :
          /\ r.snapshot.mark = None
          /\ Stands(r) => Complete(snapshot.state, wal, Len(r.wal), made)
    /\ snapshot.mark = None /\ (\A r \in Records(intent) : ~Stands(r)) =>
          Complete(snapshot.state, wal, 0, made)
    /\ snapshot.mark # None =>
          /\ Len(snapshot.mark) <= Len(wal) /\ snapshot.mark = SubSeq(wal, 1, Len(snapshot.mark))
          /\ Complete(snapshot.state, wal, Len(snapshot.mark), made)

\* The handle holds the history.  If it need not settle, no record of the
\* intent file that names the snapshot waits for the WAL to match it.
HandleInv ==
    pc # "down" =>
    /\ state = History(made)
    /\ ~intent_unsettled => \A r \in Records(intent) : r.snapshot = snapshot => Matches(r.wal, wal)

\* The steps after the snapshot was written, and those after the WAL was replaced.
Written  == {"archive", "baseline", "prune", "floor", "marker", "delete", "cut", "cutFloor",
             "cutWal", "finish"}
Replaced == {"baseline", "prune", "floor", "marker", "delete", "finish"}

\* What a snapshot has done so far: it is encoded; the intent file holds it and
\* an intent that stood; it is written; the WAL is replaced.
StepInv ==
    /\ pc \in {"begun", "intended"} =>
          buf.state = state /\ buf.mark = IF kind = "keep" THEN wal ELSE None
    /\ pc = "intended" /\ Replaces =>
          /\ intent_unsettled /\ [snapshot |-> buf, wal |-> wal] \in Records(intent)
          /\ \A r \in Records(intent) : Complete(r.snapshot.state, wal, Len(r.wal), made)
    /\ pc \in Written => snapshot.state = state
    /\ pc \in Written \ {"finish"} => Replaces
    /\ pc \in Written /\ Replaces => intent_unsettled /\ snapshot.mark = None
    /\ pc \in Replaced /\ Replaces => AllDeclared(wal)

IInv == TypeInv /\ DiskInv /\ HandleInv /\ StepInv

\* A declaration is in the snapshot or in the WAL, and in the handle's encoding.
DeclaredInv ==
    enabled => /\ snapshot.decl \/ Declaration \in Range(wal)
               /\ pc # "down" => declared
               /\ pc \in {"begun", "intended"} => buf.decl
               /\ pc \in Written => snapshot.decl

USE DEF files, handle, taking, past, rest, fixed

-----------------------------------------------------------------------------
(* Opening.                                                                *)

\* The record that stands, if any, is one of the file.
LEMMA StandingFacts ==
    ASSUME TypeInv
    PROVE  /\ StandingIntent \in Seq(Intents)
           /\ \A r \in Records(StandingIntent) : r \in Records(intent) /\ Stands(r)
           /\ StandingIntent = <<>> => \A r \in Records(intent) : ~Stands(r)
           /\ StandingIntent # <<>> => StandingIntent[1] \in Records(StandingIntent)
           /\ ~LeftOver => \A r \in Records(intent) : Stands(r)
<1> DEFINE S == {i \in 1..Len(intent) : Stands(intent[i])}
<1>0. intent \in Seq(Intents) /\ Len(intent) \in Nat BY DEF TypeInv
<1>1. CASE S = {}
  <2>1. StandingIntent = <<>> BY <1>1 DEF StandingIntent
  <2>2. \A r \in Records(intent) : ~Stands(r) BY <1>1 DEF Records
  <2>3. <<>> \in Seq(Intents) /\ Len(<<>>) = 0 /\ Records(<<>>) = {} BY DEF Records
  <2>4. ~LeftOver => Len(intent) = 0 BY <2>1, <2>3 DEF LeftOver
  <2>5. Len(intent) = 0 => Records(intent) = {} BY <1>0 DEF Records
  <2> QED BY <2>1, <2>2, <2>3, <2>4, <2>5
<1>2. CASE S # {}
  <2>1. S \in SUBSET Nat BY <1>0
  <2>2. \E x \in S : \A y \in S : x <= y BY <1>2, <2>1, LeastOf
  <2>3. Min(S) \in S BY <2>2 DEF Min
  <2>4. PICK j \in S : j = Min(S) BY <2>3
  <2>5. StandingIntent = <<intent[j]>> BY <1>2, <2>4 DEF StandingIntent
  <2>6. intent[j] \in Intents /\ intent[j] \in Records(intent) /\ Stands(intent[j])
    <3>1. j \in 1..Len(intent) /\ Stands(intent[j]) BY <2>4
    <3>2. intent[j] \in Intents BY <1>0, <3>1
    <3> QED BY <3>1, <3>2 DEF Records
  <2>7. /\ StandingIntent \in Seq(Intents) /\ Len(StandingIntent) = 1 /\ StandingIntent[1] = intent[j]
        /\ StandingIntent # <<>>
    BY <2>5, <2>6
  <2>8. Records(StandingIntent) = {intent[j]} BY <2>7 DEF Records
  <2>9. ASSUME ~LeftOver PROVE \A r \in Records(intent) : Stands(r)
    <3>1. Len(intent) = 1 BY <2>7, <2>9 DEF LeftOver
    <3>2. j = 1 BY <2>4, <3>1
    <3>3. Records(intent) = {intent[1]} BY <3>1 DEF Records
    <3> QED BY <2>6, <3>2, <3>3
  <2> QED BY <2>6, <2>7, <2>8, <2>9
<1> QED BY <1>1, <1>2

\* What is on disk opens as the whole history.
LEMMA OpensWhole == ASSUME TypeInv, DiskInv PROVE LoadedState = History(made) /\ LoadedState \in Seq(Nat)
<1>0. wal \in Seq(Nat) /\ snapshot \in Snapshots /\ made \in Nat BY DEF TypeInv
<1>1. Complete(snapshot.state, wal, Held, made)
  <2>1. CASE snapshot.mark # None
    <3>1. snapshot.mark \in Seq(Nat) BY <1>0, <2>1 DEF Snapshots
    <3>2. Matches(snapshot.mark, wal) BY <1>0, <2>1, <3>1, MatchGrows DEF DiskInv
    <3>3. Held = Len(snapshot.mark) BY <2>1, <3>2 DEF Held
    <3> QED BY <2>1, <3>3 DEF DiskInv
  <2>2. CASE snapshot.mark = None /\ StandingIntent # <<>>
    <3>1. StandingIntent[1] \in Records(intent) /\ Stands(StandingIntent[1]) BY <2>2, StandingFacts
    <3>2. Held = Len(StandingIntent[1].wal) BY <2>2 DEF Held
    <3> QED BY <3>1, <3>2 DEF DiskInv
  <2>3. CASE snapshot.mark = None /\ StandingIntent = <<>>
    <3>1. \A r \in Records(intent) : ~Stands(r) BY <2>3, StandingFacts
    <3>2. Held = 0 BY <2>3 DEF Held
    <3> QED BY <2>3, <3>1, <3>2 DEF DiskInv
  <2> QED BY <2>1, <2>2, <2>3
<1>2. LoadedState = History(made) BY <1>1 DEF Complete, Past, LoadedState
<1> QED BY <1>0, <1>2, HistoryFacts

\* Steps that leave the snapshot, the WAL and the intent alone.
LEMMA DiskSame ==
    ASSUME DiskInv, UNCHANGED <<wal, snapshot, intent, made>> PROVE DiskInv'
BY DEF DiskInv, Stands, Complete, Records

\* A load leaves the history in the handle, and says what is to be settled.
LEMMA LoadKeeps ==
    ASSUME IInv, Load, UNCHANGED <<wal, snapshot, intent, made, kind, buf>>, pc' = "open"
    PROVE  IInv'
<1>0. TypeInv /\ DiskInv BY DEF IInv
<1>1. state' = History(made) /\ state' \in Seq(Nat) BY <1>0, OpensWhole DEF Load
<1>2. TypeInv'
  <2>1. declared' \in BOOLEAN /\ intent_unsettled' \in BOOLEAN BY DEF Load, LoadedDeclared, LeftOver
  <2> QED BY <1>0, <1>1, <2>1 DEF TypeInv
<1>3. DiskInv' BY <1>0, DiskSame
<1>4. HandleInv'
  <2>1. ASSUME ~intent_unsettled', NEW r \in Records(intent'), r.snapshot = snapshot'
        PROVE  Matches(r.wal, wal')
    <3>1. ~LeftOver /\ Records(intent') = Records(intent) BY <2>1 DEF Load
    <3>2. Stands(r) BY <1>0, <2>1, <3>1, StandingFacts
    <3> QED BY <3>2 DEF Stands
  <2> QED BY <1>1, <2>1 DEF HandleInv
<1>5. StepInv' BY DEF StepInv, Written, Replaced
<1> QED BY <1>2, <1>3, <1>4, <1>5 DEF IInv

\* A crash or an error leaves the files and the handle as they are.
LEMMA StopKeeps ==
    ASSUME IInv, pc # "down", pc' \in {"down", "open"},
           UNCHANGED <<wal, snapshot, intent, made, kind, buf, state, declared, intent_unsettled>>
    PROVE  IInv'
<1>1. TypeInv' BY DEF IInv, TypeInv
<1>2. DiskInv' BY DiskSame DEF IInv
<1>3. HandleInv' BY DEF IInv, HandleInv, Records
<1>4. StepInv' BY DEF StepInv, Written, Replaced
<1> QED BY <1>1, <1>2, <1>3, <1>4 DEF IInv

\* Settling leaves the record that stands.
LEMMA SettleKeeps == ASSUME IInv, Settle PROVE IInv'
<1>0. TypeInv /\ DiskInv BY DEF IInv
<1>1. /\ intent' = StandingIntent /\ pc = "open" /\ pc' = "open" /\ intent_unsettled' = FALSE
      /\ UNCHANGED <<wal, snapshot, made, kind, buf, state, declared>>
  BY DEF Settle, Entered
<1>2. TypeInv' BY <1>0, <1>1, StandingFacts DEF TypeInv
<1>3. \A r \in Records(intent') : r \in Records(intent) /\ Stands(r) BY <1>0, <1>1, StandingFacts
<1>4. (\A r \in Records(intent') : ~Stands(r)) => \A r \in Records(intent) : ~Stands(r)
  BY <1>0, <1>1, StandingFacts
<1>5. \A r : Stands(r)' <=> Stands(r) BY <1>1 DEF Stands
<1>6. DiskInv' BY <1>0, <1>1, <1>3, <1>4, <1>5 DEF DiskInv, Complete
<1>7. HandleInv' BY <1>0, <1>1, <1>3 DEF IInv, HandleInv, Stands
<1>8. StepInv' BY <1>1 DEF StepInv, Written, Replaced
<1> QED BY <1>2, <1>6, <1>7, <1>8 DEF IInv

-----------------------------------------------------------------------------
(* Writes.                                                                 *)

\* A frame is appended.  A record that stood goes on standing, and none comes to.
LEMMA AppendKeeps ==
    ASSUME IInv, pc = "open", pc' = "open", ~intent_unsettled, NEW x \in Nat, wal' = Append(wal, x),
           \/ x = made + 1 /\ made' = made + 1 /\ state' = Append(state, x)
           \/ x = Declaration /\ made' = made /\ state' = state,
           UNCHANGED <<snapshot, intent, kind, buf, intent_unsettled>>, declared' \in BOOLEAN
    PROVE  IInv'
<1>0. /\ TypeInv /\ DiskInv /\ HandleInv
      /\ wal \in Seq(Nat) /\ made \in Nat /\ snapshot \in Snapshots /\ intent \in Seq(Intents)
      /\ snapshot.state \in Seq(Nat) /\ state = History(made)
  BY DEF IInv, TypeInv, Snapshots, HandleInv
<1>1. /\ wal' \in Seq(Nat) /\ Len(wal) \in Nat /\ Len(wal') = Len(wal) + 1
      /\ \A i \in 1..Len(wal) : wal'[i] = wal[i]
  BY <1>0
<1>2. state' = History(made') /\ made' \in Nat /\ state' \in Seq(Nat) BY <1>0, HistoryFacts
<1>3. TypeInv' BY <1>0, <1>1, <1>2 DEF TypeInv
<1>4. ASSUME NEW h \in Nat, h <= Len(wal), Complete(snapshot.state, wal, h, made)
      PROVE  Complete(snapshot.state, wal', h, made')
  BY <1>0, <1>4, CompleteAppend
<1>5. ASSUME NEW r \in Records(intent)
      PROVE  /\ r \in Intents /\ r.wal \in Seq(Nat) /\ Len(r.wal) \in Nat
             /\ Matches(r.wal, wal) => Matches(r.wal, wal') /\ Len(r.wal) <= Len(wal)
             /\ r.snapshot = snapshot => Matches(r.wal, wal)
             /\ Stands(r)' <=> Stands(r)
  <2>1. r \in Intents BY <1>0 DEF Records
  <2>2. r.wal \in Seq(Nat) BY <2>1 DEF Intents
  <2>3. Matches(r.wal, wal) => Matches(r.wal, wal') /\ Len(r.wal) <= Len(wal) BY <1>0, <2>2, MatchGrows
  <2>4. r.snapshot = snapshot => Matches(r.wal, wal) BY <1>0 DEF HandleInv
  <2>5. Stands(r)' <=> Stands(r) BY <2>3, <2>4 DEF Stands
  <2> QED BY <2>1, <2>2, <2>3, <2>4, <2>5
<1>6. Records(intent') = Records(intent) OBVIOUS
<1>7. DiskInv'
  <2>1. ASSUME NEW r \in Records(intent'), Stands(r)'
        PROVE  Complete(snapshot.state, wal, Len(r.wal), made)'
    <3>1. Stands(r) /\ Len(r.wal) \in Nat /\ Len(r.wal) <= Len(wal) BY <1>5, <1>6, <2>1 DEF Stands
    <3>2. Complete(snapshot.state, wal, Len(r.wal), made) BY <1>0, <1>6, <3>1 DEF DiskInv
    <3> QED BY <1>4, <3>1, <3>2
  <2>2. ASSUME snapshot.mark = None, \A r \in Records(intent') : ~Stands(r)'
        PROVE  Complete(snapshot.state, wal, 0, made)'
    <3>1. \A r \in Records(intent) : ~Stands(r) BY <1>5, <1>6, <2>2
    <3>2. Complete(snapshot.state, wal, 0, made) BY <1>0, <2>2, <3>1 DEF DiskInv
    <3> QED BY <1>1, <1>4, <3>2
  <2>3. ASSUME snapshot.mark # None
        PROVE  /\ Len(snapshot.mark) <= Len(wal') /\ snapshot.mark = SubSeq(wal', 1, Len(snapshot.mark))
               /\ Complete(snapshot.state, wal, Len(snapshot.mark), made)'
    <3> DEFINE k == Len(snapshot.mark)
    <3>1. k \in Nat /\ k <= Len(wal) /\ snapshot.mark = SubSeq(wal, 1, k)
          /\ Complete(snapshot.state, wal, k, made)
      BY <1>0, <2>3 DEF DiskInv, Snapshots
    <3>2. SubSeq(wal', 1, k) = SubSeq(wal, 1, k)
      <4> DEFINE p == SubSeq(wal, 1, k)
                 q == SubSeq(wal', 1, k)
      <4>1. p \in Seq(Nat) /\ Len(p) = k /\ \A i \in 1..k : p[i] = wal[i] BY <1>0, <3>1
      <4>2. q \in Seq(Nat) /\ Len(q) = k /\ \A i \in 1..k : q[i] = wal'[i] BY <1>1, <3>1
      <4>3. \A i \in 1..k : wal'[i] = wal[i] BY <1>1, <3>1
      <4> HIDE DEF p, q
      <4>4. \A i \in 1..Len(p) : p[i] = q[i] BY <4>1, <4>2, <4>3
      <4>5. p = q BY <4>1, <4>2, <4>4, SameSeq
      <4> QED BY <4>5 DEF p, q
    <3>3. k <= Len(wal') BY <1>1, <3>1
    <3>4. Complete(snapshot.state, wal', k, made') BY <1>4, <3>1
    <3> QED BY <3>1, <3>2, <3>3, <3>4
  <2>4. \A r \in Records(intent') : r.snapshot.mark = None BY <1>0, <1>6 DEF DiskInv
  <2> QED BY <2>1, <2>2, <2>3, <2>4 DEF DiskInv
<1>8. HandleInv' BY <1>2, <1>5, <1>6 DEF HandleInv
<1>9. StepInv' BY DEF StepInv, Written, Replaced
<1> QED BY <1>3, <1>7, <1>8, <1>9 DEF IInv

\* log_then_apply_with and enable_index append a frame of the two kinds.
LEMMA WritesKeep == ASSUME IInv, Commit \/ Declare PROVE IInv'
<1>0. made \in Nat /\ declared \in BOOLEAN BY DEF IInv, TypeInv
<1>1. CASE Commit
  <2>1. /\ pc = "open" /\ pc' = "open" /\ ~intent_unsettled /\ made' = made + 1
        /\ wal' = Append(wal, made + 1) /\ state' = Append(state, made + 1)
        /\ UNCHANGED <<snapshot, intent, kind, buf, intent_unsettled, declared>>
    BY <1>1 DEF Commit, Append1, Entered
  <2>2. made + 1 \in Nat BY <1>0
  <2> QED BY <1>0, <2>1, <2>2, AppendKeeps
<1>2. CASE Declare
  <2>1. /\ pc = "open" /\ pc' = "open" /\ ~intent_unsettled /\ made' = made
        /\ wal' = Append(wal, Declaration) /\ state' = state /\ declared' = TRUE
        /\ UNCHANGED <<snapshot, intent, kind, buf, intent_unsettled>>
    BY <1>2 DEF Declare, Append1, Entered
  <2>2. Declaration \in Nat BY DEF Declaration
  <2> QED BY <2>1, <2>2, AppendKeeps
<1> QED BY <1>1, <1>2

-----------------------------------------------------------------------------
(* The steps of a snapshot.                                                *)

\* A snapshot begins: what it will write is the handle's state.
LEMMA BeginKeeps == ASSUME IInv, NEW k \in Kinds, SnapshotBegins(k) PROVE IInv'
<1>0. TypeInv /\ DiskInv /\ HandleInv /\ k \in {"archive", "keep", "truncate"}
  BY SnapshotBounds DEF IInv
<1>1. /\ pc = "open" /\ pc' = "begun" /\ kind' = k
      /\ buf' = [exists |-> TRUE, state |-> state, mark |-> IF k = "keep" THEN wal ELSE None,
                 truncated |-> k # "keep", decl |-> declared]
      /\ UNCHANGED <<wal, snapshot, intent, made, state, declared, intent_unsettled>>
  BY DEF SnapshotBegins, Entered
<1>2. buf' \in Snapshots /\ buf'.state = state /\ buf'.mark = IF k = "keep" THEN wal ELSE None
  <2>1. state \in Seq(Nat) /\ wal \in Seq(Nat) /\ declared \in BOOLEAN BY <1>0 DEF TypeInv
  <2> QED BY <1>1, <2>1 DEF Snapshots
<1>3. TypeInv' BY <1>0, <1>1, <1>2 DEF TypeInv
<1>4. DiskInv' BY <1>0, <1>1, DiskSame
<1>5. HandleInv' BY <1>0, <1>1 DEF HandleInv, Records
<1>6. StepInv' BY <1>1, <1>2 DEF StepInv, Written, Replaced
<1> QED BY <1>3, <1>4, <1>5, <1>6 DEF IInv

\* The intent goes in ahead of the snapshot, beside the one that stands.
LEMMA IntentKeeps == ASSUME IInv, WriteIntent PROVE IInv'
<1>0. /\ TypeInv /\ DiskInv /\ HandleInv /\ StepInv
      /\ wal \in Seq(Nat) /\ buf \in Snapshots /\ made \in Nat /\ snapshot \in Snapshots
  BY DEF IInv, TypeInv
<1>1. /\ pc = "begun" /\ pc' = "intended"
      /\ UNCHANGED <<wal, snapshot, made, kind, buf, state, declared>>
  BY DEF WriteIntent
<1>2. buf.state = state /\ state = History(made) /\ buf.mark = IF kind = "keep" THEN wal ELSE None
  BY <1>0, <1>1 DEF StepInv, HandleInv
<1>3. CASE ~Replaces
  <2>1. UNCHANGED <<intent, intent_unsettled>> /\ ~Replaces' BY <1>1, <1>3 DEF WriteIntent, Replaces
  <2>2. TypeInv' BY <1>0, <1>1, <2>1 DEF TypeInv
  <2>3. DiskInv' BY <1>0, <1>1, <2>1, DiskSame
  <2>4. HandleInv' BY <1>0, <1>1, <2>1 DEF HandleInv, Records
  <2>5. StepInv' BY <1>1, <1>2, <2>1 DEF StepInv, Written, Replaced
  <2> QED BY <2>2, <2>3, <2>4, <2>5 DEF IInv
<1>4. CASE Replaces
  <2> DEFINE new == [snapshot |-> buf, wal |-> wal]
  <2>1. intent' = <<new>> \o StandingIntent /\ intent_unsettled' = TRUE
    BY <1>4 DEF WriteIntent, IntentFile
  <2>2. new \in Intents /\ new.snapshot = buf /\ new.wal = wal BY <1>0 DEF Intents
  <2> HIDE DEF new
  <2>3. StandingIntent \in Seq(Intents) BY <1>0, StandingFacts
  <2>4. /\ intent' \in Seq(Intents) /\ Len(intent') = 1 + Len(StandingIntent) /\ intent'[1] = new
        /\ \A i \in 1..Len(intent') : i # 1 => i - 1 \in 1..Len(StandingIntent)
                                               /\ intent'[i] = StandingIntent[i - 1]
        /\ \A i \in 1..Len(StandingIntent) : i + 1 \in 1..Len(intent')
                                               /\ intent'[i + 1] = StandingIntent[i]
    BY <2>1, <2>2, <2>3
  <2>5. Records(intent') = {new} \cup Records(StandingIntent)
    <3>1. ASSUME NEW r \in Records(intent') PROVE r = new \/ r \in Records(StandingIntent)
      BY <2>4 DEF Records
    <3>2. new \in Records(intent')
      <4>1. 1 \in 1..Len(intent') BY <2>3, <2>4
      <4> QED BY <2>4, <4>1 DEF Records
    <3>3. ASSUME NEW r \in Records(StandingIntent) PROVE r \in Records(intent')
      BY <2>4 DEF Records
    <3> QED BY <3>1, <3>2, <3>3
  <2>6. TypeInv' BY <1>0, <1>1, <2>1, <2>4 DEF TypeInv
  <2>7. \A r : Stands(r)' <=> Stands(r) BY <1>1 DEF Stands
  <2>8. buf.mark = None BY <1>2, <1>4 DEF Replaces
  <2>9. buf.state \in Seq(Nat) /\ Complete(buf.state, wal, Len(wal), made)
    <3>1. buf.state \in Seq(Nat) /\ Len(wal) \in Nat BY <1>0 DEF Snapshots
    <3> QED BY <1>0, <1>2, <3>1, CompleteAlone
  <2>10. \A r \in Records(StandingIntent) : r \in Records(intent) /\ Stands(r) BY <1>0, StandingFacts
  <2>11. ASSUME NEW r \in Records(intent')
         PROVE  r.snapshot.mark = None /\ Complete(r.snapshot.state, wal, Len(r.wal), made)
    <3>1. CASE r = new BY <2>2, <2>8, <2>9, <3>1
    <3>2. CASE r \in Records(StandingIntent)
      <4>1. r \in Records(intent) /\ Stands(r) BY <2>10, <3>2
      <4> QED BY <1>0, <4>1 DEF DiskInv, Stands
    <3> QED BY <2>5, <3>1, <3>2
  <2>12. DiskInv'
    <3>1. ASSUME NEW r \in Records(intent')
          PROVE  r.snapshot.mark = None /\ (Stands(r) => Complete(snapshot.state, wal, Len(r.wal), made))
      BY <2>11 DEF Stands
    <3>2. ASSUME \A r \in Records(intent') : ~Stands(r) PROVE \A r \in Records(intent) : ~Stands(r)
      <4>1. StandingIntent = <<>> BY <1>0, <2>5, <2>10, <3>2, StandingFacts
      <4> QED BY <1>0, <4>1, StandingFacts
    <3> QED BY <1>0, <1>1, <2>7, <3>1, <3>2 DEF DiskInv, Complete
  <2>13. HandleInv' BY <1>1, <1>2, <2>1 DEF HandleInv
  <2>14. StepInv'
    <3>1. [snapshot |-> buf, wal |-> wal]' \in Records(intent') BY <1>1, <2>5 DEF new
    <3>2. \A r \in Records(intent') : Complete(r.snapshot.state, wal', Len(r.wal), made')
      BY <1>1, <2>11
    <3> QED BY <1>1, <1>2, <2>1, <3>1, <3>2 DEF StepInv, Written, Replaced
  <2> QED BY <2>6, <2>12, <2>13, <2>14 DEF IInv
<1> QED BY <1>3, <1>4

\* The snapshot is written: it holds the history itself.
LEMMA SnapshotKeeps == ASSUME IInv, WriteSnapshot PROVE IInv'
<1>0. /\ TypeInv /\ DiskInv /\ HandleInv /\ StepInv
      /\ wal \in Seq(Nat) /\ Len(wal) \in Nat /\ buf \in Snapshots /\ made \in Nat
      /\ intent \in Seq(Intents) /\ buf.state \in Seq(Nat)
  BY DEF IInv, TypeInv, Snapshots
<1>1. /\ pc = "intended" /\ snapshot' = buf
      /\ pc' = IF kind = "archive" THEN "archive" ELSE IF kind = "keep" THEN "finish" ELSE "cut"
      /\ UNCHANGED <<wal, intent, made, kind, buf, state, declared, intent_unsettled>>
  BY DEF WriteSnapshot
<1>2. buf.state = state /\ state = History(made) /\ buf.mark = IF kind = "keep" THEN wal ELSE None
  BY <1>0, <1>1 DEF StepInv, HandleInv
<1>3. TypeInv' BY <1>0, <1>1 DEF TypeInv
<1>4. Records(intent') = Records(intent) BY <1>1
<1>5. \A r \in Records(intent) : r \in Intents /\ r.wal \in Seq(Nat) /\ r.snapshot.mark = None
  <2>1. ASSUME NEW r \in Records(intent) PROVE r \in Intents
    <3>1. PICK i \in 1..Len(intent) : r = intent[i] BY DEF Records
    <3> QED BY <1>0, <3>1
  <2> QED BY <1>0, <2>1 DEF Intents, DiskInv
<1>6. Complete(buf.state, wal, Len(wal), made) BY <1>0, <1>2, CompleteAlone
<1>7. CASE kind = "keep"
  <2>1. buf.mark = wal /\ wal # None BY <1>0, <1>2, <1>7, SnapshotBounds
  <2>2. \A r \in Records(intent) : r.snapshot # buf BY <1>5, <2>1
  <2>3. wal = SubSeq(wal, 1, Len(wal))
    <3> DEFINE q == SubSeq(wal, 1, Len(wal))
    <3>1. q \in Seq(Nat) /\ Len(q) = Len(wal) /\ \A i \in 1..Len(wal) : q[i] = wal[i] BY <1>0
    <3> HIDE DEF q
    <3>2. q = wal BY <1>0, <3>1, SameSeq
    <3> QED BY <3>2 DEF q
  <2>4. Len(wal) <= Len(wal) BY <1>0
  <2>5. snapshot'.mark = wal' /\ snapshot'.mark # None /\ snapshot'.state = buf.state BY <1>1, <2>1
  <2>6. \A r \in Records(intent') : ~Stands(r)' /\ r.snapshot # snapshot' BY <1>1, <1>4, <2>2 DEF Stands
  <2>7. DiskInv' BY <1>1, <1>4, <1>5, <1>6, <2>3, <2>4, <2>5, <2>6 DEF DiskInv
  <2>8. HandleInv' BY <1>1, <1>2, <2>6 DEF HandleInv
  <2>9. StepInv' BY <1>1, <1>2, <1>7 DEF StepInv, Written, Replaced, Replaces
  <2> QED BY <1>3, <2>7, <2>8, <2>9 DEF IInv
<1>8. CASE kind # "keep"
  <2>1. buf.mark = None /\ Replaces BY <1>2, <1>8 DEF Replaces
  <2>2. /\ intent_unsettled /\ [snapshot |-> buf, wal |-> wal] \in Records(intent)
        /\ \A r \in Records(intent) : Complete(r.snapshot.state, wal, Len(r.wal), made)
    BY <1>0, <1>1, <2>1 DEF StepInv
  <2>3. Stands([snapshot |-> buf, wal |-> wal])'
    <3>1. Matches(wal, wal) BY <1>0, MatchGrows DEF Declaration
    <3> QED BY <1>1, <3>1 DEF Stands
  <2>4. \A r \in Records(intent) : Stands(r)' => Complete(buf.state, wal, Len(r.wal), made)
    BY <1>1, <2>2 DEF Stands
  <2>5. DiskInv' BY <1>1, <1>4, <1>5, <2>1, <2>2, <2>3, <2>4 DEF DiskInv
  <2>6. HandleInv' BY <1>1, <1>2, <2>2 DEF HandleInv
  <2>7. pc' \in {"archive", "cut"} BY <1>1, <1>8
  <2>8. StepInv' BY <1>1, <1>2, <2>1, <2>2, <2>7 DEF StepInv, Written, Replaced, Replaces
  <2> QED BY <1>3, <2>5, <2>6, <2>8 DEF IInv
<1> QED BY <1>7, <1>8

\* The WAL is replaced by one without commits.
LEMMA ReplaceKeeps ==
    ASSUME IInv, pc \in Written, Replaces, pc' \in Replaced,
           wal' \in Seq(Nat), AllDeclared(wal'),
           UNCHANGED <<snapshot, intent, made, kind, buf, state, declared, intent_unsettled>>
    PROVE  IInv'
<1>0. /\ TypeInv /\ DiskInv /\ HandleInv /\ StepInv /\ pc # "down" /\ snapshot \in Snapshots
      /\ made \in Nat /\ intent \in Seq(Intents) /\ snapshot.state \in Seq(Nat)
  BY DEF IInv, TypeInv, Written, Snapshots
<1>1. /\ snapshot.state = History(made) /\ state = History(made) /\ intent_unsettled
      /\ snapshot.mark = None /\ snapshot.state = state
  BY <1>0 DEF StepInv, HandleInv
<1>2. \A h \in Nat : Complete(snapshot.state, wal', h, made)
  BY <1>0, <1>1, CompleteAlone DEF AllDeclared
<1>3. \A r \in Records(intent) : Len(r.wal) \in Nat /\ r.snapshot.mark = None
  BY <1>0 DEF Records, Intents, DiskInv
<1>4. Records(intent') = Records(intent) OBVIOUS
<1>5. TypeInv' BY <1>0 DEF TypeInv
<1>6. DiskInv' BY <1>1, <1>2, <1>3, <1>4 DEF DiskInv
<1>7. HandleInv' BY <1>1 DEF HandleInv
<1>8. StepInv' BY <1>1 DEF StepInv, Written, Replaced, Replaces
<1> QED BY <1>5, <1>6, <1>7, <1>8 DEF IInv

\* Steps about archives, the floor and the marker.
LEMMA QuietKeeps ==
    ASSUME IInv, pc \in Written, Replaces, pc' \in Written,
           pc' \in Replaced => pc \in Replaced,
           UNCHANGED <<wal, snapshot, intent, made, kind, buf, state, declared, intent_unsettled>>
    PROVE  IInv'
<1>1. TypeInv' BY DEF IInv, TypeInv
<1>2. DiskInv' BY DiskSame DEF IInv
<1>3. HandleInv' BY DEF IInv, HandleInv, Records, Written
<1>4. StepInv' BY DEF IInv, StepInv, Written, Replaces, AllDeclared
<1> QED BY <1>1, <1>2, <1>3, <1>4 DEF IInv

\* The intent file is removed when the WAL it speaks of is gone.
LEMMA FinishKeeps == ASSUME IInv, Finish PROVE IInv'
<1>0. /\ TypeInv /\ DiskInv /\ HandleInv /\ StepInv /\ snapshot \in Snapshots
      /\ wal \in Seq(Nat) /\ made \in Nat /\ snapshot.state \in Seq(Nat)
  BY DEF IInv, TypeInv, Snapshots
<1>1. /\ pc = "finish" /\ pc' = "open"
      /\ UNCHANGED <<wal, snapshot, made, kind, buf, state, declared>>
  BY DEF Finish
<1>2. CASE ~Replaces
  <2>1. UNCHANGED <<intent, intent_unsettled>> BY <1>2 DEF Finish
  <2> QED BY <1>1, <2>1, StopKeeps
<1>3. CASE Replaces
  <2>1. intent' = <<>> /\ intent_unsettled' = FALSE BY <1>3 DEF Finish
  <2>2. snapshot.state = state /\ state = History(made) /\ snapshot.mark = None /\ AllDeclared(wal)
    BY <1>0, <1>1, <1>3 DEF StepInv, HandleInv, Written, Replaced
  <2>3. Complete(snapshot.state, wal, 0, made) BY <1>0, <2>2, CompleteAlone DEF AllDeclared
  <2>4. Records(intent') = {} /\ intent' \in Seq(Intents) BY <2>1 DEF Records
  <2>5. TypeInv' BY <1>0, <1>1, <2>1, <2>4 DEF TypeInv
  <2>6. DiskInv' BY <1>1, <2>2, <2>3, <2>4 DEF DiskInv
  <2>7. HandleInv' BY <1>1, <2>2, <2>4 DEF HandleInv
  <2>8. StepInv' BY <1>1 DEF StepInv, Written, Replaced
  <2> QED BY <2>5, <2>6, <2>7, <2>8 DEF IInv
<1> QED BY <1>2, <1>3

\* The replacement WAL has no commits.
LEMMA BaselineFacts ==
    /\ Baseline \in Seq(Nat) /\ AllDeclared(Baseline)
    /\ <<>> \in Seq(Nat) /\ AllDeclared(<<>>)
<1>1. <<Declaration>> \in Seq(Nat) /\ AllDeclared(<<Declaration>>) BY DEF AllDeclared, Declaration
<1>2. <<>> \in Seq(Nat) /\ AllDeclared(<<>>) BY DEF AllDeclared
<1> QED BY <1>1, <1>2 DEF Baseline

\* The steps between the snapshot file and the end: each replaces the WAL or
\* leaves it alone.
LEMMA StepsKeep ==
    ASSUME IInv,
           \/ ArchiveWal \/ WriteBaseline \/ CountSurplus \/ WriteFloor \/ DeleteMarker
           \/ DeleteArchive \/ CutMarker \/ CutFloor \/ CutWal
    PROVE  IInv'
<1>0. TypeInv /\ StepInv BY DEF IInv
<1>1. CASE ArchiveWal
  <2>1. /\ pc = "archive"
        /\ UNCHANGED <<snapshot, intent, made, kind, buf, state, declared, intent_unsettled>>
        /\ \/ pc' = "open" /\ wal' = wal
           \/ pc' = "baseline" /\ wal' = <<>>
    BY <1>1 DEF ArchiveWal
  <2>2. pc \in Written /\ Replaces BY <1>0, <2>1 DEF StepInv, Written
  <2>3. CASE pc' = "open" /\ wal' = wal BY <2>1, <2>3, StopKeeps
  <2>4. CASE pc' = "baseline" /\ wal' = <<>> BY <2>1, <2>2, <2>4, BaselineFacts, ReplaceKeeps DEF Replaced
  <2> QED BY <2>1, <2>3, <2>4
<1>2. CASE WriteBaseline
  <2>1. /\ pc \in {"baseline", "archive"} /\ pc' = "prune" /\ wal' = Baseline
        /\ UNCHANGED <<snapshot, intent, made, kind, buf, state, declared, intent_unsettled>>
    BY <1>2 DEF WriteBaseline
  <2>2. pc \in Written /\ Replaces BY <1>0, <2>1 DEF StepInv, Written
  <2> QED BY <2>1, <2>2, BaselineFacts, ReplaceKeeps DEF Replaced
<1>3. CASE CountSurplus \/ WriteFloor \/ DeleteMarker \/ DeleteArchive \/ CutMarker \/ CutFloor
  <2>1. /\ UNCHANGED <<wal, snapshot, intent, made, kind, buf, state, declared, intent_unsettled>>
        /\ \/ pc \in {"prune", "floor", "marker", "delete"} /\ pc' \in {"finish", "floor", "marker", "delete"}
           \/ pc \in {"cut", "cutFloor"} /\ pc' \in {"cutFloor", "cutWal"}
    BY <1>3 DEF CountSurplus, WriteFloor, DeleteMarker, DeleteArchive, CutMarker, CutFloor
  <2>2. pc \in Written /\ Replaces BY <1>0, <2>1 DEF StepInv, Written
  <2>3. pc' \in Written /\ (pc' \in Replaced => pc \in Replaced) BY <2>1 DEF Written, Replaced
  <2> QED BY <2>1, <2>2, <2>3, QuietKeeps
<1>4. CASE CutWal
  <2>1. /\ pc = "cutWal" /\ wal' = Baseline /\ pc' \in {"finish", "delete"}
        /\ UNCHANGED <<snapshot, intent, made, kind, buf, state, declared, intent_unsettled>>
    BY <1>4 DEF CutWal
  <2>2. pc \in Written /\ Replaces BY <1>0, <2>1 DEF StepInv, Written
  <2> QED BY <2>1, <2>2, BaselineFacts, ReplaceKeeps DEF Replaced
<1> QED BY <1>1, <1>2, <1>3, <1>4

-----------------------------------------------------------------------------
(* The theorems.                                                           *)

\* A new store is empty and opens as the empty history.
LEMMA InitHolds == Init => IInv
<1>1. SUFFICES ASSUME Init PROVE IInv OBVIOUS
<1>2. /\ wal = <<>> /\ snapshot = NoSnapshot /\ intent = <<>> /\ pc = "down" /\ kind = "keep"
      /\ buf = NoSnapshot /\ state = <<>> /\ declared = FALSE /\ intent_unsettled = FALSE /\ made = 0
  BY <1>1 DEF Init
<1>3. NoSnapshot \in Snapshots /\ NoSnapshot.state = <<>> /\ NoSnapshot.mark = None
  <2>1. <<>> \in Seq(Nat) OBVIOUS
  <2> QED BY <2>1 DEF NoSnapshot, Snapshots
<1>4. <<>> \in Seq(Intents) /\ <<>> \in Seq(Nat) /\ Records(<<>>) = {} BY DEF Records
<1>5. TypeInv BY <1>2, <1>3, <1>4 DEF TypeInv
<1>6. Complete(<<>>, <<>>, 0, 0) BY <1>4, CompleteAlone, HistoryFacts, BaselineFacts DEF AllDeclared
<1>7. DiskInv BY <1>2, <1>3, <1>4, <1>6 DEF DiskInv
<1>8. HandleInv /\ StepInv BY <1>2 DEF HandleInv, StepInv, Written, Replaced
<1> QED BY <1>5, <1>7, <1>8 DEF IInv

\* Every step keeps the invariant.
LEMMA NextKeeps == IInv /\ [Next]_vars => IInv'
<1>1. SUFFICES ASSUME IInv, [Next]_vars PROVE IInv' OBVIOUS
<1>2. CASE UNCHANGED vars
  <2>0. UNCHANGED <<wal, snapshot, intent, made, kind, buf, state, declared, intent_unsettled, pc>>
    BY <1>2 DEF vars
  <2>1. TypeInv' BY <1>1, <2>0 DEF IInv, TypeInv
  <2>2. DiskInv' BY <1>1, <2>0, DiskSame DEF IInv
  <2>3. HandleInv' BY <1>1, <2>0 DEF IInv, HandleInv, Records
  <2>4. StepInv' BY <1>1, <2>0 DEF IInv, StepInv, Complete, Records, AllDeclared, Replaces
  <2> QED BY <2>1, <2>2, <2>3, <2>4 DEF IInv
<1>3. CASE Open \/ Reload BY <1>1, <1>3, LoadKeeps DEF Open, Reload
<1>4. CASE Crash \/ Error BY <1>1, <1>4, StopKeeps DEF Crash, Error
<1>5. CASE Settle BY <1>1, <1>5, SettleKeeps
<1>6. CASE Commit \/ Declare BY <1>1, <1>6, WritesKeep
<1>7. CASE \E k \in Kinds : SnapshotBegins(k) BY <1>1, <1>7, BeginKeeps
<1>8. CASE WriteIntent BY <1>1, <1>8, IntentKeeps
<1>9. CASE WriteSnapshot BY <1>1, <1>9, SnapshotKeeps
<1>10. CASE \/ ArchiveWal \/ WriteBaseline \/ CountSurplus \/ WriteFloor \/ DeleteMarker
            \/ DeleteArchive \/ CutMarker \/ CutFloor \/ CutWal
  BY <1>1, <1>10, StepsKeep
<1>11. CASE Finish BY <1>1, <1>11, FinishKeeps
<1> QED BY <1>1, <1>2, <1>3, <1>4, <1>5, <1>6, <1>7, <1>8, <1>9, <1>10, <1>11 DEF Next

\* The inductive invariant of the store's files and the handle on them, over any
\* number of snapshots of every kind, crashes and errors between their steps.
THEOREM Invariance == Spec => []IInv
<1>1. Init => IInv BY InitHolds
<1>2. IInv /\ [Next]_vars => IInv' BY NextKeeps
<1> QED BY <1>1, <1>2, PTL DEF Spec

\* snapshot_with, load_from_disk and refresh: the handle that takes snapshots,
\* interrupted or not, holds every commit once.
THEOREM HandleHoldsHistory == Spec => []HandleIsHistory
<1>1. IInv => HandleIsHistory BY DEF IInv, HandleInv, HandleIsHistory
<1> QED BY <1>1, Invariance, PTL

\* Whatever a crash leaves on disk opens as the whole history, each commit once,
\* whether or not the snapshots carry the declarations.
THEOREM WholeHistoryOpens == Spec => [](LoadedState = History(made))
<1>1. IInv => LoadedState = History(made) BY OpensWhole DEF IInv
<1> QED BY <1>1, Invariance, PTL

\* Where snapshots carry the declarations (format V11), no step loses one.
LEMMA DeclaredKept == ASSUME Carried, TypeInv, DeclaredInv, [Next]_vars PROVE DeclaredInv'
<1>0. wal \in Seq(Nat) /\ Declaration \in Nat BY DEF TypeInv, Declaration
<1>1. CASE UNCHANGED vars BY <1>1 DEF vars, DeclaredInv
<1>2. CASE Open \/ Reload
  <2>1. declared' = LoadedDeclared /\ pc' = "open" /\ UNCHANGED <<wal, snapshot, enabled, buf>>
    BY <1>2 DEF Open, Reload, Load
  <2> QED BY <2>1 DEF DeclaredInv, LoadedDeclared, Written
<1>3. CASE Crash \/ Error BY <1>3 DEF Crash, Error, DeclaredInv, Written
<1>4. CASE Settle BY <1>4 DEF Settle, Entered, DeclaredInv, Written
<1>5. CASE Commit
  <2>1. wal' = Append(wal, made') /\ pc = "open" /\ pc' = "open" /\ UNCHANGED <<snapshot, enabled, declared>>
    BY <1>5 DEF Commit, Append1, Entered
  <2>2. Declaration \in Range(wal) => Declaration \in Range(wal')
    <3>1. ASSUME NEW i \in DOMAIN wal PROVE i \in DOMAIN wal' /\ wal'[i] = wal[i] BY <1>0, <2>1
    <3> QED BY <3>1 DEF Range
  <2> QED BY <2>1, <2>2 DEF DeclaredInv, Written
<1>6. CASE Declare
  <2>1. wal' = Append(wal, Declaration) /\ pc' = "open" /\ declared' = TRUE
    BY <1>6 DEF Declare, Append1, Entered
  <2>2. Declaration \in Range(wal')
    <3>1. Len(wal) + 1 \in DOMAIN wal' /\ wal'[Len(wal) + 1] = Declaration BY <1>0, <2>1
    <3> QED BY <3>1 DEF Range
  <2> QED BY <2>1, <2>2 DEF DeclaredInv, Written
<1>7. CASE \E k \in Kinds : SnapshotBegins(k)
  <2>1. pc = "open" /\ pc' = "begun" /\ buf'.decl = declared /\ UNCHANGED <<wal, snapshot, enabled, declared>>
    BY <1>7 DEF SnapshotBegins, Entered
  <2> QED BY <2>1 DEF DeclaredInv, Written
<1>8. CASE WriteIntent BY <1>8 DEF WriteIntent, DeclaredInv, Written
<1>9. CASE WriteSnapshot BY <1>9 DEF WriteSnapshot, DeclaredInv, Written
<1>10. CASE \/ ArchiveWal \/ WriteBaseline \/ CountSurplus \/ WriteFloor \/ DeleteMarker
            \/ DeleteArchive \/ CutMarker \/ CutFloor \/ CutWal \/ Finish
  <2>1. pc \in Written /\ pc' \in Written \cup {"open"} /\ UNCHANGED <<snapshot, enabled, declared>>
    BY <1>10 DEF ArchiveWal, WriteBaseline, CountSurplus, WriteFloor, DeleteMarker,
       DeleteArchive, CutMarker, CutFloor, CutWal, Finish, Written
  <2> QED BY <2>1 DEF DeclaredInv, Written
<1> QED BY <1>1, <1>2, <1>3, <1>4, <1>5, <1>6, <1>7, <1>8, <1>9, <1>10 DEF Next

\* A crash at any point of a snapshot, in the recovery from an earlier one, or
\* between errors and retries loses no commit, applies none twice, and keeps
\* what the store was opted into, as long as snapshots carry it: below format
\* V11 the declaration is lost between the rename and the baseline.
THEOREM CrashesAreSafe == ASSUME Carried PROVE Spec => []CrashSafe
<1>1. Init => DeclaredInv BY DEF Init, DeclaredInv
<1>2. IInv /\ DeclaredInv /\ [Next]_vars => DeclaredInv' BY DeclaredKept DEF IInv
<1>3. IInv /\ DeclaredInv => CrashSafe
  BY OpensWhole DEF IInv, DeclaredInv, CrashSafe, LoadedDeclared
<1> QED BY <1>1, <1>2, <1>3, Invariance, PTL DEF Spec

-----------------------------------------------------------------------------
(* Archived, the frames of the archives.                                   *)

\* g gives what the first k sequences of f join to, for every k up to n.
Joins(g, n, f) == g = [k \in 0..n |-> IF k = 0 THEN <<>> ELSE g[k - 1] \o f[k]]

\* Each sequence is joined to what was joined before it.
LEMMA JoinsStep ==
    ASSUME NEW n \in Nat, NEW f, NEW g, Joins(g, n, f)
    PROVE  g[0] = <<>> /\ \A k \in Nat : k + 1 <= n => g[k + 1] = g[k] \o f[k + 1]
<1>1. g[0] = <<>>
  <2>1. 0 \in 0..n OBVIOUS
  <2> QED BY <2>1 DEF Joins
<1>2. ASSUME NEW k \in Nat, k + 1 <= n PROVE g[k + 1] = g[k] \o f[k + 1]
  <2>1. k + 1 \in 0..n /\ k + 1 # 0 /\ (k + 1) - 1 = k BY <1>2
  <2> QED BY <2>1 DEF Joins
<1> QED BY <1>1, <1>2

\* However many sequences there are, they can be joined.
LEMMA JoinsExists == ASSUME NEW f PROVE \A n \in Nat : \E g : Joins(g, n, f)
<1> DEFINE S == {n \in Nat : \E g : Joins(g, n, f)}
<1>1. 0 \in S
  <2> DEFINE g == [k \in 0..0 |-> <<>>]
             h == [k \in 0..0 |-> IF k = 0 THEN <<>> ELSE g[k - 1] \o f[k]]
  <2>1. \A k \in 0..0 : k = 0 OBVIOUS
  <2>2. g = h BY <2>1
  <2>3. Joins(g, 0, f) BY <2>2 DEF Joins
  <2> QED BY <2>3
<1>2. ASSUME NEW n \in Nat, n \in S PROVE n + 1 \in S
  <2>1. PICK g : Joins(g, n, f) BY <1>2
  <2>0. g[0] = <<>> /\ \A k \in Nat : k + 1 <= n => g[k + 1] = g[k] \o f[k + 1] BY <2>1, JoinsStep
  <2> DEFINE h == [k \in 0..(n + 1) |-> IF k <= n THEN g[k] ELSE g[n] \o f[k]]
             w == [k \in 0..(n + 1) |-> IF k = 0 THEN <<>> ELSE h[k - 1] \o f[k]]
  <2>2. ASSUME NEW k \in 0..(n + 1) PROVE h[k] = w[k]
    <3>1. CASE k = 0 BY <2>0, <3>1
    <3>2. CASE k # 0 /\ k <= n
      <4> DEFINE j == k - 1
      <4>1. j \in Nat /\ j + 1 = k /\ j + 1 <= n /\ j \in 0..(n + 1) /\ j <= n BY <3>2
      <4>2. w[k] = h[j] \o f[k] BY <3>2
      <4> HIDE DEF j
      <4>3. g[j + 1] = g[j] \o f[j + 1] BY <2>0, <4>1
      <4>4. h[k] = g[k] /\ h[j] = g[j] BY <3>2, <4>1
      <4> HIDE DEF h, w
      <4> QED BY <4>1, <4>2, <4>3, <4>4
    <3>3. CASE ~(k <= n)
      <4>1. k = n + 1 /\ k - 1 = n /\ k # 0 /\ n \in 0..(n + 1) /\ n <= n BY <3>3
      <4>2. h[n] = g[n] BY <4>1
      <4>3. h[k] = g[n] \o f[k] BY <3>3
      <4>4. w[k] = h[n] \o f[k] BY <4>1
      <4> HIDE DEF h, w
      <4> QED BY <4>2, <4>3, <4>4
    <3> QED BY <3>1, <3>2, <3>3
  <2>3. h = w BY <2>2
  <2>4. Joins(h, n + 1, f) BY <2>3 DEF Joins
  <2> QED BY <2>4
<1>3. S \in SUBSET Nat OBVIOUS
<1> HIDE DEF S
<1>4. \A n \in Nat : n \in S BY <1>1, <1>2, <1>3, Induction
<1> QED BY <1>4 DEF S

\* Sequences of numbers are joined to one.
LEMMA JoinsType ==
    ASSUME NEW n \in Nat, NEW f, NEW g, Joins(g, n, f), \A k \in 1..n : f[k] \in Seq(Nat)
    PROVE  \A k \in Nat : k <= n => g[k] \in Seq(Nat)
<1> DEFINE S == {k \in Nat : k <= n => g[k] \in Seq(Nat)}
<1>0. g[0] = <<>> /\ \A k \in Nat : k + 1 <= n => g[k + 1] = g[k] \o f[k + 1] BY JoinsStep
<1>1. 0 \in S
  <2>1. <<>> \in Seq(Nat) OBVIOUS
  <2> QED BY <1>0, <2>1
<1>2. ASSUME NEW k \in Nat, k \in S PROVE k + 1 \in S
  <2>1. SUFFICES ASSUME k + 1 <= n PROVE g[k + 1] \in Seq(Nat) OBVIOUS
  <2>2. k + 1 \in 1..n /\ k <= n BY <2>1
  <2>3. g[k] \in Seq(Nat) /\ f[k + 1] \in Seq(Nat) BY <1>2, <2>2
  <2>4. g[k] \o f[k + 1] \in Seq(Nat) BY <2>3
  <2> QED BY <1>0, <2>1, <2>4
<1>3. S \in SUBSET Nat OBVIOUS
<1> HIDE DEF S
<1>4. \A k \in Nat : k \in S BY <1>1, <1>2, <1>3, Induction
<1> QED BY <1>4 DEF S

\* What is joined up to k depends on the first k sequences.
LEMMA JoinsAgree ==
    ASSUME NEW n \in Nat, NEW m \in Nat, NEW f, NEW e, NEW g, NEW h, Joins(g, n, f), Joins(h, m, e),
           n <= m, \A k \in 1..n : f[k] = e[k]
    PROVE  \A k \in Nat : k <= n => g[k] = h[k]
<1> DEFINE S == {k \in Nat : k <= n => g[k] = h[k]}
<1>6. n \in Nat /\ Joins(g, n, f) OBVIOUS
<1>7. m \in Nat /\ Joins(h, m, e) OBVIOUS
<1>0. g[0] = <<>> /\ \A k \in Nat : k + 1 <= n => g[k + 1] = g[k] \o f[k + 1]
  BY ONLY <1>6, JoinsStep, ZenonT(30)
<1>5. h[0] = <<>> /\ \A k \in Nat : k + 1 <= m => h[k + 1] = h[k] \o e[k + 1]
  BY ONLY <1>7, JoinsStep
<1>1. 0 \in S
  <2>1. g[0] = h[0] BY <1>0, <1>5
  <2> QED BY <2>1
<1>2. ASSUME NEW k \in Nat, k \in S PROVE k + 1 \in S
  <2>1. SUFFICES ASSUME k + 1 <= n PROVE g[k + 1] = h[k + 1] OBVIOUS
  <2>2. k + 1 \in 1..n /\ k <= n /\ k + 1 <= m BY <2>1
  <2>3. g[k] = h[k] /\ f[k + 1] = e[k + 1] BY <1>2, <2>2
  <2> QED BY <1>0, <1>5, <2>1, <2>2, <2>3
<1>3. S \in SUBSET Nat OBVIOUS
<1> HIDE DEF S
<1>4. \A k \in Nat : k \in S BY <1>1, <1>2, <1>3, Induction
<1> QED BY <1>4 DEF S

-----------------------------------------------------------------------------
(* The archives.                                                           *)

\* Archives: finitely many, by number.
IsArchives(as) ==
    /\ as = [n \in DOMAIN as |-> as[n]]
    /\ IsFiniteSet(DOMAIN as) /\ DOMAIN as \subseteq Nat
    /\ \A n \in DOMAIN as : as[n] \in Seq(Nat)

\* Those of as with numbers in D.
Only(as, D) == [n \in DOMAIN as \cap D |-> as[n]]

\* The archives left are archives, with the frames they had.
LEMMA OnlyIs ==
    ASSUME NEW as, IsArchives(as), NEW D
    PROVE  /\ IsArchives(Only(as, D)) /\ DOMAIN Only(as, D) = DOMAIN as \cap D
           /\ \A n \in DOMAIN as \cap D : Only(as, D)[n] = as[n]
<1> DEFINE o == Only(as, D)
<1>1. DOMAIN o = DOMAIN as \cap D /\ o = [n \in DOMAIN o |-> o[n]] BY DEF Only
<1>2. \A n \in DOMAIN as \cap D : o[n] = as[n] BY DEF Only
<1> HIDE DEF o
<1>3. DOMAIN o \in SUBSET DOMAIN as BY <1>1
<1>4. IsFiniteSet(DOMAIN o) BY <1>3, FS_Subset DEF IsArchives
<1>5. DOMAIN o \subseteq Nat /\ \A n \in DOMAIN o : o[n] \in Seq(Nat)
  BY <1>1, <1>2, <1>3 DEF IsArchives
<1>6. IsArchives(o) BY <1>1, <1>4, <1>5 DEF IsArchives
<1> QED BY <1>1, <1>2, <1>6 DEF o

\* Archives are the same if they have the same numbers and frames.
LEMMA SameArchives ==
    ASSUME NEW as, NEW bs, IsArchives(as), IsArchives(bs), DOMAIN as = DOMAIN bs,
           \A n \in DOMAIN as : as[n] = bs[n]
    PROVE  as = bs
BY DEF IsArchives

\* What is left of what is left.
LEMMA OnlyOnly ==
    ASSUME NEW as, IsArchives(as), NEW D, NEW E
    PROVE  Only(Only(as, D), E) = Only(as, D \cap E)
<1> DEFINE a == Only(as, D)
           b == Only(a, E)
           c == Only(as, D \cap E)
<1>1. /\ IsArchives(a) /\ DOMAIN a = DOMAIN as \cap D /\ \A n \in DOMAIN as \cap D : a[n] = as[n]
  BY OnlyIs
<1> HIDE DEF a
<1>2. /\ IsArchives(b) /\ DOMAIN b = DOMAIN a \cap E /\ \A n \in DOMAIN a \cap E : b[n] = a[n]
  BY <1>1, OnlyIs
<1>3. /\ IsArchives(c) /\ DOMAIN c = DOMAIN as \cap (D \cap E) /\ \A n \in DOMAIN as \cap (D \cap E) : c[n] = as[n]
  BY OnlyIs
<1> HIDE DEF b, c
<1>4. DOMAIN b = DOMAIN c /\ \A n \in DOMAIN b : b[n] = c[n] BY <1>1, <1>2, <1>3
<1>5. b = c BY <1>2, <1>3, <1>4, SameArchives
<1> QED BY <1>5 DEF a, b, c

\* Nothing is left out where D holds all the numbers.
LEMMA OnlyAll == ASSUME NEW as, IsArchives(as), NEW D, DOMAIN as \subseteq D PROVE Only(as, D) = as
<1> DEFINE o == Only(as, D)
<1>1. /\ IsArchives(o) /\ DOMAIN o = DOMAIN as \cap D /\ \A n \in DOMAIN as \cap D : o[n] = as[n]
  BY OnlyIs
<1> HIDE DEF o
<1>2. o = as BY <1>1, SameArchives
<1> QED BY <1>2 DEF o

\* Archives without some are the others.
LEMMA WithoutIs == ASSUME NEW as, NEW ns PROVE Without(as, ns) = Only(as, DOMAIN as \ ns)
<1>1. DOMAIN as \ ns = DOMAIN as \cap (DOMAIN as \ ns) OBVIOUS
<1> QED BY <1>1 DEF Without, Only

\* There are as many archives as numbers.
LEMMA Counted == ASSUME NEW as, IsArchives(as) PROVE Cardinality(DOMAIN as) \in Nat
BY FS_CardinalityType DEF IsArchives

\* Archived joins the archives' frames in the order of their numbers.
LEMMA ArchivedIs ==
    ASSUME NEW as, IsArchives(as)
    PROVE  \E g : /\ Joins(g, Cardinality(DOMAIN as), [k \in 1..Cardinality(DOMAIN as) |-> as[Name(as, k)]])
                  /\ Archived(as) = g[Cardinality(DOMAIN as)]
<1> DEFINE N == Cardinality(DOMAIN as)
           f == [k \in 1..N |-> as[Name(as, k)]]
           R(g) == g = [k \in 0..N |-> IF k = 0 THEN <<>> ELSE g[k - 1] \o as[Name(as, k)]]
           c == CHOOSE g : R(g)
<1>1. N \in Nat BY Counted
<1> HIDE DEF N
<1>2. ASSUME NEW g PROVE R(g) <=> Joins(g, N, f)
  <2>1. [k \in 0..N |-> IF k = 0 THEN <<>> ELSE g[k - 1] \o as[Name(as, k)]]
      = [k \in 0..N |-> IF k = 0 THEN <<>> ELSE g[k - 1] \o f[k]]
    <3>1. \A k \in 0..N : k # 0 => k \in 1..N BY <1>1
    <3> QED BY <3>1
  <2> QED BY <2>1 DEF Joins
<1>3. \E g : Joins(g, N, f) BY <1>1, JoinsExists
<1>4. R(c)
  <2>1. \E g : R(g) BY <1>2, <1>3
  <2> QED BY <2>1
<1>5. Archived(as) = c[N] BY DEF Archived, N
<1>6. Joins(c, N, f) BY <1>2, <1>4
<1> QED BY <1>5, <1>6 DEF N

-----------------------------------------------------------------------------
(* Places among the numbers of the archives.                               *)

\* A finite set of numbers, and the place of a number in it.
Numbers(D) == D \subseteq Nat /\ IsFiniteSet(D)
Rank(D, n) == Cardinality({m \in D : m <= n})

\* All but one.
LEMMA Taking ==
    ASSUME NEW D, Numbers(D), NEW x \in D
    PROVE  /\ Numbers(D \ {x}) /\ Cardinality(D) \in Nat /\ Cardinality(D \ {x}) \in Nat
           /\ Cardinality(D) = Cardinality(D \ {x}) + 1
<1>1. IsFiniteSet(D) /\ D \subseteq Nat BY DEF Numbers
<1>2. IsFiniteSet(D \ {x}) /\ Cardinality(D \ {x}) = Cardinality(D) - 1 BY <1>1, FS_RemoveElement
<1>3. Cardinality(D) \in Nat /\ Cardinality(D \ {x}) \in Nat BY <1>1, <1>2, FS_CardinalityType
<1>4. D \ {x} \subseteq Nat BY <1>1
<1> QED BY <1>2, <1>3, <1>4 DEF Numbers

\* A finite set of numbers that is not empty has a greatest one.
LEMMA Greatest ==
    ASSUME NEW D, Numbers(D), D # {} PROVE \E x \in D : \A y \in D : y <= x
<1> DEFINE S == {n \in Nat : \A T : Numbers(T) /\ T # {} /\ Cardinality(T) = n => \E x \in T : \A y \in T : y <= x}
<1>1. 0 \in S
  <2>1. \A T : Numbers(T) /\ Cardinality(T) = 0 => T = {} BY FS_EmptySet DEF Numbers
  <2> QED BY <2>1
<1>2. ASSUME NEW n \in Nat, n \in S PROVE n + 1 \in S
  <2>1. SUFFICES ASSUME NEW T, Numbers(T), T # {}, Cardinality(T) = n + 1
                 PROVE  \E x \in T : \A y \in T : y <= x
    OBVIOUS
  <2>2. PICK z \in T : TRUE BY <2>1
  <2> DEFINE U == T \ {z}
  <2>3. Numbers(U) /\ Cardinality(U) \in Nat /\ n + 1 = Cardinality(U) + 1 BY <2>1, Taking
  <2>4. Cardinality(U) = n BY <2>3
  <2>5. z \in Nat /\ T \subseteq Nat BY <2>1 DEF Numbers
  <2>6. CASE U = {}
    <3>1. \A y \in T : y = z BY <2>6
    <3> QED BY <2>5, <3>1
  <2>7. CASE U # {}
    <3>1. PICK x \in U : \A y \in U : y <= x BY <1>2, <2>3, <2>4, <2>7
    <3>2. x \in Nat /\ x \in T BY <2>5
    <3>3. CASE z <= x
      <4>1. \A y \in T : y <= x BY <3>1, <3>3
      <4> QED BY <3>2, <4>1
    <3>4. CASE x <= z
      <4>1. \A y \in T : y <= z BY <2>5, <3>1, <3>2, <3>4
      <4> QED BY <4>1
    <3> QED BY <2>5, <3>2, <3>3, <3>4
  <2> QED BY <2>6, <2>7
<1>3. S \in SUBSET Nat OBVIOUS
<1> HIDE DEF S
<1>4. \A n \in Nat : n \in S BY <1>1, <1>2, <1>3, Induction
<1>5. Cardinality(D) \in Nat BY FS_CardinalityType DEF Numbers
<1> QED BY <1>4, <1>5 DEF S

\* Without the greatest number the others keep their place.
LEMMA RankOthers ==
    ASSUME NEW D, Numbers(D), NEW x \in D, \A y \in D : y <= x
    PROVE  /\ Rank(D, x) = Cardinality(D)
           /\ \A n \in D \ {x} : Rank(D, n) = Rank(D \ {x}, n) /\ Rank(D, n) < Cardinality(D)
<1>0. D \subseteq Nat BY DEF Numbers
<1>1. {m \in D : m <= x} = D OBVIOUS
<1>2. ASSUME NEW n \in D \ {x} PROVE Rank(D, n) = Rank(D \ {x}, n) /\ Rank(D, n) < Cardinality(D)
  <2>1. n \in Nat /\ x \in Nat /\ n < x BY <1>0
  <2>2. {m \in D : m <= n} = {m \in D \ {x} : m <= n} BY <2>1
  <2> DEFINE T == {m \in D \ {x} : m <= n}
  <2>3. /\ Numbers(D \ {x}) /\ Cardinality(D) \in Nat /\ Cardinality(D \ {x}) \in Nat
        /\ Cardinality(D) = Cardinality(D \ {x}) + 1
    BY Taking
  <2>4. T \in SUBSET (D \ {x}) OBVIOUS
  <2>5. IsFiniteSet(T) /\ Cardinality(T) <= Cardinality(D \ {x})
    BY <2>3, <2>4, FS_Subset DEF Numbers
  <2>6. Cardinality(T) \in Nat BY <2>5, FS_CardinalityType
  <2>7. Rank(D, n) = Cardinality(T) /\ Rank(D \ {x}, n) = Cardinality(T) BY <2>2 DEF Rank
  <2> HIDE DEF T
  <2> QED BY <2>3, <2>5, <2>6, <2>7
<1> QED BY <1>1, <1>2 DEF Rank

\* There is a number at every place.
LEMMA Ranked ==
    ASSUME NEW D, Numbers(D), NEW k \in 1..Cardinality(D) PROVE \E n \in D : Rank(D, n) = k
<1> DEFINE S == {c \in Nat : \A T : Numbers(T) /\ Cardinality(T) = c => \A j \in 1..c : \E n \in T : Rank(T, n) = j}
<1>1. 0 \in S
  <2>1. 1..0 = {} OBVIOUS
  <2> QED BY <2>1
<1>2. ASSUME NEW c \in Nat, c \in S PROVE c + 1 \in S
  <2>1. SUFFICES ASSUME NEW T, Numbers(T), Cardinality(T) = c + 1, NEW j \in 1..(c + 1)
                 PROVE  \E n \in T : Rank(T, n) = j
    OBVIOUS
  <2>2. T # {} BY <2>1, FS_EmptySet
  <2>3. PICK x \in T : \A y \in T : y <= x BY <2>1, <2>2, Greatest
  <2> DEFINE U == T \ {x}
  <2>4. Numbers(U) /\ Cardinality(U) \in Nat /\ c + 1 = Cardinality(U) + 1 BY <2>1, Taking
  <2>5. Cardinality(U) = c BY <2>4
  <2>6. Rank(T, x) = c + 1 /\ \A n \in U : Rank(T, n) = Rank(U, n) BY <2>1, <2>3, RankOthers
  <2>7. CASE j = c + 1 BY <2>6, <2>7
  <2>8. CASE j # c + 1
    <3>1. j \in 1..c BY <2>8
    <3>2. PICK n \in U : Rank(U, n) = j BY <1>2, <2>4, <2>5, <3>1
    <3> QED BY <2>6, <3>2
  <2> QED BY <2>7, <2>8
<1>3. S \in SUBSET Nat OBVIOUS
<1> HIDE DEF S
<1>4. \A c \in Nat : c \in S BY <1>1, <1>2, <1>3, Induction
<1>5. Cardinality(D) \in Nat BY FS_CardinalityType DEF Numbers
<1> QED BY <1>4, <1>5 DEF S

\* list_archives: the k-th archive is the one at place k.
LEMMA NameIs ==
    ASSUME NEW as, IsArchives(as), NEW k \in 1..Cardinality(DOMAIN as)
    PROVE  Name(as, k) \in DOMAIN as /\ Rank(DOMAIN as, Name(as, k)) = k
<1>1. Numbers(DOMAIN as) BY DEF Numbers, IsArchives
<1>2. \E n \in DOMAIN as : Rank(DOMAIN as, n) = k BY <1>1, Ranked
<1>3. \E n \in DOMAIN as : Cardinality({m \in DOMAIN as : m <= n}) = k BY <1>2 DEF Rank
<1>4. Name(as, k) \in DOMAIN as /\ Cardinality({m \in DOMAIN as : m <= Name(as, k)}) = k
  BY <1>3 DEF Name
<1> QED BY <1>4 DEF Rank

\* Two numbers are not at the same place.
LEMMA RankOne ==
    ASSUME NEW D, Numbers(D), NEW m \in D, NEW n \in D, Rank(D, m) = Rank(D, n) PROVE m = n
<1>1. ASSUME NEW a \in D, NEW b \in D, a < b PROVE Rank(D, a) # Rank(D, b)
  <2> DEFINE A == {y \in D : y <= a}
             B == {y \in D : y <= b}
  <2>1. D \subseteq Nat BY DEF Numbers
  <2>0. a \in Nat /\ b \in Nat /\ b <= b /\ ~(b <= a) /\ \A y \in Nat : y <= a => y <= b
    BY <1>1, <2>1
  <2>2. A \in SUBSET B /\ b \in B /\ b \notin A BY <2>0, <2>1
  <2>3. B \in SUBSET D OBVIOUS
  <2> HIDE DEF A, B
  <2>4. IsFiniteSet(B) BY <2>3, FS_Subset DEF Numbers
  <2>5. Cardinality(B) = Cardinality(A) => B = A BY <2>2, <2>4, FS_Subset
  <2>6. Cardinality(A) # Cardinality(B) BY <2>2, <2>5
  <2> QED BY <2>6 DEF A, B, Rank
<1>2. m \in Nat /\ n \in Nat BY DEF Numbers
<1>3. m < n \/ n < m \/ m = n BY <1>2
<1> QED BY <1>1, <1>3

-----------------------------------------------------------------------------
(* The frames of archives, newest last.                                    *)

\* The frames of no archive.
LEMMA ArchivedNone == ASSUME NEW as, IsArchives(as), DOMAIN as = {} PROVE Archived(as) = <<>>
<1>1. Cardinality(DOMAIN as) = 0 BY FS_EmptySet
<1> DEFINE f == [k \in 1..0 |-> as[Name(as, k)]]
<1>2. PICK g : Joins(g, 0, f) /\ Archived(as) = g[0] BY <1>1, ArchivedIs
<1> HIDE DEF f
<1>3. g[0] = <<>> BY <1>2, JoinsStep
<1> QED BY <1>2, <1>3

\* The frames of the newest archive come last.
LEMMA ArchivedLast ==
    ASSUME NEW as, IsArchives(as), NEW x \in DOMAIN as, \A y \in DOMAIN as : y <= x
    PROVE  Archived(as) = Archived(Only(as, DOMAIN as \ {x})) \o as[x]
<1> DEFINE D == DOMAIN as
           E == D \ {x}
           bs == Only(as, E)
           f == [k \in 1..Cardinality(D) |-> as[Name(as, k)]]
           e == [k \in 1..Cardinality(E) |-> bs[Name(bs, k)]]
           n == Cardinality(E)
<1>1. IsArchives(bs) /\ DOMAIN bs = E /\ \A j \in E : bs[j] = as[j]
  <2>1. D \cap E = E OBVIOUS
  <2> QED BY <2>1, OnlyIs
<1>2. Numbers(D) /\ Numbers(E) /\ Cardinality(D) = n + 1 /\ n \in Nat
  <2>1. Numbers(D) BY DEF Numbers, IsArchives
  <2> QED BY <2>1, Taking
<1>0. 1..n \subseteq 1..Cardinality(D) /\ n + 1 \in 1..Cardinality(D)
  <2>1. \A c \in Nat : 1..c \subseteq 1..(c + 1) /\ c + 1 \in 1..(c + 1) OBVIOUS
  <2> HIDE DEF n, D
  <2> QED BY <1>2, <2>1
<1>3. Rank(D, x) = n + 1 /\ \A j \in E : Rank(D, j) = Rank(E, j) BY <1>2, RankOthers
<1>4. PICK g : Joins(g, n + 1, f) /\ Archived(as) = g[n + 1]
  <2>1. \E g : Joins(g, Cardinality(D), f) /\ Archived(as) = g[Cardinality(D)] BY ArchivedIs
  <2> HIDE DEF D, f
  <2> QED BY <1>2, <2>1
<1>5. PICK h : Joins(h, n, e) /\ Archived(bs) = h[n]
  <2> HIDE DEF bs
  <2>1. \E h : Joins(h, Cardinality(DOMAIN bs), [k \in 1..Cardinality(DOMAIN bs) |-> bs[Name(bs, k)]])
               /\ Archived(bs) = h[Cardinality(DOMAIN bs)]
    BY <1>1, ArchivedIs
  <2> QED BY <1>1, <2>1
<1>6. ASSUME NEW k \in 1..n PROVE e[k] = f[k]
  <2> DEFINE a == Name(bs, k)
             b == Name(as, k)
  <2>1. a \in E /\ Rank(E, a) = k BY <1>1, NameIs
  <2>2. k \in 1..Cardinality(D) BY <1>0
  <2>0. IsArchives(as) /\ k \in 1..Cardinality(DOMAIN as) BY <2>2
  <2>3. b \in D /\ Rank(D, b) = k BY ONLY <2>0, NameIs
  <2>4. a \in D /\ Rank(D, a) = k BY <1>3, <2>1
  <2>5. e[k] = bs[a] /\ f[k] = as[b] BY <2>2
  <2> HIDE DEF a, b, E, bs, e, f
  <2>6. a = b BY <1>2, <2>3, <2>4, RankOne
  <2>7. bs[a] = as[a] BY <1>1, <2>1
  <2> QED BY <2>5, <2>6, <2>7
<1>7. f[n + 1] = as[x]
  <2> DEFINE b == Name(as, n + 1)
  <2>1. n + 1 \in 1..Cardinality(D) BY <1>0
  <2>0. IsArchives(as) /\ n + 1 \in 1..Cardinality(DOMAIN as) BY <2>1
  <2> HIDE DEF n
  <2>2. b \in D /\ Rank(D, b) = n + 1 BY ONLY <2>0, NameIs
  <2>3. f[n + 1] = as[b] BY <2>1
  <2> HIDE DEF b, f, n
  <2>4. b = x BY <1>2, <1>3, <2>2, RankOne
  <2> QED BY <2>3, <2>4
<1> HIDE DEF f, e, bs, n, E
<1>8. n <= n + 1 /\ n <= n /\ n + 1 \in Nat BY <1>2
<1>9. h[n] = g[n]
  <2>1. \A k \in Nat : k <= n => h[k] = g[k] BY <1>2, <1>4, <1>5, <1>6, <1>8, JoinsAgree
  <2> QED BY <1>2, <1>8, <2>1
<1>10. g[n + 1] = g[n] \o f[n + 1]
  <2>1. n + 1 \in Nat /\ Joins(g, n + 1, f) BY <1>4, <1>8
  <2>2. \A k \in Nat : k + 1 <= n + 1 => g[k + 1] = g[k] \o f[k + 1]
    BY ONLY <2>1, JoinsStep, ZenonT(30)
  <2>3. n + 1 <= n + 1 BY <1>2
  <2> QED BY <1>2, <2>2, <2>3
<1>11. Archived(as) = Archived(bs) \o as[x] BY <1>4, <1>5, <1>7, <1>9, <1>10
<1> QED BY <1>11 DEF bs, E

\* Without the newest archive.
LEMMA ButNewest ==
    ASSUME NEW as, IsArchives(as), DOMAIN as # {}
    PROVE  \E x \in DOMAIN as :
              /\ \A y \in DOMAIN as : y <= x
              /\ IsArchives(Only(as, DOMAIN as \ {x})) /\ DOMAIN Only(as, DOMAIN as \ {x}) = DOMAIN as \ {x}
              /\ Cardinality(DOMAIN as \ {x}) \in Nat
              /\ Cardinality(DOMAIN as) = Cardinality(DOMAIN as \ {x}) + 1
              /\ \A n \in DOMAIN as \ {x} : Only(as, DOMAIN as \ {x})[n] = as[n]
              /\ Archived(as) = Archived(Only(as, DOMAIN as \ {x})) \o as[x]
<1>1. Numbers(DOMAIN as) BY DEF Numbers, IsArchives
<1>2. PICK x \in DOMAIN as : \A y \in DOMAIN as : y <= x BY <1>1, Greatest
<1> DEFINE E == DOMAIN as \ {x}
<1>3. DOMAIN as \cap E = E OBVIOUS
<1>4. IsArchives(Only(as, E)) /\ DOMAIN Only(as, E) = E /\ \A n \in E : Only(as, E)[n] = as[n]
  BY <1>3, OnlyIs
<1>5. Cardinality(E) \in Nat /\ Cardinality(DOMAIN as) = Cardinality(E) + 1 BY <1>1, Taking
<1>6. Archived(as) = Archived(Only(as, E)) \o as[x] BY <1>2, ArchivedLast
<1> QED BY <1>2, <1>4, <1>5, <1>6

\* The archives' frames are a sequence of frames.
LEMMA ArchivedType == ASSUME NEW as, IsArchives(as) PROVE Archived(as) \in Seq(Nat)
<1> DEFINE S == {c \in Nat : \A bs : IsArchives(bs) /\ Cardinality(DOMAIN bs) = c => Archived(bs) \in Seq(Nat)}
<1>1. 0 \in S
  <2>1. SUFFICES ASSUME NEW bs, IsArchives(bs), Cardinality(DOMAIN bs) = 0 PROVE Archived(bs) \in Seq(Nat)
    OBVIOUS
  <2>2. DOMAIN bs = {} BY <2>1, FS_EmptySet DEF IsArchives
  <2>3. Archived(bs) = <<>> BY <2>1, <2>2, ArchivedNone
  <2> QED BY <2>3
<1>2. ASSUME NEW c \in Nat, c \in S PROVE c + 1 \in S
  <2>1. SUFFICES ASSUME NEW bs, IsArchives(bs), Cardinality(DOMAIN bs) = c + 1 PROVE Archived(bs) \in Seq(Nat)
    OBVIOUS
  <2>2. DOMAIN bs # {} BY <2>1, FS_EmptySet
  <2>3. PICK x \in DOMAIN bs :
              /\ IsArchives(Only(bs, DOMAIN bs \ {x})) /\ DOMAIN Only(bs, DOMAIN bs \ {x}) = DOMAIN bs \ {x}
              /\ Cardinality(DOMAIN bs \ {x}) \in Nat
              /\ Cardinality(DOMAIN bs) = Cardinality(DOMAIN bs \ {x}) + 1
              /\ Archived(bs) = Archived(Only(bs, DOMAIN bs \ {x})) \o bs[x]
    BY <2>1, <2>2, ButNewest
  <2> DEFINE o == Only(bs, DOMAIN bs \ {x})
  <2>4. IsArchives(o) /\ Cardinality(DOMAIN o) = c
    <3>1. Cardinality(DOMAIN bs \ {x}) = c BY <2>1, <2>3
    <3> QED BY <2>3, <3>1
  <2>5. Archived(o) \in Seq(Nat) BY <1>2, <2>4
  <2>6. bs[x] \in Seq(Nat) BY <2>1 DEF IsArchives
  <2>7. Archived(bs) = Archived(o) \o bs[x] BY <2>3
  <2> HIDE DEF o
  <2> QED BY <2>5, <2>6, <2>7
<1>3. S \in SUBSET Nat OBVIOUS
<1> HIDE DEF S
<1>4. \A c \in Nat : c \in S BY <1>1, <1>2, <1>3, Induction
<1>5. Cardinality(DOMAIN as) \in Nat BY Counted
<1> QED BY <1>4, <1>5 DEF S

\* Joining is associative, and the empty sequence joins nothing.
LEMMA JoinThree ==
    ASSUME NEW p \in Seq(Nat), NEW q \in Seq(Nat), NEW r \in Seq(Nat)
    PROVE  (p \o q) \o r = p \o (q \o r) /\ p \o <<>> = p /\ <<>> \o p = p
BY ConcatAssociative, ConcatEmptySeq

\* Older archives, newer archives.
LEMMA ArchivedSplit ==
    ASSUME NEW as, IsArchives(as), NEW L, NEW H, DOMAIN as = L \cup H, \A a \in L, b \in H : a < b
    PROVE  Archived(as) = Archived(Only(as, L)) \o Archived(Only(as, H))
<1> DEFINE Splits(cs, A, B) == Archived(cs) = Archived(Only(cs, A)) \o Archived(Only(cs, B))
           Parts(cs, A, B) == DOMAIN cs = A \cup B /\ \A a \in A, b \in B : a < b
           S == {c \in Nat : \A cs, A, B : IsArchives(cs) /\ Cardinality(DOMAIN cs) = c /\ Parts(cs, A, B) => Splits(cs, A, B)}
<1>1. ASSUME NEW cs, NEW A, NEW B, IsArchives(cs), Parts(cs, A, B), B = {} PROVE Splits(cs, A, B)
  <2>0. DOMAIN cs \subseteq A /\ DOMAIN cs \cap B = {} BY <1>1
  <2>1. Only(cs, A) = cs BY <1>1, <2>0, OnlyAll
  <2>2. IsArchives(Only(cs, B)) /\ DOMAIN Only(cs, B) = {} BY <1>1, <2>0, OnlyIs
  <2>3. Archived(Only(cs, B)) = <<>> BY <2>2, ArchivedNone
  <2>4. Archived(cs) \in Seq(Nat) BY <1>1, ArchivedType
  <2>5. Archived(cs) \o <<>> = Archived(cs) BY <2>4, JoinThree
  <2> QED BY <2>1, <2>3, <2>5
<1>2. 0 \in S
  <2>1. SUFFICES ASSUME NEW cs, NEW A, NEW B, IsArchives(cs), Cardinality(DOMAIN cs) = 0, Parts(cs, A, B)
                 PROVE  Splits(cs, A, B)
    OBVIOUS
  <2>2. DOMAIN cs = {} BY <2>1, FS_EmptySet DEF IsArchives
  <2>3. B = {} BY <2>1, <2>2
  <2> QED BY <1>1, <2>1, <2>3
<1>3. ASSUME NEW c \in Nat, c \in S PROVE c + 1 \in S
  <2>1. SUFFICES ASSUME NEW cs, NEW A, NEW B, IsArchives(cs), Cardinality(DOMAIN cs) = c + 1, Parts(cs, A, B), B # {}
                 PROVE  Splits(cs, A, B)
    BY <1>1
  <2> DEFINE D == DOMAIN cs
  <2>2. D # {} /\ D \subseteq Nat BY <2>1 DEF IsArchives
  <2>3. PICK x \in D :
              /\ \A y \in D : y <= x
              /\ IsArchives(Only(cs, D \ {x})) /\ DOMAIN Only(cs, D \ {x}) = D \ {x}
              /\ Cardinality(D \ {x}) \in Nat
              /\ Cardinality(D) = Cardinality(D \ {x}) + 1
              /\ Archived(cs) = Archived(Only(cs, D \ {x})) \o cs[x]
    BY <2>1, <2>2, ButNewest
  <2>4. x \in B /\ x \notin A
    <3>1. PICK b \in B : TRUE BY <2>1
    <3>2. b \in D /\ b <= x /\ b \in Nat /\ x \in Nat BY <2>1, <2>2, <2>3
    <3>3. ~(x < b) BY <3>2
    <3>4. x \notin A BY <2>1, <3>1, <3>3
    <3> QED BY <2>1, <3>4
  <2> DEFINE bs == Only(cs, D \ {x})
             C == B \ {x}
  <2>5. Cardinality(DOMAIN bs) = c
    <3>1. Cardinality(D \ {x}) = c BY <2>1, <2>3
    <3> QED BY <2>3, <3>1
  <2>6. Parts(bs, A, C)
    <3>1. D \ {x} = A \cup C BY <2>1, <2>4
    <3> QED BY <2>1, <2>3, <3>1
  <2>7. IsArchives(bs) BY <2>3
  <2>8. Splits(bs, A, C) BY <1>3, <2>5, <2>6, <2>7
  <2>9. Only(bs, A) = Only(cs, A) /\ Only(bs, C) = Only(cs, C)
    <3>1. (D \ {x}) \cap A = A /\ (D \ {x}) \cap C = C BY <2>1, <2>4
    <3>2. Only(bs, A) = Only(cs, (D \ {x}) \cap A) BY <2>1, OnlyOnly
    <3>3. Only(bs, C) = Only(cs, (D \ {x}) \cap C) BY <2>1, OnlyOnly
    <3> QED BY <3>1, <3>2, <3>3
  <2> DEFINE hs == Only(cs, B)
  <2>10. IsArchives(hs) /\ DOMAIN hs = B /\ hs[x] = cs[x]
    <3>1. D \cap B = B BY <2>1
    <3> QED BY <2>1, <2>4, <3>1, OnlyIs
  <2>11. Archived(hs) = Archived(Only(cs, C)) \o cs[x]
    <3>1. x \in DOMAIN hs /\ \A y \in DOMAIN hs : y <= x BY <2>1, <2>3, <2>4, <2>10
    <3>2. Only(hs, C) = Only(cs, C)
      <4>1. B \cap C = C OBVIOUS
      <4>2. Only(hs, C) = Only(cs, B \cap C) BY <2>1, OnlyOnly
      <4> QED BY <4>1, <4>2
    <3> HIDE DEF hs
    <3>3. Archived(hs) = Archived(Only(hs, DOMAIN hs \ {x})) \o hs[x] BY <2>10, <3>1, ArchivedLast
    <3>4. Only(hs, DOMAIN hs \ {x}) = Only(cs, C) BY <2>10, <3>2
    <3> QED BY <2>10, <3>3, <3>4
  <2> DEFINE p == Archived(Only(cs, A))
             q == Archived(Only(cs, C))
             r == cs[x]
  <2>12. p \in Seq(Nat) /\ q \in Seq(Nat) /\ r \in Seq(Nat)
    <3>1. IsArchives(Only(cs, A)) /\ IsArchives(Only(cs, C)) BY <2>1, OnlyIs
    <3>2. cs[x] \in Seq(Nat) BY <2>1 DEF IsArchives
    <3> QED BY <3>1, <3>2, ArchivedType
  <2>13. Archived(cs) = (p \o q) \o r BY <2>3, <2>8, <2>9
  <2>14. Archived(hs) = q \o r BY <2>11
  <2>15. (p \o q) \o r = p \o (q \o r) BY ONLY <2>12, JoinThree
  <2> QED BY <2>13, <2>14, <2>15
<1>4. S \in SUBSET Nat OBVIOUS
<1>5. Parts(as, L, H) OBVIOUS
<1> HIDE DEF S
<1>6. \A c \in Nat : c \in S BY <1>2, <1>3, <1>4, Induction
<1>7. Cardinality(DOMAIN as) \in Nat BY Counted
<1>8. Splits(as, L, H)
  <2>1. Cardinality(DOMAIN as) \in S BY <1>6, <1>7
  <2>2. \A cs, A, B : IsArchives(cs) /\ Cardinality(DOMAIN cs) = Cardinality(DOMAIN as) /\ Parts(cs, A, B)
                        => Splits(cs, A, B)
    BY <2>1 DEF S
  <2> HIDE DEF Splits, Parts
  <2> QED BY <1>5, <2>2
<1> QED BY <1>8

-----------------------------------------------------------------------------
(* Archives that lie end to end.                                           *)

\* The frames before an archive's first one.
Start(as, n) == n - Len(as[n])

\* Each archive starts where the one before it ends, and has a frame.
Chained(as) ==
    \A n \in DOMAIN as :
        /\ Len(as[n]) # 0 /\ Len(as[n]) <= n
        /\ \A m \in DOMAIN as : m < n => m <= Start(as, n) /\ Start(as, n) \in DOMAIN as

\* An archive starts before it ends.
LEMMA StartIs ==
    ASSUME NEW as, IsArchives(as), Chained(as), NEW n \in DOMAIN as
    PROVE  n \in Nat /\ Len(as[n]) \in Nat /\ Start(as, n) \in Nat /\ Start(as, n) < n /\ Start(as, n) + Len(as[n]) = n
<1>0. DOMAIN as \subseteq Nat /\ \A m \in DOMAIN as : as[m] \in Seq(Nat) BY DEF IsArchives
<1>1. n \in Nat /\ as[n] \in Seq(Nat) BY <1>0
<1>2. Len(as[n]) \in Nat
  <2>1. \A t \in Seq(Nat) : Len(t) \in Nat OBVIOUS
  <2> QED BY <1>1, <2>1
<1>3. Len(as[n]) # 0 /\ Len(as[n]) <= n BY DEF Chained
<1>4. \A a, b \in Nat : b # 0 /\ b <= a => a - b \in Nat /\ a - b < a /\ (a - b) + b = a OBVIOUS
<1>5. n - Len(as[n]) \in Nat /\ n - Len(as[n]) < n /\ (n - Len(as[n])) + Len(as[n]) = n
  BY <1>1, <1>2, <1>3, <1>4
<1> QED BY <1>1, <1>2, <1>5 DEF Start

\* A stretch of them.
Stretch(D, E) == E \subseteq D /\ \A a, c \in E, b \in D : a <= b /\ b <= c => b \in E

\* A stretch of a chain is a chain.
LEMMA ChainedOnly ==
    ASSUME NEW as, IsArchives(as), Chained(as), NEW E, Stretch(DOMAIN as, E)
    PROVE  /\ IsArchives(Only(as, E)) /\ DOMAIN Only(as, E) = E /\ Chained(Only(as, E))
           /\ \A n \in E : Only(as, E)[n] = as[n] /\ Start(Only(as, E), n) = Start(as, n)
<1> DEFINE o == Only(as, E)
<1>0. E \subseteq DOMAIN as BY DEF Stretch
<1>1. IsArchives(o) /\ DOMAIN o = E /\ \A n \in E : o[n] = as[n]
  <2>1. DOMAIN as \cap E = E BY <1>0
  <2> QED BY <2>1, OnlyIs
<1> HIDE DEF o
<1>2. \A n \in E : Start(o, n) = Start(as, n) BY <1>1 DEF Start
<1>3. ASSUME NEW n \in E PROVE Len(o[n]) # 0 /\ Len(o[n]) <= n BY <1>0, <1>1 DEF Chained
<1>4. ASSUME NEW n \in E, NEW m \in E, m < n PROVE m <= Start(o, n) /\ Start(o, n) \in E
  <2> DEFINE s == Start(as, n)
  <2>1. m <= s /\ s \in DOMAIN as BY <1>0, <1>4 DEF Chained
  <2>2. s < n /\ n \in Nat /\ s \in Nat BY <1>0, StartIs
  <2> HIDE DEF s
  <2>3. s <= n /\ s \in Nat BY <2>2
  <2>4. s \in E BY <2>1, <2>3 DEF Stretch
  <2>5. Start(o, n) = s BY <1>2 DEF s
  <2> QED BY <2>1, <2>4, <2>5
<1>5. Chained(o) BY <1>1, <1>3, <1>4 DEF Chained
<1> QED BY <1>1, <1>2, <1>5 DEF o

\* The frames of a chain reach from its start to its end.
LEMMA ChainLen ==
    ASSUME NEW as, IsArchives(as), Chained(as), NEW l \in DOMAIN as, NEW x \in DOMAIN as,
           \A y \in DOMAIN as : l <= y /\ y <= x
    PROVE  Len(Archived(as)) = x - Start(as, l)
<1> DEFINE Ends(cs, a, b) == a \in DOMAIN cs /\ b \in DOMAIN cs /\ \A y \in DOMAIN cs : a <= y /\ y <= b
           S == {c \in Nat : \A cs, a, b : IsArchives(cs) /\ Chained(cs) /\ Cardinality(DOMAIN cs) = c /\ Ends(cs, a, b)
                                  => Len(Archived(cs)) = b - Start(cs, a)}
<1>1. 0 \in S
  <2>1. \A cs : IsArchives(cs) /\ Cardinality(DOMAIN cs) = 0 => DOMAIN cs = {}
    BY FS_EmptySet DEF IsArchives
  <2> QED BY <2>1
<1>2. ASSUME NEW c \in Nat, c \in S PROVE c + 1 \in S
  <2>1. SUFFICES ASSUME NEW cs, NEW a, NEW b, IsArchives(cs), Chained(cs), Cardinality(DOMAIN cs) = c + 1, Ends(cs, a, b)
                 PROVE  Len(Archived(cs)) = b - Start(cs, a)
    OBVIOUS
  <2> DEFINE D == DOMAIN cs
             E == D \ {b}
             bs == Only(cs, E)
  <2>2. D \subseteq Nat /\ Numbers(D) BY <2>1 DEF IsArchives, Numbers
  <2>3. Stretch(D, E)
    <3>1. ASSUME NEW u \in E, NEW w \in E, NEW v \in D, u <= v, v <= w PROVE v \in E
      <4>1. w <= b /\ w # b /\ w \in Nat /\ b \in Nat /\ v \in Nat BY <2>1, <2>2
      <4>2. v # b BY <3>1, <4>1
      <4> QED BY <4>2
    <3> QED BY <3>1 DEF Stretch
  <2>4. IsArchives(bs) /\ DOMAIN bs = E /\ Chained(bs) /\ \A n \in E : Start(bs, n) = Start(cs, n)
    BY <2>1, <2>3, ChainedOnly
  <2>5. Cardinality(E) = c
    <3>1. Cardinality(E) \in Nat /\ Cardinality(D) = Cardinality(E) + 1 BY <2>1, <2>2, Taking
    <3> HIDE DEF D, E
    <3>2. Cardinality(D) = c + 1 BY <2>1 DEF D
    <3> QED BY <3>1, <3>2
  <2>6. Archived(cs) = Archived(bs) \o cs[b] BY <2>1, ArchivedLast
  <2>7. Archived(bs) \in Seq(Nat) /\ cs[b] \in Seq(Nat)
    <3>1. cs[b] \in Seq(Nat) BY <2>1 DEF IsArchives
    <3> QED BY <2>4, <3>1, ArchivedType
  <2>8. Len(Archived(cs)) = Len(Archived(bs)) + Len(cs[b]) /\ Len(Archived(bs)) \in Nat
    <3> HIDE DEF bs
    <3>1. Len(Archived(bs) \o cs[b]) = Len(Archived(bs)) + Len(cs[b]) /\ Len(Archived(bs)) \in Nat
      BY <2>7
    <3> QED BY <2>6, <3>1
  <2>9. /\ b \in Nat /\ Len(cs[b]) \in Nat /\ Start(cs, b) \in Nat /\ Start(cs, b) < b /\ Start(cs, b) + Len(cs[b]) = b
        /\ a \in Nat /\ Start(cs, a) \in Nat
    BY <2>1, StartIs
  <2>10. CASE E = {}
    <3>1. a = b BY <2>1, <2>10
    <3>2. Archived(bs) = <<>> BY <2>4, <2>10, ArchivedNone
    <3>3. Len(Archived(bs)) = 0 BY <3>2
    <3> QED BY <2>8, <2>9, <3>1, <3>3
  <2>11. CASE E # {}
    <3>1. PICK e \in E : TRUE BY <2>11
    <3>2. e \in D /\ e # b /\ e <= b /\ e \in Nat /\ a <= e BY <2>1, <2>2, <3>1
    <3>3. e < b /\ a < b BY <2>9, <3>2
    <3>4. a \in E BY <2>1, <2>9, <3>3
    <3> DEFINE s == Start(cs, b)
    <3>5. s \in D /\ \A m \in D : m < b => m <= s BY <2>1, <3>2, <3>3 DEF Chained
    <3>6. s \in E BY <2>9, <3>5
    <3>7. Ends(bs, a, s)
      <4>1. ASSUME NEW y \in E PROVE a <= y /\ y <= s
        <5>1. y \in D /\ y <= b /\ y # b /\ y \in Nat /\ a <= y BY <2>1, <2>2
        <5>2. y < b BY <2>9, <5>1
        <5> QED BY <3>5, <5>1, <5>2
      <4> QED BY <2>4, <3>4, <3>6, <4>1
    <3>8. Len(Archived(bs)) = s - Start(bs, a)
      <4>1. IsArchives(bs) /\ Chained(bs) /\ Cardinality(DOMAIN bs) = c BY <2>4, <2>5
      <4> HIDE DEF bs, Ends, s
      <4> QED BY <1>2, <3>7, <4>1
    <3>9. Start(bs, a) = Start(cs, a) BY <2>4, <3>4
    <3> HIDE DEF bs, E, D
    <3> QED BY <2>8, <2>9, <3>8, <3>9
  <2> QED BY <2>10, <2>11
<1>3. S \in SUBSET Nat OBVIOUS
<1>4. Ends(as, l, x) OBVIOUS
<1> HIDE DEF S
<1>5. \A c \in Nat : c \in S BY <1>1, <1>2, <1>3, Induction
<1>6. Cardinality(DOMAIN as) \in S BY <1>5, Counted
<1>7. \A cs, a, b : IsArchives(cs) /\ Chained(cs) /\ Cardinality(DOMAIN cs) = Cardinality(DOMAIN as) /\ Ends(cs, a, b)
                       => Len(Archived(cs)) = b - Start(cs, a)
  BY <1>6 DEF S
<1> HIDE DEF Ends
<1> QED BY <1>4, <1>7

\* There is one store without archives.
LEMMA NoArchives == IsArchives(<<>>) /\ DOMAIN <<>> = {} /\ \A as : IsArchives(as) /\ DOMAIN as = {} => as = <<>>
<1>1. DOMAIN <<>> = {} OBVIOUS
<1>2. <<>> = [n \in DOMAIN <<>> |-> <<>>[n]] BY <1>1
<1>3. IsArchives(<<>>) BY <1>1, <1>2, FS_EmptySet DEF IsArchives
<1>4. ASSUME NEW as, IsArchives(as), DOMAIN as = {} PROVE as = <<>>
  <2>1. \A n \in DOMAIN as : as[n] = <<>>[n] BY <1>4
  <2> QED BY <1>1, <1>3, <1>4, <2>1, SameArchives
<1> QED BY <1>1, <1>3, <1>4

\* The greatest number.
LEMMA MaxIs == ASSUME NEW D, Numbers(D), D # {} PROVE Max(D) \in D /\ \A y \in D : y <= Max(D)
<1>1. \E x \in D : \A y \in D : y <= x BY Greatest
<1>2. \E x \in D : \A y \in D : x >= y
  <2>1. PICK x \in D : \A y \in D : y <= x BY <1>1
  <2>2. D \subseteq Nat BY DEF Numbers
  <2>3. \A y \in D : x >= y BY <2>1, <2>2
  <2> QED BY <2>3
<1>3. Max(D) \in D /\ \A y \in D : Max(D) >= y BY <1>2 DEF Max
<1>4. D \subseteq Nat BY DEF Numbers
<1>5. \A a, b \in Nat : a >= b => b <= a OBVIOUS
<1> QED BY <1>3, <1>4, <1>5

\* The least number.
LEMMA MinIs == ASSUME NEW D, D \subseteq Nat, D # {} PROVE Min(D) \in D /\ \A y \in D : Min(D) <= y
<1>0. D \in SUBSET Nat OBVIOUS
<1>1. \E x \in D : \A y \in D : x <= y BY <1>0, LeastOf
<1> QED BY <1>1 DEF Min

\* The archives as with w under the number x.
With(as, x, w) == [n \in DOMAIN as \cup {x} |-> IF n = x THEN w ELSE as[n]]

\* Where the next archive starts: at the number of the last, if there is one.
Next1(as, s) == s \in Nat /\ (\A y \in DOMAIN as : y <= s) /\ (DOMAIN as # {} => s \in DOMAIN as)

\* bs is as and the frames w from s to x.
Grown(as, bs, s, x, w) ==
    /\ x \in Nat /\ s < x /\ x \notin DOMAIN as
    /\ IsArchives(bs) /\ Chained(bs) /\ DOMAIN bs = DOMAIN as \cup {x}
    /\ Archived(bs) = Archived(as) \o w
    /\ bs[x] = w /\ Start(bs, x) = s
    /\ \A n \in DOMAIN as : bs[n] = as[n] /\ Start(bs, n) = Start(as, n)

\* Archives that are a chain stay one when the next takes the frames that follow.
LEMMA AddNewest ==
    ASSUME NEW as, IsArchives(as), Chained(as), NEW s, Next1(as, s), NEW w \in Seq(Nat), w # <<>>,
           NEW x, x = s + Len(w)
    PROVE  Grown(as, With(as, x, w), s, x, w)
<1> DEFINE bs == With(as, x, w)
<1>1. Len(w) \in Nat /\ Len(w) # 0 /\ s \in Nat BY DEF Next1
<1>2. /\ x \in Nat /\ s < x /\ x - Len(w) = s /\ Len(w) <= x
      /\ \A y \in Nat : y <= s => y < x
  BY <1>1
<1>3. DOMAIN as \subseteq Nat /\ IsFiniteSet(DOMAIN as) /\ \A n \in DOMAIN as : as[n] \in Seq(Nat)
  BY DEF IsArchives
<1>4. \A y \in DOMAIN as : y < x /\ y <= s /\ y # x
  <2>1. \A y \in DOMAIN as : y \in Nat /\ y <= s BY <1>3 DEF Next1
  <2>2. \A y \in Nat : y < x => y # x BY <1>2
  <2> QED BY <1>2, <2>1, <2>2
<1>5. x \notin DOMAIN as BY <1>4
<1>6. DOMAIN bs = DOMAIN as \cup {x} /\ bs[x] = w /\ \A n \in DOMAIN as : bs[n] = as[n]
  BY <1>5 DEF With
<1>7. bs = [n \in DOMAIN bs |-> bs[n]] BY DEF With
<1> HIDE DEF bs
<1>8. IsFiniteSet(DOMAIN bs)
  <2>1. IsFiniteSet(DOMAIN as) BY <1>3
  <2>2. IsFiniteSet(DOMAIN as \cup {x}) BY ONLY <2>1, FS_AddElement
  <2> QED BY <1>6, <2>2
<1>9. IsArchives(bs)
  <2>1. DOMAIN bs \subseteq Nat BY <1>2, <1>3, <1>6
  <2>2. \A n \in DOMAIN bs : bs[n] \in Seq(Nat) BY <1>3, <1>6
  <2> QED BY <1>7, <1>8, <2>1, <2>2 DEF IsArchives
<1>10. Start(bs, x) = s BY <1>2, <1>6 DEF Start
<1>11. \A n \in DOMAIN as : Start(bs, n) = Start(as, n) BY <1>6 DEF Start
<1>12. Chained(bs)
  <2>1. ASSUME NEW n \in DOMAIN bs PROVE Len(bs[n]) # 0 /\ Len(bs[n]) <= n
    <3>1. CASE n = x BY <1>1, <1>2, <1>6, <3>1
    <3>2. CASE n # x
      <4>1. n \in DOMAIN as BY <1>6, <3>2
      <4> QED BY <1>6, <4>1 DEF Chained
    <3> QED BY <3>1, <3>2
  <2>2. ASSUME NEW n \in DOMAIN bs, NEW m \in DOMAIN bs, m < n
        PROVE  m <= Start(bs, n) /\ Start(bs, n) \in DOMAIN bs
    <3>1. CASE n = x
      <4>1. m # x
        <5>1. ~(x < x) BY <1>2
        <5> QED BY <2>2, <3>1, <5>1
      <4>2. m \in DOMAIN as BY <1>6, <4>1
      <4>3. m <= s /\ s \in DOMAIN as BY <1>4, <4>2 DEF Next1
      <4> QED BY <1>6, <1>10, <3>1, <4>3
    <3>2. CASE n # x
      <4>1. n \in DOMAIN as BY <1>6, <3>2
      <4>2. m # x
        <5>1. n \in Nat /\ n < x BY <1>3, <1>4, <4>1
        <5>2. ~(x < n) BY <1>2, <5>1
        <5> QED BY <2>2, <5>2
      <4>3. m \in DOMAIN as BY <1>6, <4>2
      <4>4. m <= Start(as, n) /\ Start(as, n) \in DOMAIN as BY <2>2, <4>1, <4>3 DEF Chained
      <4> QED BY <1>6, <1>11, <4>1, <4>4
    <3> QED BY <3>1, <3>2
  <2> QED BY <2>1, <2>2 DEF Chained
<1>13. Archived(bs) = Archived(as) \o w
  <2>0. \A a, b \in Nat : a < b => a <= b OBVIOUS
  <2>1. \A y \in DOMAIN bs : y <= x
    <3>1. ASSUME NEW y \in DOMAIN bs PROVE y <= x
      <4>1. CASE y = x BY <1>2, <4>1
      <4>2. CASE y # x
        <5>1. y \in DOMAIN as /\ y \in Nat /\ y < x BY <1>3, <1>4, <1>6, <4>2
        <5> QED BY <1>2, <2>0, <5>1
      <4> QED BY <4>1, <4>2
    <3> QED BY <3>1
  <2>2. Archived(bs) = Archived(Only(bs, DOMAIN bs \ {x})) \o bs[x]
    BY <1>6, <1>9, <2>1, ArchivedLast
  <2> DEFINE o == Only(bs, DOMAIN bs \ {x})
  <2>3. DOMAIN bs \cap (DOMAIN bs \ {x}) = DOMAIN as BY <1>5, <1>6
  <2>4. IsArchives(o) /\ DOMAIN o = DOMAIN as /\ \A n \in DOMAIN as : o[n] = bs[n]
    BY <1>9, <2>3, OnlyIs
  <2> HIDE DEF o
  <2>5. o = as BY <1>6, <2>4, SameArchives
  <2> QED BY <1>6, <2>2, <2>5 DEF o
<1> QED BY <1>2, <1>5, <1>6, <1>9, <1>10, <1>11, <1>12, <1>13 DEF bs, Grown

\* The oldest of the archives.
Oldest(as, D) == D \subseteq DOMAIN as /\ \A n \in D, m \in DOMAIN as : m <= n => m \in D

\* Archives that are a chain stay one without the oldest, whose frames come first.
LEMMA DropOldest ==
    ASSUME NEW as, IsArchives(as), Chained(as), NEW D, Oldest(as, D)
    PROVE  /\ IsArchives(Without(as, D)) /\ Chained(Without(as, D)) /\ DOMAIN Without(as, D) = DOMAIN as \ D
           /\ \A n \in DOMAIN as \ D : Without(as, D)[n] = as[n] /\ Start(Without(as, D), n) = Start(as, n)
           /\ IsArchives(Only(as, D)) /\ Chained(Only(as, D)) /\ DOMAIN Only(as, D) = D
           /\ \A n \in D : Only(as, D)[n] = as[n] /\ Start(Only(as, D), n) = Start(as, n)
           /\ Archived(as) = Archived(Only(as, D)) \o Archived(Without(as, D))
<1> DEFINE E == DOMAIN as \ D
<1>0. DOMAIN as \subseteq Nat /\ D \subseteq DOMAIN as BY DEF IsArchives, Oldest
<1>1. Without(as, D) = Only(as, E) BY WithoutIs
<1>2. Stretch(DOMAIN as, E)
  <2>1. ASSUME NEW a \in E, NEW c \in E, NEW b \in DOMAIN as, a <= b, b <= c PROVE b \in E
    BY <2>1 DEF Oldest
  <2> QED BY <2>1 DEF Stretch
<1>3. Stretch(DOMAIN as, D) BY <1>0 DEF Stretch, Oldest
<1>4. \A a \in D, b \in E : a < b
  <2>1. ASSUME NEW a \in D, NEW b \in E PROVE a < b
    <3>1. a \in Nat /\ b \in Nat /\ ~(b <= a) BY <1>0 DEF Oldest
    <3> QED BY <3>1
  <2> QED BY <2>1
<1>5. DOMAIN as = D \cup E BY <1>0
<1>6. Archived(as) = Archived(Only(as, D)) \o Archived(Only(as, E)) BY <1>4, <1>5, ArchivedSplit
<1>7. /\ IsArchives(Only(as, E)) /\ DOMAIN Only(as, E) = E /\ Chained(Only(as, E))
      /\ \A n \in E : Only(as, E)[n] = as[n] /\ Start(Only(as, E), n) = Start(as, n)
  BY <1>2, ChainedOnly
<1>8. /\ IsArchives(Only(as, D)) /\ DOMAIN Only(as, D) = D /\ Chained(Only(as, D))
      /\ \A n \in D : Only(as, D)[n] = as[n] /\ Start(Only(as, D), n) = Start(as, n)
  BY <1>3, ChainedOnly
<1> QED BY <1>1, <1>6, <1>7, <1>8

\* How far a chain that starts at s reaches.
LEMMA ChainEnd ==
    ASSUME NEW as, IsArchives(as), Chained(as), DOMAIN as # {}
    PROVE  /\ Max(DOMAIN as) \in DOMAIN as /\ Max(DOMAIN as) \in Nat
           /\ Min(DOMAIN as) \in DOMAIN as /\ Min(DOMAIN as) \in Nat
           /\ \A y \in DOMAIN as : Min(DOMAIN as) <= y /\ y <= Max(DOMAIN as)
           /\ Start(as, Min(DOMAIN as)) \in Nat /\ Start(as, Min(DOMAIN as)) < Min(DOMAIN as)
           /\ Start(as, Min(DOMAIN as)) \notin DOMAIN as
           /\ Len(Archived(as)) \in Nat /\ Start(as, Min(DOMAIN as)) + Len(Archived(as)) = Max(DOMAIN as)
           /\ Len(Archived(as)) > 0
<1> DEFINE x == Max(DOMAIN as)
           l == Min(DOMAIN as)
           s == Start(as, l)
<1>1. Numbers(DOMAIN as) /\ DOMAIN as \subseteq Nat BY DEF IsArchives, Numbers
<1>2. x \in DOMAIN as /\ \A y \in DOMAIN as : y <= x BY <1>1, MaxIs
<1>3. l \in DOMAIN as /\ \A y \in DOMAIN as : l <= y BY <1>1, MinIs
<1>4. x \in Nat /\ l \in Nat BY <1>1, <1>2, <1>3
<1> HIDE DEF x, l
<1>5. s \in Nat /\ s < l BY <1>3, StartIs
<1>6. Len(Archived(as)) = x - s BY <1>2, <1>3, ChainLen
<1>7. s \notin DOMAIN as
  <2>1. ~(l <= s)
    <3> HIDE DEF s
    <3> QED BY <1>4, <1>5
  <2> QED BY <1>3, <2>1
<1>8. Len(Archived(as)) \in Nat
  <2>1. Archived(as) \in Seq(Nat) BY ArchivedType
  <2>2. \A t \in Seq(Nat) : Len(t) \in Nat OBVIOUS
  <2> QED BY <2>1, <2>2
<1>9. s + Len(Archived(as)) = x /\ Len(Archived(as)) > 0
  <2>1. l <= x BY <1>2, <1>3
  <2> HIDE DEF s
  <2>2. \A a, b, c, d \in Nat : d = a - b /\ b < c /\ c <= a => b + d = a /\ d > 0 OBVIOUS
  <2> QED BY <1>4, <1>5, <1>6, <1>8, <2>1, <2>2
<1> QED BY <1>2, <1>3, <1>4, <1>5, <1>7, <1>8, <1>9 DEF x, l

-----------------------------------------------------------------------------
(* The archives, the floor and the steps that touch them.                  *)

\* What is known of the archives whatever fails.
ArchivesInv ==
    /\ IsArchives(archives) /\ Chained(archives)
    /\ floor \in Nat /\ wal_horizon_floor \in Nat /\ wal_frames_written \in Nat /\ errors \in Nat
    /\ pc # "down" => floor <= wal_horizon_floor
    /\ pc \in {"floor", "marker", "delete"} => Oldest(archives, doomed)

\* Only the empty sequence has length 0.
LEMMA SeqLen == \A t \in Seq(Nat) : Len(t) \in Nat /\ (Len(t) = 0 <=> t = <<>>) OBVIOUS

\* The frames in the store are counted.
LEMMA TotalType == ASSUME NEW as, IsArchives(as), NEW w \in Seq(Nat), NEW f \in Nat
                   PROVE  Len(Archived(as)) \in Nat /\ f + Len(Archived(as)) + Len(w) \in Nat
<1>1. Len(Archived(as)) \in Nat BY ArchivedType, SeqLen
<1>2. Len(w) \in Nat BY SeqLen
<1>3. \A a, b, c \in Nat : a + b + c \in Nat OBVIOUS
<1> QED BY <1>1, <1>2, <1>3

\* The archives under a number are the oldest.
LEMMA UnderIsOldest ==
    ASSUME NEW as, IsArchives(as), NEW f \in Nat
    PROVE  Oldest(as, {n \in DOMAIN as : n <= f})
<1>1. DOMAIN as \subseteq Nat BY DEF IsArchives
<1>2. \A a, b \in Nat : b <= a /\ a <= f => b <= f OBVIOUS
<1> QED BY <1>1, <1>2 DEF Oldest

\* Retention takes the oldest, and never the newest.
LEMMA SurplusIs ==
    ASSUME IsArchives(archives), Chained(archives)
    PROVE  /\ Oldest(archives, Surplus)
           /\ Surplus # {} => /\ Keep # 0
                              /\ \A n \in Surplus : Cardinality({m \in DOMAIN archives : m > n}) >= Keep
                              /\ Len(Archived(Only(archives, Surplus))) < Len(Archived(archives))
<1> DEFINE D == DOMAIN archives
           Newer(n) == {m \in D : m > n}
<1>0. Keep \in Nat /\ D \subseteq Nat /\ IsFiniteSet(D) BY SnapshotBounds DEF IsArchives
<1>1. ASSUME NEW n \in D PROVE IsFiniteSet(Newer(n)) /\ Cardinality(Newer(n)) \in Nat
  <2>1. Newer(n) \in SUBSET D OBVIOUS
  <2>2. IsFiniteSet(Newer(n)) BY <1>0, <2>1, FS_Subset
  <2> QED BY <2>2, FS_CardinalityType
<1>2. Oldest(archives, Surplus)
  <2>1. CASE Keep = 0 BY <2>1 DEF Surplus, Oldest
  <2>2. CASE Keep # 0
    <3>1. Surplus = {n \in D : Cardinality(Newer(n)) >= Keep} BY <2>2 DEF Surplus
    <3>2. ASSUME NEW n \in Surplus, NEW m \in D, m <= n PROVE m \in Surplus
      <4>1. n \in D /\ Cardinality(Newer(n)) >= Keep BY <3>1
      <4>2. Newer(n) \in SUBSET Newer(m) BY <1>0, <3>2, <4>1
      <4>3. Cardinality(Newer(n)) <= Cardinality(Newer(m)) BY <1>1, <4>2, FS_Subset
      <4>4. Cardinality(Newer(n)) \in Nat /\ Cardinality(Newer(m)) \in Nat BY <1>1, <4>1
      <4>5. \A a, b, c \in Nat : a >= c /\ a <= b => b >= c OBVIOUS
      <4>6. Cardinality(Newer(m)) >= Keep BY <1>0, <4>1, <4>3, <4>4, <4>5
      <4> QED BY <3>1, <4>6
    <3>3. Surplus \subseteq D BY <3>1
    <3> QED BY <3>2, <3>3 DEF Oldest
  <2> QED BY <2>1, <2>2
<1>3. ASSUME Surplus # {} PROVE /\ Keep # 0 /\ \A n \in Surplus : Cardinality(Newer(n)) >= Keep
                                /\ Len(Archived(Only(archives, Surplus))) < Len(Archived(archives))
  <2>1. Keep # 0 BY <1>3 DEF Surplus
  <2>2. Surplus = {n \in D : Cardinality(Newer(n)) >= Keep} BY <2>1 DEF Surplus
  <2>3. D # {} BY <1>3, <2>2
  <2> DEFINE x == Max(D)
             rs == Without(archives, Surplus)
             os == Only(archives, Surplus)
  <2>4. x \in D /\ \A y \in D : y <= x BY <2>3, ChainEnd
  <2>5. Newer(x) = {}
    <3>1. \A y \in D : y \in Nat /\ y <= x /\ x \in Nat BY <1>0, <2>4
    <3>2. \A a, b \in Nat : a <= b => ~(a > b) OBVIOUS
    <3> QED BY <3>1, <3>2
  <2>6. Cardinality(Newer(x)) = 0 BY <2>5, FS_EmptySet
  <2>7. x \notin Surplus
    <3>1. ~(0 >= Keep) BY <1>0, <2>1
    <3> QED BY <2>2, <2>6, <3>1
  <2>8. IsArchives(rs) /\ Chained(rs) /\ DOMAIN rs = D \ Surplus /\ IsArchives(os) /\ Archived(archives) = Archived(os) \o Archived(rs)
    BY <1>2, DropOldest
  <2>9. DOMAIN rs # {} BY <2>4, <2>7, <2>8
  <2> HIDE DEF rs, os
  <2>10. Len(Archived(rs)) > 0 /\ Len(Archived(rs)) \in Nat BY <2>8, <2>9, ChainEnd
  <2>11. Archived(rs) \in Seq(Nat) /\ Archived(os) \in Seq(Nat) BY <2>8, ArchivedType
  <2>12. Len(Archived(archives)) = Len(Archived(os)) + Len(Archived(rs)) /\ Len(Archived(os)) \in Nat
    <3>1. \A p, q \in Seq(Nat) : Len(p \o q) = Len(p) + Len(q) /\ Len(p) \in Nat OBVIOUS
    <3> QED BY <2>8, <2>11, <3>1
  <2>13. Len(Archived(os)) < Len(Archived(archives))
    <3>1. \A a, b, c \in Nat : a = b + c /\ c > 0 => b < a OBVIOUS
    <3>2. Len(Archived(archives)) \in Nat BY ArchivedType, SeqLen
    <3> QED BY <2>10, <2>12, <3>1, <3>2
  <2> QED BY <2>1, <2>2, <2>13 DEF os
<1> QED BY <1>2, <1>3

-----------------------------------------------------------------------------
(* What the steps do to the archives.                                      *)

\* Open: orphans go, and the handle takes over the floor.
LEMMA OpenIs ==
    ASSUME TypeInv, ArchivesInv, Open
    PROVE  /\ Oldest(archives, Orphans) /\ archives' = Without(archives, Orphans)
           /\ pc = "down" /\ pc' = "open" /\ wal_horizon_floor' = floor
           /\ wal_frames_written' = floor + Len(Archived(archives')) + Len(wal)
           /\ UNCHANGED <<wal, snapshot, intent, floor, made, numbers, errors, kind, buf, doomed>>
<1>1. Oldest(archives, Orphans) BY UnderIsOldest DEF ArchivesInv, Orphans
<1> QED BY <1>1 DEF Open, Load

\* Archiving: the WAL becomes the newest archive.
LEMMA ArchiveIs ==
    ASSUME TypeInv, ArchivesInv, pc = "archive", ~NothingToArchive
    PROVE  /\ ArchiveName \notin DOMAIN archives
           /\ \E s : /\ Next1(archives, s) /\ Grown(archives, With(archives, ArchiveName, wal), s, ArchiveName, wal)
                     /\ DOMAIN archives = {} => s = wal_horizon_floor
<1>1. IsArchives(archives) /\ Chained(archives) /\ wal_horizon_floor \in Nat /\ wal \in Seq(Nat) /\ Len(wal) \in Nat
  BY SeqLen DEF ArchivesInv, TypeInv
<1>2. wal # <<>> BY DEF NothingToArchive
<1>3. \E s : /\ Next1(archives, s) /\ ArchiveName = s + Len(wal)
             /\ DOMAIN archives = {} => s = wal_horizon_floor
  <2>1. CASE DOMAIN archives = {}
    <3>1. archives = <<>> BY <1>1, <2>1, NoArchives
    <3>2. ArchiveName = Len(wal) + wal_horizon_floor BY <3>1 DEF ArchiveName
    <3>3. ArchiveName = wal_horizon_floor + Len(wal) BY <1>1, <3>2
    <3>4. Next1(archives, wal_horizon_floor) BY <1>1, <2>1 DEF Next1
    <3> QED BY <3>3, <3>4
  <2>2. CASE DOMAIN archives # {}
    <3>1. archives # <<>> BY <2>2, NoArchives
    <3> DEFINE x == Max(DOMAIN archives)
    <3>2. ArchiveName = Len(wal) + x BY <3>1 DEF ArchiveName
    <3>3. x \in DOMAIN archives /\ x \in Nat /\ \A y \in DOMAIN archives : y <= x
      BY <1>1, <2>2, ChainEnd
    <3> HIDE DEF x
    <3>4. ArchiveName = x + Len(wal) BY <1>1, <3>2, <3>3
    <3>5. Next1(archives, x) BY <3>3 DEF Next1
    <3> QED BY <2>2, <3>4, <3>5
  <2> QED BY <2>1, <2>2
<1>4. PICK s : Next1(archives, s) /\ ArchiveName = s + Len(wal) /\ (DOMAIN archives = {} => s = wal_horizon_floor)
  BY <1>3
<1>5. Grown(archives, With(archives, ArchiveName, wal), s, ArchiveName, wal)
  BY <1>1, <1>2, <1>4, AddNewest
<1>6. ArchiveName \notin DOMAIN archives BY <1>5 DEF Grown
<1> QED BY <1>4, <1>5, <1>6

\* The rename never meets an archive of its name, and adds the newest.
LEMMA ArchiveWalIs ==
    ASSUME TypeInv, ArchivesInv, ArchiveWal
    PROVE  /\ pc = "archive" /\ ~NothingToArchive /\ pc' = "baseline" /\ wal' = <<>>
           /\ ArchiveName \notin DOMAIN archives
           /\ \E s : /\ Next1(archives, s) /\ Grown(archives, archives', s, ArchiveName, wal)
                     /\ DOMAIN archives = {} => s = wal_horizon_floor
           /\ UNCHANGED <<floor, wal_horizon_floor, wal_frames_written, snapshot, intent, made, numbers, errors, kind, buf, doomed>>
<1>1. pc = "archive" /\ ~NothingToArchive BY DEF ArchiveWal
<1>2. /\ ArchiveName \notin DOMAIN archives
      /\ \E s : /\ Next1(archives, s) /\ Grown(archives, With(archives, ArchiveName, wal), s, ArchiveName, wal)
                /\ DOMAIN archives = {} => s = wal_horizon_floor
  BY <1>1, ArchiveIs
<1>3. archives' = With(archives, ArchiveName, wal) BY <1>2 DEF ArchiveWal, With
<1>4. \E s : /\ Next1(archives, s) /\ Grown(archives, archives', s, ArchiveName, wal)
             /\ DOMAIN archives = {} => s = wal_horizon_floor
  BY <1>2, <1>3
<1>5. /\ pc' = "baseline" /\ wal' = <<>>
      /\ UNCHANGED <<floor, wal_horizon_floor, wal_frames_written, snapshot, intent, made, numbers, errors, kind, buf, doomed>>
  BY <1>2 DEF ArchiveWal
<1> QED BY <1>1, <1>2, <1>4, <1>5

\* Retention: the surplus is counted.
LEMMA CountIs ==
    ASSUME TypeInv, ArchivesInv, CountSurplus
    PROVE  /\ pc = "prune" /\ doomed' = Surplus /\ pc' = IF Surplus = {} THEN "finish" ELSE "floor"
           /\ Oldest(archives, Surplus)
           /\ Len(Archived(Only(archives, Surplus))) \in Nat
           /\ wal_horizon_floor' = wal_horizon_floor + Len(Archived(Only(archives, Surplus)))
           /\ Surplus = {} => wal_horizon_floor' = wal_horizon_floor
           /\ UNCHANGED <<wal, archives, floor, wal_frames_written, snapshot, intent, made, numbers, errors, kind, buf>>
<1>0. IsArchives(archives) /\ Chained(archives) /\ wal_horizon_floor \in Nat BY DEF ArchivesInv
<1>1. Oldest(archives, Surplus) BY <1>0, SurplusIs
<1>2. Without(archives, DOMAIN archives \ Surplus) = Only(archives, Surplus)
  <2>1. DOMAIN archives \ (DOMAIN archives \ Surplus) = DOMAIN archives \cap Surplus OBVIOUS
  <2> QED BY <2>1 DEF Without, Only
<1>3. IsArchives(Only(archives, Surplus)) BY <1>0, OnlyIs
<1>4. Len(Archived(Only(archives, Surplus))) \in Nat BY <1>3, ArchivedType, SeqLen
<1>5. ASSUME Surplus = {} PROVE Len(Archived(Only(archives, Surplus))) = 0
  <2>1. DOMAIN Only(archives, Surplus) = {} BY <1>0, <1>5, OnlyIs
  <2>2. Archived(Only(archives, Surplus)) = <<>> BY <1>3, <2>1, ArchivedNone
  <2> QED BY <2>2
<1>6. wal_horizon_floor' = wal_horizon_floor + Len(Archived(Only(archives, Surplus)))
  BY <1>2 DEF CountSurplus
<1>7. Surplus = {} => wal_horizon_floor' = wal_horizon_floor BY <1>0, <1>5, <1>6
<1> QED BY <1>1, <1>4, <1>6, <1>7 DEF CountSurplus

\* One archive goes, the oldest of the doomed.
LEMMA DeleteIs ==
    ASSUME TypeInv, ArchivesInv, DeleteArchive
    PROVE  /\ pc = "delete" /\ Min(doomed) \in doomed /\ doomed' = doomed \ {Min(doomed)}
           /\ pc' = IF doomed' = {} THEN "finish" ELSE "delete"
           /\ Oldest(archives, {Min(doomed)}) /\ archives' = Without(archives, {Min(doomed)})
           /\ Oldest(archives', doomed')
           /\ UNCHANGED <<wal, floor, wal_horizon_floor, wal_frames_written, snapshot, intent, made, numbers, errors, kind, buf>>
<1> DEFINE l == Min(doomed)
<1>0. IsArchives(archives) /\ Chained(archives) /\ DOMAIN archives \subseteq Nat
  BY DEF ArchivesInv, IsArchives
<1>1. pc = "delete" /\ doomed # {} /\ archives' = Without(archives, {l}) /\ doomed' = doomed \ {l}
  BY DEF DeleteArchive
<1>2. Oldest(archives, doomed) BY <1>1 DEF ArchivesInv
<1>3. doomed \subseteq Nat BY <1>0, <1>2 DEF Oldest
<1>4. l \in doomed /\ \A y \in doomed : l <= y BY <1>1, <1>3, MinIs
<1> HIDE DEF l
<1>5. Oldest(archives, {l})
  <2>1. ASSUME NEW m \in DOMAIN archives, m <= l PROVE m = l
    <3>1. m \in doomed BY <1>2, <1>4, <2>1 DEF Oldest
    <3>2. l <= m /\ m \in Nat /\ l \in Nat BY <1>3, <1>4, <3>1
    <3> QED BY <2>1, <3>2
  <2> QED BY <1>2, <1>4, <2>1 DEF Oldest
<1>6. DOMAIN archives' = DOMAIN archives \ {l} BY <1>0, <1>1, <1>5, DropOldest
<1>7. Oldest(archives', doomed') BY <1>1, <1>2, <1>6 DEF Oldest
<1> QED BY <1>1, <1>4, <1>5, <1>7 DEF DeleteArchive, l

-----------------------------------------------------------------------------
(* Archives stay a chain.                                                  *)

\* The steps that leave the archives and the floor alone.
Quiet ==
    \/ Reload \/ Crash \/ Settle \/ Commit \/ Declare \/ (\E k \in Kinds : SnapshotBegins(k))
    \/ WriteIntent \/ WriteSnapshot \/ WriteBaseline \/ DeleteMarker \/ CutMarker \/ Finish \/ Error
    \/ UNCHANGED vars

\* What they do to the floor in memory, the frame cursor and the step.
LEMMA QuietIs ==
    ASSUME Quiet
    PROVE  /\ UNCHANGED <<archives, floor, doomed>>
           /\ wal_horizon_floor' = wal_horizon_floor \/ (pc = "open" /\ wal_horizon_floor' = floor)
           /\ errors' = errors \/ errors' = errors + 1
           /\ wal_frames_written' = wal_frames_written \/ wal_frames_written' = wal_frames_written + 1
              \/ wal_frames_written' = Total
           /\ pc' # "down" => pc # "down"
           /\ pc' = pc \/ pc' \notin {"floor", "marker", "delete", "cutWal"} \/ (pc = "marker" /\ pc' = "delete")
           /\ pc = "floor" => pc' \in {"floor", "down"} \/ errors' = errors + 1
           /\ pc' = "cutWal" => wal' = wal
<1>1. CASE Reload BY <1>1 DEF Reload, Load, Total
<1>2. CASE Crash \/ Error BY <1>2 DEF Crash, Error
<1>3. CASE Settle BY <1>3 DEF Settle, Entered
<1>4. CASE Commit \/ Declare BY <1>4 DEF Commit, Declare, Append1, Entered
<1>5. CASE \E k \in Kinds : SnapshotBegins(k) BY <1>5 DEF SnapshotBegins, Entered
<1>6. CASE WriteIntent BY <1>6 DEF WriteIntent
<1>7. CASE WriteSnapshot BY <1>7 DEF WriteSnapshot
<1>8. CASE WriteBaseline BY <1>8 DEF WriteBaseline
<1>9. CASE DeleteMarker \/ CutMarker BY <1>9 DEF DeleteMarker, CutMarker
<1>10. CASE Finish BY <1>10 DEF Finish
<1>11. CASE UNCHANGED vars BY <1>11 DEF vars
<1> QED BY <1>1, <1>2, <1>3, <1>4, <1>5, <1>6, <1>7, <1>8, <1>9, <1>10, <1>11 DEF Quiet

\* Every step is quiet or one of the seven that touch the archives or the floor.
LEMMA StepCases ==
    ASSUME [Next]_vars
    PROVE  Quiet \/ Open \/ ArchiveWal \/ CountSurplus \/ WriteFloor \/ DeleteArchive \/ CutFloor \/ CutWal
BY DEF Next, Quiet

\* Every step keeps the archives a chain and the floor on disk behind the one in
\* memory, whatever failed before.
LEMMA ArchivesKeep == ASSUME TypeInv, ArchivesInv, [Next]_vars PROVE ArchivesInv'
<1>0. /\ IsArchives(archives) /\ Chained(archives) /\ wal \in Seq(Nat)
      /\ floor \in Nat /\ wal_horizon_floor \in Nat /\ wal_frames_written \in Nat /\ errors \in Nat
  BY DEF ArchivesInv, TypeInv
<1>1. CASE Quiet
  <2>1. /\ UNCHANGED <<archives, floor, doomed>>
        /\ wal_horizon_floor' = wal_horizon_floor \/ (pc = "open" /\ wal_horizon_floor' = floor)
        /\ errors' = errors \/ errors' = errors + 1
        /\ wal_frames_written' = wal_frames_written \/ wal_frames_written' = wal_frames_written + 1
           \/ wal_frames_written' = Total
        /\ pc' # "down" => pc # "down"
        /\ pc' = pc \/ pc' \notin {"floor", "marker", "delete", "cutWal"} \/ (pc = "marker" /\ pc' = "delete")
    BY <1>1, QuietIs
  <2>2. Total \in Nat BY <1>0, TotalType DEF Total
  <2>3. wal_frames_written' \in Nat /\ errors' \in Nat BY <1>0, <2>1, <2>2
  <2>4. wal_horizon_floor' \in Nat /\ (pc' # "down" => floor' <= wal_horizon_floor')
    BY <1>0, <2>1 DEF ArchivesInv
  <2>5. pc' \in {"floor", "marker", "delete"} => Oldest(archives, doomed)'
    BY <2>1 DEF ArchivesInv, Oldest
  <2> QED BY <1>0, <2>1, <2>3, <2>4, <2>5 DEF ArchivesInv
<1>2. CASE Open
  <2>1. /\ Oldest(archives, Orphans) /\ archives' = Without(archives, Orphans)
        /\ pc' = "open" /\ wal_horizon_floor' = floor
        /\ wal_frames_written' = floor + Len(Archived(archives')) + Len(wal)
        /\ UNCHANGED <<wal, floor, errors>>
    BY <1>2, OpenIs
  <2>2. IsArchives(archives') /\ Chained(archives') BY <1>0, <2>1, DropOldest
  <2>3. wal_frames_written' \in Nat BY <1>0, <2>1, <2>2, TotalType
  <2>4. floor <= floor BY <1>0
  <2> QED BY <1>0, <2>1, <2>2, <2>3, <2>4 DEF ArchivesInv
<1>3. CASE ArchiveWal
  <2>1. pc' = "baseline" /\ UNCHANGED <<floor, wal_horizon_floor, wal_frames_written, errors>> /\ pc = "archive"
    BY <1>3, ArchiveWalIs
  <2>2. PICK s : Grown(archives, archives', s, ArchiveName, wal) BY <1>3, ArchiveWalIs
  <2>3. IsArchives(archives') /\ Chained(archives') BY <2>2 DEF Grown
  <2> QED BY <1>0, <2>1, <2>3 DEF ArchivesInv
<1>4. CASE CountSurplus
  <2>1. /\ pc = "prune" /\ doomed' = Surplus /\ pc' = IF Surplus = {} THEN "finish" ELSE "floor"
        /\ Oldest(archives, Surplus)
        /\ Len(Archived(Only(archives, Surplus))) \in Nat
        /\ wal_horizon_floor' = wal_horizon_floor + Len(Archived(Only(archives, Surplus)))
        /\ UNCHANGED <<wal, archives, floor, wal_frames_written, errors>>
    BY <1>4, CountIs
  <2>2. floor <= wal_horizon_floor BY <2>1 DEF ArchivesInv
  <2>3. \A a, b, c \in Nat : a <= b => a <= b + c /\ b + c \in Nat OBVIOUS
  <2>4. wal_horizon_floor' \in Nat /\ floor' <= wal_horizon_floor' BY <1>0, <2>1, <2>2, <2>3
  <2>5. Oldest(archives, doomed)' BY <2>1
  <2> QED BY <1>0, <2>1, <2>4, <2>5 DEF ArchivesInv
<1>5. CASE WriteFloor
  <2>1. /\ pc = "floor" /\ pc' = "marker" /\ floor' = wal_horizon_floor
        /\ UNCHANGED <<archives, wal_horizon_floor, wal_frames_written, errors, doomed>>
    BY <1>5 DEF WriteFloor
  <2>2. Oldest(archives, doomed)' BY <2>1 DEF ArchivesInv
  <2>3. floor' <= wal_horizon_floor' BY <1>0, <2>1
  <2> QED BY <1>0, <2>1, <2>2, <2>3 DEF ArchivesInv
<1>6. CASE DeleteArchive
  <2>1. /\ pc = "delete" /\ pc' \in {"finish", "delete"}
        /\ Oldest(archives, {Min(doomed)}) /\ archives' = Without(archives, {Min(doomed)})
        /\ Oldest(archives', doomed')
        /\ UNCHANGED <<floor, wal_horizon_floor, wal_frames_written, errors>>
    BY <1>6, DeleteIs
  <2>2. IsArchives(archives') /\ Chained(archives') BY <1>0, <2>1, DropOldest
  <2> QED BY <1>0, <2>1, <2>2 DEF ArchivesInv
<1>7. CASE CutFloor
  <2>1. Total \in Nat BY <1>0, TotalType DEF Total
  <2>2. /\ pc = "cutFloor" /\ pc' = "cutWal" /\ UNCHANGED <<archives, wal_frames_written, errors>>
        /\ \/ floor' = Total /\ wal_horizon_floor' = Total
           \/ UNCHANGED <<floor, wal_horizon_floor>>
    BY <1>7 DEF CutFloor
  <2>3. floor' \in Nat /\ wal_horizon_floor' \in Nat /\ floor' <= wal_horizon_floor'
    <3>1. floor <= wal_horizon_floor BY <2>2 DEF ArchivesInv
    <3>2. Total <= Total BY <2>1
    <3> QED BY <1>0, <2>1, <2>2, <3>1, <3>2
  <2> QED BY <1>0, <2>2, <2>3 DEF ArchivesInv
<1>8. CASE CutWal
  <2>1. /\ pc = "cutWal" /\ pc' \in {"finish", "delete"} /\ doomed' = {n \in DOMAIN archives : n <= wal_horizon_floor}
        /\ UNCHANGED <<archives, floor, wal_horizon_floor, wal_frames_written, errors>>
    BY <1>8 DEF CutWal
  <2>2. Oldest(archives, doomed)' BY <1>0, <2>1, UnderIsOldest
  <2> QED BY <1>0, <2>1, <2>2 DEF ArchivesInv
<1> QED BY <1>1, <1>2, <1>3, <1>4, <1>5, <1>6, <1>7, <1>8, StepCases

\* At first there is no archive.
LEMMA ArchivesStart == Init => ArchivesInv
<1>1. SUFFICES ASSUME Init PROVE ArchivesInv OBVIOUS
<1>2. Chained(<<>>) BY NoArchives DEF Chained
<1> QED BY <1>1, <1>2, NoArchives DEF Init, ArchivesInv

-----------------------------------------------------------------------------
(* The floor on disk and the floor in memory.                              *)

\* The floor in memory and the floor on disk agree but while a counted surplus waits
\* for its floor, or after the one failure there: then the memory is ahead by
\* archives that are still there.  What is doomed is under the floor, and each
\* archive starts at another's end or at a frame the floor has passed.
Horizon ==
    /\ pc \notin {"down", "floor"} =>
          \/ wal_horizon_floor = floor
          \/ errors # 0 /\ wal_horizon_floor < floor + Len(Archived(archives))
    /\ pc \in {"marker", "delete", "cutWal"} => wal_horizon_floor = floor
    /\ pc = "floor" /\ errors = 0 => wal_horizon_floor < floor + Len(Archived(archives))
    /\ pc = "cutWal" /\ floor = 0 => wal = <<>>
    /\ pc = "floor" => \A n \in doomed : n <= wal_horizon_floor
    /\ pc \in {"marker", "delete"} => \A n \in doomed : n <= floor
    /\ \A n \in DOMAIN archives : Start(archives, n) \in DOMAIN archives \/ Start(archives, n) <= floor

\* It takes two failures to break that: see AsOfIsPast.
HorizonInv == errors <= 1 => Horizon

\* Archives that go are accounted for by the floor.
LEMMA StartsKept ==
    ASSUME NEW as, IsArchives(as), Chained(as), NEW D, Oldest(as, D), NEW f \in Nat, \A n \in D : n <= f,
           \A n \in DOMAIN as : Start(as, n) \in DOMAIN as \/ Start(as, n) <= f
    PROVE  \A n \in DOMAIN Without(as, D) : Start(Without(as, D), n) \in DOMAIN Without(as, D) \/ Start(Without(as, D), n) <= f
<1> DEFINE bs == Without(as, D)
<1>1. DOMAIN bs = DOMAIN as \ D /\ \A n \in DOMAIN as \ D : Start(bs, n) = Start(as, n)
  BY DropOldest
<1> HIDE DEF bs
<1>2. \A n \in DOMAIN bs : Start(bs, n) \in DOMAIN bs \/ Start(bs, n) <= f BY <1>1
<1> QED BY <1>2 DEF bs

\* The doomed end within what was counted.
LEMMA CountedEnds ==
    ASSUME NEW as, IsArchives(as), Chained(as), NEW D, Oldest(as, D), NEW f \in Nat, NEW h \in Nat, f <= h,
           \A n \in DOMAIN as : Start(as, n) \in DOMAIN as \/ Start(as, n) <= f
    PROVE  \A n \in D : n <= h + Len(Archived(Only(as, D)))
<1> DEFINE os == Only(as, D)
<1>1. SUFFICES ASSUME NEW n \in D PROVE n <= h + Len(Archived(os)) OBVIOUS
<1>2. IsArchives(os) /\ Chained(os) /\ DOMAIN os = D /\ \A m \in D : Start(os, m) = Start(as, m)
  BY DropOldest
<1>3. D # {} OBVIOUS
<1> HIDE DEF os
<1> DEFINE l == Min(D)
           x == Max(D)
           s == Start(os, l)
<1>4. /\ l \in D /\ x \in Nat /\ l \in Nat /\ s \in Nat /\ s < l /\ n <= x
      /\ Len(Archived(os)) \in Nat /\ s + Len(Archived(os)) = x
      /\ \A y \in D : l <= y
  BY <1>2, <1>3, ChainEnd
<1>5. n \in Nat BY <1>2 DEF IsArchives
<1> HIDE DEF l, x
<1>6. s <= f
  <2>1. s = Start(as, l) BY <1>2, <1>4
  <2>2. CASE Start(as, l) \in DOMAIN as
    <3> HIDE DEF s
    <3>1. s <= l BY <1>4
    <3>2. s \in D BY <1>4, <2>1, <2>2, <3>1 DEF Oldest
    <3>3. l <= s BY <1>4, <3>2
    <3> QED BY <1>4, <3>3
  <2>3. CASE Start(as, l) <= f BY <2>1, <2>3
  <2>4. l \in DOMAIN as BY <1>4 DEF Oldest
  <2> QED BY <2>2, <2>3, <2>4
<1> HIDE DEF s
<1>7. \A a, b, c, d, e, g \in Nat : a <= b /\ c + d = b /\ c <= e /\ e <= g => a <= g + d OBVIOUS
<1> QED BY <1>4, <1>5, <1>6, <1>7

\* Every step keeps the floors together, up to the first failure and past it.
LEMMA HorizonKeep == ASSUME TypeInv, ArchivesInv, HorizonInv, [Next]_vars PROVE HorizonInv'
<1>0. /\ IsArchives(archives) /\ Chained(archives) /\ wal \in Seq(Nat)
      /\ floor \in Nat /\ wal_horizon_floor \in Nat /\ errors \in Nat
      /\ Len(Archived(archives)) \in Nat /\ Len(wal) \in Nat
  BY ArchivedType, SeqLen DEF ArchivesInv, TypeInv
<1>a. SUFFICES ASSUME errors' <= 1 PROVE Horizon' BY DEF HorizonInv
<1>1. CASE Quiet
  <2>1. /\ UNCHANGED <<archives, floor, doomed>>
        /\ wal_horizon_floor' = wal_horizon_floor \/ (pc = "open" /\ wal_horizon_floor' = floor)
        /\ errors' = errors \/ errors' = errors + 1
        /\ pc' # "down" => pc # "down"
        /\ pc' = pc \/ pc' \notin {"floor", "marker", "delete", "cutWal"} \/ (pc = "marker" /\ pc' = "delete")
        /\ pc = "floor" => pc' \in {"floor", "down"} \/ errors' = errors + 1
        /\ pc' = "cutWal" => wal' = wal
    BY <1>1, QuietIs
  <2>2. errors <= 1 /\ (errors' = 0 => errors = 0) /\ (errors' = errors + 1 => errors = 0 /\ errors' # 0)
    BY <1>0, <1>a, <2>1
  <2>3. Horizon BY <2>2 DEF HorizonInv
  <2>4. pc' \notin {"down", "floor"} =>
          \/ wal_horizon_floor' = floor'
          \/ errors' # 0 /\ wal_horizon_floor' < floor' + Len(Archived(archives'))
    BY <2>1, <2>2, <2>3 DEF Horizon
  <2>5. /\ pc' \in {"marker", "delete", "cutWal"} => wal_horizon_floor' = floor'
        /\ pc' = "floor" /\ errors' = 0 => wal_horizon_floor' < floor' + Len(Archived(archives'))
        /\ pc' = "cutWal" /\ floor' = 0 => wal' = <<>>
    BY <2>1, <2>2, <2>3 DEF Horizon
  <2>6. /\ pc' = "floor" => \A n \in doomed' : n <= wal_horizon_floor'
        /\ pc' \in {"marker", "delete"} => \A n \in doomed' : n <= floor'
    BY <2>1, <2>3 DEF Horizon
  <2>7. \A n \in DOMAIN archives' : Start(archives', n) \in DOMAIN archives' \/ Start(archives', n) <= floor'
    BY <2>1, <2>3 DEF Horizon
  <2> QED BY <2>4, <2>5, <2>6, <2>7 DEF Horizon
<1>2. CASE Open
  <2>1. /\ Oldest(archives, Orphans) /\ archives' = Without(archives, Orphans)
        /\ pc' = "open" /\ wal_horizon_floor' = floor /\ UNCHANGED <<floor, errors>>
    BY <1>2, OpenIs
  <2>2. Horizon BY <1>a, <2>1 DEF HorizonInv
  <2>3. \A n \in Orphans : n <= floor BY DEF Orphans
  <2>4. \A n \in DOMAIN archives' : Start(archives', n) \in DOMAIN archives' \/ Start(archives', n) <= floor
    BY <1>0, <2>1, <2>2, <2>3, StartsKept DEF Horizon
  <2> QED BY <2>1, <2>4 DEF Horizon
<1>3. CASE ArchiveWal
  <2>1. pc = "archive" /\ pc' = "baseline" /\ UNCHANGED <<floor, wal_horizon_floor, errors>>
    BY <1>3, ArchiveWalIs
  <2>2. PICK s : /\ Next1(archives, s) /\ Grown(archives, archives', s, ArchiveName, wal)
                 /\ DOMAIN archives = {} => s = wal_horizon_floor
    BY <1>3, ArchiveWalIs
  <2>4. Horizon BY <1>a, <2>1 DEF HorizonInv
  <2>5. wal_horizon_floor = floor \/ (errors # 0 /\ wal_horizon_floor < floor + Len(Archived(archives)))
    BY <2>1, <2>4 DEF Horizon
  <2>6. /\ DOMAIN archives' = DOMAIN archives \cup {ArchiveName} /\ Start(archives', ArchiveName) = s
        /\ Archived(archives') = Archived(archives) \o wal
        /\ \A n \in DOMAIN archives : Start(archives', n) = Start(archives, n)
    BY <2>2 DEF Grown
  <2>7. wal_horizon_floor < floor + Len(Archived(archives)) => wal_horizon_floor < floor + Len(Archived(archives'))
    <3>1. \A p, q \in Seq(Nat) : Len(p \o q) = Len(p) + Len(q) OBVIOUS
    <3>2. Len(Archived(archives')) = Len(Archived(archives)) + Len(wal)
      BY <1>0, <2>6, <3>1, ArchivedType
    <3>3. \A a, b, c, d \in Nat : a < b + c => a < b + (c + d) OBVIOUS
    <3> QED BY <1>0, <3>2, <3>3
  <2>8. s \in DOMAIN archives \/ s <= floor
    <3>1. CASE DOMAIN archives # {} BY <2>2, <3>1 DEF Next1
    <3>2. CASE DOMAIN archives = {}
      <4>1. Archived(archives) = <<>> BY <1>0, <3>2, ArchivedNone
      <4>2. Len(Archived(archives)) = 0 BY <4>1
      <4>3. floor <= wal_horizon_floor BY <2>1 DEF ArchivesInv
      <4>4. \A a, b \in Nat : a <= b /\ (b = a \/ b < a + 0) => b <= a OBVIOUS
      <4>5. wal_horizon_floor <= floor BY <1>0, <2>5, <4>2, <4>3, <4>4
      <4> QED BY <2>2, <3>2, <4>5
    <3> QED BY <3>1, <3>2
  <2>9. \A n \in DOMAIN archives' : Start(archives', n) \in DOMAIN archives' \/ Start(archives', n) <= floor'
    BY <2>1, <2>4, <2>6, <2>8 DEF Horizon
  <2> QED BY <2>1, <2>5, <2>7, <2>9 DEF Horizon
<1>4. CASE CountSurplus
  <2>1. /\ pc = "prune" /\ doomed' = Surplus /\ pc' = IF Surplus = {} THEN "finish" ELSE "floor"
        /\ Oldest(archives, Surplus)
        /\ Len(Archived(Only(archives, Surplus))) \in Nat
        /\ wal_horizon_floor' = wal_horizon_floor + Len(Archived(Only(archives, Surplus)))
        /\ Surplus = {} => wal_horizon_floor' = wal_horizon_floor
        /\ UNCHANGED <<wal, archives, floor, errors>>
    BY <1>4, CountIs
  <2>2. Horizon BY <1>a, <2>1 DEF HorizonInv
  <2>3. floor <= wal_horizon_floor BY <2>1 DEF ArchivesInv
  <2>4. \A n \in doomed' : n <= wal_horizon_floor'
    BY <1>0, <2>1, <2>2, <2>3, CountedEnds DEF Horizon
  <2>5. \A n \in DOMAIN archives' : Start(archives', n) \in DOMAIN archives' \/ Start(archives', n) <= floor'
    BY <2>1, <2>2 DEF Horizon
  <2>6. wal_horizon_floor = floor \/ (errors # 0 /\ wal_horizon_floor < floor + Len(Archived(archives)))
    BY <2>1, <2>2 DEF Horizon
  <2>7. CASE Surplus = {} BY <2>1, <2>5, <2>6, <2>7 DEF Horizon
  <2>8. CASE Surplus # {}
    <3>1. Len(Archived(Only(archives, Surplus))) < Len(Archived(archives)) BY <1>0, <2>8, SurplusIs
    <3>2. \A a, b, c \in Nat : b < c => a + b < a + c OBVIOUS
    <3>3. errors' = 0 => wal_horizon_floor' < floor' + Len(Archived(archives'))
      BY <1>0, <2>1, <2>6, <3>1, <3>2
    <3> QED BY <2>1, <2>4, <2>5, <2>8, <3>3 DEF Horizon
  <2> QED BY <2>7, <2>8
<1>5. CASE WriteFloor
  <2>1. /\ pc = "floor" /\ pc' = "marker" /\ floor' = wal_horizon_floor
        /\ UNCHANGED <<archives, wal_horizon_floor, errors, doomed>>
    BY <1>5 DEF WriteFloor
  <2>2. Horizon BY <1>a, <2>1 DEF HorizonInv
  <2>3. floor <= floor' BY <2>1 DEF ArchivesInv
  <2>4. \A n \in DOMAIN archives' : Start(archives', n) \in DOMAIN archives' \/ Start(archives', n) <= floor'
    <3>1. ASSUME NEW n \in DOMAIN archives
          PROVE  Start(archives, n) \in DOMAIN archives \/ Start(archives, n) <= floor'
      <4>1. Start(archives, n) \in Nat BY <1>0, StartIs
      <4>2. Start(archives, n) <= floor => Start(archives, n) <= floor' BY <1>0, <2>1, <2>3, <4>1
      <4> QED BY <2>2, <4>2 DEF Horizon
    <3> QED BY <2>1, <3>1
  <2>5. \A n \in doomed' : n <= floor' BY <2>1, <2>2 DEF Horizon
  <2> QED BY <2>1, <2>4, <2>5 DEF Horizon
<1>6. CASE DeleteArchive
  <2>1. /\ pc = "delete" /\ Min(doomed) \in doomed /\ doomed' \subseteq doomed /\ pc' \in {"finish", "delete"}
        /\ Oldest(archives, {Min(doomed)}) /\ archives' = Without(archives, {Min(doomed)})
        /\ UNCHANGED <<floor, wal_horizon_floor, errors>>
    BY <1>6, DeleteIs
  <2>2. Horizon BY <1>a, <2>1 DEF HorizonInv
  <2>3. wal_horizon_floor = floor /\ \A n \in doomed : n <= floor BY <2>1, <2>2 DEF Horizon
  <2>4. \A n \in {Min(doomed)} : n <= floor BY <2>1, <2>3
  <2>5. \A n \in DOMAIN archives : Start(archives, n) \in DOMAIN archives \/ Start(archives, n) <= floor
    BY <2>2 DEF Horizon
  <2>6. \A n \in DOMAIN archives' : Start(archives', n) \in DOMAIN archives' \/ Start(archives', n) <= floor
    <3> DEFINE D == {Min(doomed)}
    <3>1. Oldest(archives, D) /\ archives' = Without(archives, D) /\ \A n \in D : n <= floor
      BY <2>1, <2>4
    <3> HIDE DEF D
    <3> QED BY <1>0, <2>5, <3>1, StartsKept
  <2> QED BY <2>1, <2>3, <2>6 DEF Horizon
<1>7. CASE CutFloor
  <2>1. Total \in Nat BY <1>0, TotalType DEF Total
  <2>2. /\ pc = "cutFloor" /\ pc' = "cutWal" /\ UNCHANGED <<wal, archives, errors>>
        /\ \/ Total > wal_horizon_floor /\ floor' = Total /\ wal_horizon_floor' = Total
           \/ ~(Total > wal_horizon_floor) /\ UNCHANGED <<floor, wal_horizon_floor>>
    BY <1>7 DEF CutFloor
  <2>3. Horizon BY <1>a, <2>2 DEF HorizonInv
  <2>4. wal_horizon_floor = floor \/ wal_horizon_floor < floor + Len(Archived(archives))
    BY <2>2, <2>3 DEF Horizon
  <2>5. floor <= wal_horizon_floor BY <2>2 DEF ArchivesInv
  <2>6. wal_horizon_floor' = floor' /\ floor <= floor' /\ floor' \in Nat /\ (floor' = 0 => Len(wal) = 0)
    <3>1. CASE Total > wal_horizon_floor
      <4>1. \A a, b, c \in Nat : a > b /\ c <= b => c <= a /\ a # 0 OBVIOUS
      <4> QED BY <1>0, <2>1, <2>2, <2>5, <3>1, <4>1
    <3>2. CASE ~(Total > wal_horizon_floor)
      <4>1. \A a, b, c, d \in Nat : ~(a + b + c > d) /\ (d = a \/ d < a + b) => d = a /\ c = 0
        OBVIOUS
      <4>2. ~(floor + Len(Archived(archives)) + Len(wal) > wal_horizon_floor) BY <3>2 DEF Total
      <4>3. wal_horizon_floor = floor /\ Len(wal) = 0 BY <1>0, <2>4, <4>1, <4>2
      <4> QED BY <1>0, <2>2, <2>5, <3>2, <4>3
    <3> QED BY <3>1, <3>2
  <2>7. \A n \in DOMAIN archives' : Start(archives', n) \in DOMAIN archives' \/ Start(archives', n) <= floor'
    <3>1. ASSUME NEW n \in DOMAIN archives
          PROVE  Start(archives, n) \in DOMAIN archives \/ Start(archives, n) <= floor'
      <4>1. Start(archives, n) \in Nat BY <1>0, StartIs
      <4>2. Start(archives, n) <= floor => Start(archives, n) <= floor' BY <1>0, <2>6, <4>1
      <4> QED BY <2>3, <4>2 DEF Horizon
    <3> QED BY <2>2, <3>1
  <2>8. pc' = "cutWal" /\ floor' = 0 => wal' = <<>> BY <1>0, <2>2, <2>6, SeqLen
  <2> QED BY <2>2, <2>6, <2>7, <2>8 DEF Horizon
<1>8. CASE CutWal
  <2>1. /\ pc = "cutWal" /\ pc' \in {"finish", "delete"} /\ doomed' = {n \in DOMAIN archives : n <= wal_horizon_floor}
        /\ UNCHANGED <<archives, floor, wal_horizon_floor, errors>>
    BY <1>8 DEF CutWal
  <2>2. Horizon BY <1>a, <2>1 DEF HorizonInv
  <2>3. wal_horizon_floor = floor BY <2>1, <2>2 DEF Horizon
  <2>4. \A n \in doomed' : n <= floor' BY <2>1, <2>3
  <2>5. \A n \in DOMAIN archives' : Start(archives', n) \in DOMAIN archives' \/ Start(archives', n) <= floor'
    BY <2>1, <2>2 DEF Horizon
  <2> QED BY <2>1, <2>3, <2>4, <2>5 DEF Horizon
<1> QED BY <1>1, <1>2, <1>3, <1>4, <1>5, <1>6, <1>7, <1>8, StepCases

\* At first both floors are 0.
LEMMA HorizonStart == Init => HorizonInv
<1>1. SUFFICES ASSUME Init PROVE HorizonInv OBVIOUS
<1> QED BY <1>1, NoArchives DEF Init, HorizonInv, Horizon

\* An archive is never written over, and goes after its floor.
KeepsArchives ==
    \A n \in DOMAIN archives :
        IF n \in DOMAIN archives' THEN archives'[n] = archives[n] ELSE n <= floor' \/ errors' > 1

\* No step writes over an archive or deletes it before its floor.
LEMMA ArchivesStay == ASSUME TypeInv, ArchivesInv, HorizonInv, [Next]_vars PROVE KeepsArchives
<1>0. IsArchives(archives) /\ Chained(archives) /\ wal \in Seq(Nat) /\ errors \in Nat /\ floor \in Nat
  BY DEF ArchivesInv, TypeInv
<1>1. CASE Quiet
  <2>1. archives' = archives BY <1>1, QuietIs
  <2> QED BY <2>1 DEF KeepsArchives
<1>2. CASE Open
  <2>1. Oldest(archives, Orphans) /\ archives' = Without(archives, Orphans) /\ floor' = floor
    BY <1>2, OpenIs
  <2>2. DOMAIN archives' = DOMAIN archives \ Orphans /\ \A n \in DOMAIN archives \ Orphans : archives'[n] = archives[n]
    BY <1>0, <2>1, DropOldest
  <2> QED BY <2>1, <2>2 DEF Orphans, KeepsArchives
<1>3. CASE ArchiveWal
  <2>1. \E s : Grown(archives, archives', s, ArchiveName, wal) BY <1>3, ArchiveWalIs
  <2> QED BY <2>1 DEF Grown, KeepsArchives
<1>4. CASE DeleteArchive
  <2>1. /\ pc = "delete" /\ Min(doomed) \in doomed /\ UNCHANGED <<floor, errors>>
        /\ Oldest(archives, {Min(doomed)}) /\ archives' = Without(archives, {Min(doomed)})
    BY <1>4, DeleteIs
  <2> DEFINE D == {Min(doomed)}
  <2>2. DOMAIN archives' = DOMAIN archives \ D /\ \A n \in DOMAIN archives \ D : archives'[n] = archives[n]
    <3>1. Oldest(archives, D) /\ archives' = Without(archives, D) BY <2>1
    <3> HIDE DEF D
    <3>2. /\ DOMAIN Without(archives, D) = DOMAIN archives \ D
          /\ \A n \in DOMAIN archives \ D : Without(archives, D)[n] = archives[n]
      BY ONLY <1>0, <3>1, DropOldest
    <3> QED BY <3>1, <3>2
  <2>3. errors <= 1 \/ errors > 1 BY <1>0
  <2>4. errors <= 1 => Min(doomed) <= floor BY <2>1 DEF HorizonInv, Horizon
  <2> QED BY <2>1, <2>2, <2>3, <2>4 DEF KeepsArchives
<1>5. CASE CountSurplus \/ WriteFloor \/ CutFloor \/ CutWal
  <2>1. archives' = archives BY <1>5 DEF CountSurplus, WriteFloor, CutFloor, CutWal
  <2> QED BY <2>1 DEF KeepsArchives
<1> QED BY <1>1, <1>2, <1>3, <1>4, <1>5, StepCases

-----------------------------------------------------------------------------
(* Commit numbers.                                                         *)

\* The numbers ns are those of frames, from f on, or smaller.
Numbered(ns, f, frames) ==
    \A n \in ns : n[1] < f + Len(frames) /\ (f <= n[1] => frames[n[1] - f + 1] = n[2])

\* They stay so when frames are added, ...
LEMMA NumberedMore ==
    ASSUME NEW ns \in SUBSET (Nat \X Nat), NEW f \in Nat, NEW p \in Seq(Nat), NEW q \in Seq(Nat), Numbered(ns, f, p)
    PROVE  Numbered(ns, f, p \o q)
<1>1. /\ Len(p \o q) = Len(p) + Len(q) /\ Len(p) \in Nat /\ Len(q) \in Nat
      /\ \A i \in 1..Len(p) : (p \o q)[i] = p[i]
  OBVIOUS
<1>2. ASSUME NEW n \in ns
      PROVE  n[1] < f + Len(p \o q) /\ (f <= n[1] => (p \o q)[n[1] - f + 1] = n[2])
  <2>1. n[1] \in Nat OBVIOUS
  <2>2. n[1] < f + Len(p) /\ (f <= n[1] => p[n[1] - f + 1] = n[2]) BY DEF Numbered
  <2>3. n[1] < f + Len(p \o q) BY <1>1, <2>1, <2>2
  <2>4. ASSUME f <= n[1] PROVE n[1] - f + 1 \in 1..Len(p) BY <1>1, <2>1, <2>2, <2>4
  <2> QED BY <1>1, <2>2, <2>3, <2>4
<1> QED BY <1>2 DEF Numbered

\* ... when the next frame takes the next number, ...
LEMMA NumberedNext ==
    ASSUME NEW ns \in SUBSET (Nat \X Nat), NEW f \in Nat, NEW p \in Seq(Nat), NEW x \in Nat, Numbered(ns, f, p)
    PROVE  Numbered(ns \cup {<<f + Len(p), x>>}, f, Append(p, x))
<1> DEFINE q == Append(p, x)
           e == <<f + Len(p), x>>
<1>1. q = p \o <<x>> /\ <<x>> \in Seq(Nat) BY AppendIsConcat
<1>2. Numbered(ns, f, p \o <<x>>) BY <1>1, NumberedMore
<1>3. Len(p) \in Nat /\ Len(q) = Len(p) + 1 /\ q[Len(p) + 1] = x OBVIOUS
<1>4. e[1] = f + Len(p) /\ e[2] = x OBVIOUS
<1>5. e[1] < f + Len(q) /\ e[1] - f + 1 = Len(p) + 1 BY <1>3, <1>4
<1>6. e[1] < f + Len(q) /\ (f <= e[1] => q[e[1] - f + 1] = e[2]) BY <1>3, <1>4, <1>5
<1> QED BY <1>1, <1>2, <1>6 DEF Numbered

\* ... and when the first frames are taken off and counted.
LEMMA NumberedRest ==
    ASSUME NEW ns \in SUBSET (Nat \X Nat), NEW f \in Nat, NEW p \in Seq(Nat), NEW q \in Seq(Nat), Numbered(ns, f, p \o q)
    PROVE  Numbered(ns, f + Len(p), q)
<1>1. /\ Len(p \o q) = Len(p) + Len(q) /\ Len(p) \in Nat /\ Len(q) \in Nat
      /\ \A i \in 1..Len(q) : (p \o q)[Len(p) + i] = q[i]
  OBVIOUS
<1>2. ASSUME NEW n \in ns
      PROVE  n[1] < (f + Len(p)) + Len(q) /\ (f + Len(p) <= n[1] => q[n[1] - (f + Len(p)) + 1] = n[2])
  <2>1. n[1] \in Nat OBVIOUS
  <2>2. n[1] < f + Len(p \o q) /\ (f <= n[1] => (p \o q)[n[1] - f + 1] = n[2]) BY DEF Numbered
  <2>3. n[1] < (f + Len(p)) + Len(q) BY <1>1, <2>1, <2>2
  <2>4. ASSUME f + Len(p) <= n[1] PROVE q[n[1] - (f + Len(p)) + 1] = n[2]
    <3> DEFINE i == n[1] - (f + Len(p)) + 1
    <3>1. i \in 1..Len(q) /\ Len(p) + i = n[1] - f + 1 /\ f <= n[1] BY <1>1, <2>1, <2>3, <2>4
    <3> HIDE DEF i
    <3>2. (p \o q)[Len(p) + i] = q[i] BY <1>1, <3>1
    <3>3. q[i] = n[2] BY <2>2, <3>1, <3>2
    <3> QED BY <3>3 DEF i
  <2> QED BY <2>3, <2>4
<1> QED BY <1>2 DEF Numbered

\* Numbers below the floor are numbers of nothing.
LEMMA NumberedUnder ==
    ASSUME NEW ns \in SUBSET (Nat \X Nat), NEW f \in Nat, NEW q \in Seq(Nat), \A n \in ns : n[1] < f
    PROVE  Numbered(ns, f, q)
<1>1. ASSUME NEW n \in ns PROVE n[1] < f + Len(q) /\ ~(f <= n[1])
  <2>1. n[1] \in Nat /\ Len(q) \in Nat OBVIOUS
  <2> QED BY <2>1
<1> QED BY <1>1 DEF Numbered

-----------------------------------------------------------------------------
(* Without failures.                                                       *)

\* The steps between the floor and the last deletion, and those that follow a crash.
Orphaning == {"down", "marker", "delete", "cutWal"}

\* Without failures the floor, the archives above it and the WAL lie end to end, the
\* surplus is counted once, what is doomed is what the floor disowns, and each number
\* ever stamped is that of its frame.
Count ==
    /\ pc = "floor" => /\ doomed = Surplus /\ doomed # {}
                       /\ wal_horizon_floor = floor + Len(Archived(Only(archives, doomed)))
    /\ pc \notin Orphaning => \A n \in DOMAIN archives : floor < n
    /\ \A n \in DOMAIN archives : floor < n => floor <= Start(archives, n)
    /\ pc \in {"marker", "delete"} => doomed = Orphans
    /\ pc = "cutWal" => (\A n \in DOMAIN archives : n <= floor) /\ (\A n \in numbers : n[1] < floor)
    /\ pc = "open" => wal_frames_written = Total
    /\ pc = "baseline" => wal = <<>>
    /\ pc \in {"cut", "cutFloor"} => kind = "truncate"
    /\ numbers \in SUBSET (Nat \X Nat)
    /\ Numbered(numbers, floor, Reachable)

\* That holds until the first failure.
CountInv == errors = 0 => Count

\* Quiet steps that write no frame.
LEMMA QuietCounts ==
    ASSUME TypeInv, Quiet, errors \in Nat, errors' = errors, ~Commit, ~Declare, ~WriteBaseline
    PROVE  /\ UNCHANGED <<wal, numbers>>
           /\ pc' \notin Orphaning => pc \notin Orphaning
           /\ pc' = "open" => wal_frames_written' = Total \/ (pc = "open" /\ wal_frames_written' = wal_frames_written)
           /\ pc' = "baseline" => pc = "baseline"
           /\ pc' \in {"cut", "cutFloor"} => kind' = "truncate" \/ (pc \in {"cut", "cutFloor"} /\ kind' = kind)
           /\ pc' = "floor" => wal_horizon_floor' = wal_horizon_floor
<1>1. CASE Reload BY <1>1 DEF Reload, Load, Total, Orphaning
<1>2. CASE Crash BY <1>2 DEF Crash, Orphaning
<1>3. CASE Settle BY <1>3 DEF Settle, Entered, Orphaning
<1>4. CASE \E k \in Kinds : SnapshotBegins(k) BY <1>4 DEF SnapshotBegins, Entered, Orphaning
<1>5. CASE WriteIntent BY <1>5 DEF WriteIntent, Orphaning
<1>6. CASE WriteSnapshot BY <1>6 DEF WriteSnapshot, Orphaning, TypeInv
<1>7. CASE DeleteMarker \/ CutMarker BY <1>7 DEF DeleteMarker, CutMarker, Orphaning
<1>8. CASE Finish BY <1>8 DEF Finish, Orphaning
<1>9. CASE Error
  <2>1. errors' = errors + 1 BY <1>9 DEF Error
  <2>2. errors' # errors BY <2>1
  <2> QED BY <2>2
<1>10. CASE UNCHANGED vars BY <1>10 DEF vars
<1> QED BY <1>1, <1>2, <1>3, <1>4, <1>5, <1>6, <1>7, <1>8, <1>9, <1>10 DEF Quiet

\* What can be read, where there are no orphans.
LEMMA ReachableIs ==
    ASSUME TypeInv, ArchivesInv
    PROVE  /\ Reachable \in Seq(Nat) /\ IsArchives(Without(archives, Orphans))
           /\ Archived(Without(archives, Orphans)) \in Seq(Nat)
           /\ DOMAIN Without(archives, Orphans) = DOMAIN archives \ Orphans
           /\ (\A n \in DOMAIN archives : floor < n) =>
                 Without(archives, Orphans) = archives /\ Reachable = Archived(archives) \o wal
                 /\ Len(Reachable) = Len(Archived(archives)) + Len(wal)
<1>0. IsArchives(archives) /\ Chained(archives) /\ floor \in Nat /\ wal \in Seq(Nat) /\ DOMAIN archives \subseteq Nat
  BY DEF TypeInv, ArchivesInv, IsArchives
<1>1. Oldest(archives, Orphans) BY <1>0, UnderIsOldest DEF Orphans
<1>2. IsArchives(Without(archives, Orphans)) /\ DOMAIN Without(archives, Orphans) = DOMAIN archives \ Orphans
  BY <1>0, <1>1, DropOldest
<1>3. Archived(Without(archives, Orphans)) \in Seq(Nat) BY <1>2, ArchivedType
<1>4. Reachable \in Seq(Nat) BY <1>0, <1>3 DEF Reachable
<1>5. ASSUME \A n \in DOMAIN archives : floor < n PROVE Without(archives, Orphans) = archives
  <2>1. \A a, b \in Nat : b < a => ~(a <= b) OBVIOUS
  <2>2. Orphans = {} BY <1>0, <1>5, <2>1 DEF Orphans
  <2>3. Without(archives, Orphans) = Only(archives, DOMAIN archives \ Orphans) BY WithoutIs
  <2>4. DOMAIN archives \subseteq DOMAIN archives \ Orphans BY <2>2
  <2> QED BY <1>0, <2>3, <2>4, OnlyAll
<1>6. Archived(archives) \in Seq(Nat) BY <1>0, ArchivedType
<1>7. Len(Archived(archives) \o wal) = Len(Archived(archives)) + Len(wal)
  <2>1. \A p, q \in Seq(Nat) : Len(p \o q) = Len(p) + Len(q) OBVIOUS
  <2> QED BY <1>0, <1>6, <2>1
<1> QED BY <1>2, <1>3, <1>4, <1>5, <1>7 DEF Reachable

\* A store without failures: its archives lie end to end from the floor.
LEMMA EndToEnd ==
    ASSUME NEW as, IsArchives(as), Chained(as), NEW f \in Nat, DOMAIN as # {},
           \A n \in DOMAIN as : f < n /\ f <= Start(as, n) /\ (Start(as, n) \in DOMAIN as \/ Start(as, n) <= f)
    PROVE  /\ Max(DOMAIN as) = f + Len(Archived(as)) /\ Len(Archived(as)) \in Nat
           /\ Max(DOMAIN as) \in DOMAIN as /\ \A y \in DOMAIN as : y <= Max(DOMAIN as)
<1> DEFINE l == Min(DOMAIN as)
           x == Max(DOMAIN as)
           s == Start(as, l)
<1>1. /\ x \in DOMAIN as /\ l \in DOMAIN as /\ s \notin DOMAIN as /\ s \in Nat
      /\ Len(Archived(as)) \in Nat /\ s + Len(Archived(as)) = x /\ \A y \in DOMAIN as : y <= x
  BY ChainEnd
<1>2. f <= s /\ s <= f BY <1>1
<1> HIDE DEF l, x, s
<1>3. s = f BY <1>1, <1>2
<1> QED BY <1>1, <1>3 DEF x

-----------------------------------------------------------------------------
(* The steps of a store without failures.                                  *)

\* The invariant of the numbering.
NumInv == TypeInv /\ ArchivesInv /\ HorizonInv /\ CountInv

\* What is known at an errors = 0 state.
LEMMA NumFacts ==
    ASSUME NumInv, errors = 0
    PROVE  /\ Count /\ Horizon
           /\ IsArchives(archives) /\ Chained(archives) /\ wal \in Seq(Nat) /\ Len(wal) \in Nat
           /\ floor \in Nat /\ wal_horizon_floor \in Nat
           /\ Archived(archives) \in Seq(Nat) /\ Len(Archived(archives)) \in Nat
           /\ DOMAIN archives \subseteq Nat
           /\ pc \notin {"down", "floor"} => wal_horizon_floor = floor
<1>0. 0 <= 1 OBVIOUS
<1>1. Count /\ Horizon BY <1>0 DEF NumInv, CountInv, HorizonInv
<1>2. IsArchives(archives) /\ Chained(archives) /\ wal \in Seq(Nat) /\ floor \in Nat /\ wal_horizon_floor \in Nat
  BY DEF NumInv, TypeInv, ArchivesInv
<1>3. Archived(archives) \in Seq(Nat) BY <1>2, ArchivedType
<1>4. DOMAIN archives \subseteq Nat BY <1>2 DEF IsArchives
<1>5. pc \notin {"down", "floor"} => wal_horizon_floor = floor BY <1>1 DEF Horizon
<1> QED BY <1>1, <1>2, <1>3, <1>4, <1>5, SeqLen

\* A commit takes the next number.
LEMMA CommitCounts ==
    ASSUME NumInv, errors = 0, Commit \/ Declare, made \in Nat PROVE Count'
<1>0. /\ Count /\ wal \in Seq(Nat) /\ Archived(archives) \in Seq(Nat) /\ floor \in Nat
      /\ Len(Archived(archives)) \in Nat /\ Len(wal) \in Nat
  BY NumFacts
<1>1. /\ pc = "open" /\ pc' = "open" /\ UNCHANGED <<archives, floor, errors>>
      /\ wal_frames_written' = wal_frames_written + 1
      /\ \E x \in Nat : /\ wal' = Append(wal, x)
                        /\ numbers' = numbers \/ numbers' = numbers \cup {<<wal_frames_written, x>>}
  BY DEF Commit, Declare, Append1, Entered, Declaration
<1>2. PICK x \in Nat : /\ wal' = Append(wal, x)
                       /\ numbers' = numbers \/ numbers' = numbers \cup {<<wal_frames_written, x>>}
  BY <1>1
<1>3. \A n \in DOMAIN archives : floor < n BY <1>0, <1>1 DEF Count, Orphaning
<1> DEFINE r == Archived(archives) \o wal
<1>4. Without(archives, Orphans) = archives /\ Reachable = r /\ r \in Seq(Nat) /\ Len(r) = Len(Archived(archives)) + Len(wal)
  BY <1>3, ReachableIs DEF NumInv
<1>5. Reachable' = Append(r, x)
  <2>1. Orphans' = Orphans BY <1>1 DEF Orphans
  <2>2. Reachable' = Archived(archives) \o Append(wal, x) BY <1>1, <1>2, <1>4, <2>1 DEF Reachable
  <2> QED BY <1>0, <2>2, AppendJoin
<1>6. wal_frames_written = floor + Len(r)
  <2>1. wal_frames_written = floor + Len(Archived(archives)) + Len(wal)
    BY <1>0, <1>1 DEF Count, Total
  <2>2. \A a, b, c \in Nat : a + b + c = a + (b + c) OBVIOUS
  <2> QED BY <1>0, <1>4, <2>1, <2>2
<1>7. wal_frames_written' = Total'
  <2>1. Len(wal') = Len(wal) + 1 BY <1>0, <1>2
  <2>2. wal_frames_written = floor + Len(Archived(archives)) + Len(wal)
    BY <1>0, <1>1 DEF Count, Total
  <2>3. \A a, b, c \in Nat : (a + b + c) + 1 = a + b + (c + 1) OBVIOUS
  <2>4. Total' = floor + Len(Archived(archives)) + (Len(wal) + 1) BY <1>1, <2>1 DEF Total
  <2> QED BY <1>0, <1>1, <2>2, <2>3, <2>4
<1>8. numbers' \in SUBSET (Nat \X Nat) /\ Numbered(numbers', floor', Reachable')
  <2>1. numbers \in SUBSET (Nat \X Nat) /\ Numbered(numbers, floor, r) BY <1>0, <1>4 DEF Count
  <2> HIDE DEF r
  <2>2. Len(r) \in Nat BY <1>4, SeqLen
  <2>3. <<floor + Len(r), x>> \in Nat \X Nat BY <1>0, <2>2
  <2>4. Numbered(numbers \cup {<<floor + Len(r), x>>}, floor, Append(r, x))
    BY <1>0, <1>4, <2>1, NumberedNext
  <2>5. Numbered(numbers, floor, Append(r, x)) BY <2>4 DEF Numbered
  <2> QED BY <1>1, <1>2, <1>5, <1>6, <2>1, <2>3, <2>4, <2>5
<1>9. \A n \in DOMAIN archives' : floor' < n => floor' <= Start(archives', n)
  BY <1>0, <1>1 DEF Count
<1>10. \A n \in DOMAIN archives' : floor' < n BY <1>1, <1>3
<1> QED BY <1>1, <1>7, <1>8, <1>9, <1>10 DEF Count

\* The replacement WAL follows the archive.
LEMMA BaselineCounts == ASSUME NumInv, errors = 0, WriteBaseline PROVE Count'
<1>0. Count /\ wal \in Seq(Nat) /\ Archived(archives) \in Seq(Nat) /\ floor \in Nat BY NumFacts
<1>1. /\ pc \in {"baseline", "archive"} /\ pc' = "prune" /\ wal' = Baseline
      /\ UNCHANGED <<archives, floor, numbers>>
      /\ pc = "archive" => NothingToArchive
  BY DEF WriteBaseline
<1>2. wal = <<>> \/ wal = Baseline
  <2>1. pc = "baseline" => wal = <<>> BY <1>0 DEF Count
  <2> QED BY <1>1, <2>1 DEF NothingToArchive
<1>3. \A n \in DOMAIN archives : floor < n BY <1>0, <1>1 DEF Count, Orphaning
<1> DEFINE a == Archived(archives)
<1>4. Without(archives, Orphans) = archives /\ Reachable = a \o wal BY <1>3, ReachableIs DEF NumInv
<1>5. Reachable' = a \o Baseline
  <2>1. Orphans' = Orphans BY <1>1 DEF Orphans
  <2> QED BY <1>1, <1>4, <2>1 DEF Reachable
<1>6. numbers \in SUBSET (Nat \X Nat) /\ Numbered(numbers, floor, a \o wal) BY <1>0, <1>4 DEF Count
<1>7. Numbered(numbers, floor, a \o Baseline)
  <2>1. CASE wal = Baseline BY <1>6, <2>1
  <2>2. CASE wal = <<>>
    <3>1. a \o wal = a BY <1>0, <2>2, JoinThree
    <3>2. Baseline \in Seq(Nat) BY BaselineFacts
    <3> QED BY <1>0, <1>6, <3>1, <3>2, NumberedMore
  <2> QED BY <1>2, <2>1, <2>2
<1>8. \A n \in DOMAIN archives' : floor' < n => floor' <= Start(archives', n)
  BY <1>0, <1>1 DEF Count
<1>9. \A n \in DOMAIN archives' : floor' < n BY <1>1, <1>3
<1> QED BY <1>1, <1>5, <1>6, <1>7, <1>8, <1>9 DEF Count

\* Steps that leave the archives, the floor and the WAL alone.
LEMMA QuietStepCounts ==
    ASSUME NumInv, errors = 0, errors' = 0, Quiet, ~Commit, ~Declare, ~WriteBaseline PROVE Count'
<1>0. Count /\ TypeInv /\ errors \in Nat /\ errors' = errors BY NumFacts DEF NumInv
<1>1. /\ UNCHANGED <<archives, floor, doomed>>
      /\ pc' = pc \/ pc' \notin {"floor", "marker", "delete", "cutWal"} \/ (pc = "marker" /\ pc' = "delete")
  BY QuietIs
<1>2. /\ UNCHANGED <<wal, numbers>>
      /\ pc' \notin Orphaning => pc \notin Orphaning
      /\ pc' = "open" => wal_frames_written' = Total \/ (pc = "open" /\ wal_frames_written' = wal_frames_written)
      /\ pc' = "baseline" => pc = "baseline"
      /\ pc' \in {"cut", "cutFloor"} => kind' = "truncate" \/ (pc \in {"cut", "cutFloor"} /\ kind' = kind)
      /\ pc' = "floor" => wal_horizon_floor' = wal_horizon_floor
  BY <1>0, QuietCounts
<1>3. Orphans' = Orphans /\ Reachable' = Reachable /\ Total' = Total /\ Surplus' = Surplus
  BY <1>1, <1>2 DEF Orphans, Reachable, Total, Surplus
<1>4. pc' = "floor" => /\ doomed' = Surplus' /\ doomed' # {}
                       /\ wal_horizon_floor' = floor' + Len(Archived(Only(archives', doomed')))
  BY <1>0, <1>1, <1>2, <1>3 DEF Count
<1>5. /\ pc' \notin Orphaning => \A n \in DOMAIN archives' : floor' < n
      /\ \A n \in DOMAIN archives' : floor' < n => floor' <= Start(archives', n)
  BY <1>0, <1>1, <1>2 DEF Count
<1>6. /\ pc' \in {"marker", "delete"} => doomed' = Orphans'
      /\ pc' = "cutWal" => (\A n \in DOMAIN archives' : n <= floor') /\ (\A n \in numbers' : n[1] < floor')
  BY <1>0, <1>1, <1>2, <1>3 DEF Count
<1>7. /\ pc' = "open" => wal_frames_written' = Total'
      /\ pc' = "baseline" => wal' = <<>>
      /\ pc' \in {"cut", "cutFloor"} => kind' = "truncate"
      /\ numbers' \in SUBSET (Nat \X Nat)
      /\ Numbered(numbers', floor', Reachable')
  BY <1>0, <1>1, <1>2, <1>3 DEF Count
<1> QED BY <1>4, <1>5, <1>6, <1>7 DEF Count

\* The archives that can be read are the same without orphans that are gone.
LEMMA OrphansGone ==
    ASSUME NEW as, IsArchives(as), NEW D, NEW E
    PROVE  Without(Without(as, D), E) = Without(as, D \cup E)
<1>1. Without(as, D) = Only(as, DOMAIN as \ D) /\ DOMAIN Only(as, DOMAIN as \ D) = DOMAIN as \ D
  BY WithoutIs DEF Only
<1> DEFINE bs == Only(as, DOMAIN as \ D)
           C == DOMAIN as \ D
           F == DOMAIN bs \ E
<1>2. Without(bs, E) = Only(bs, DOMAIN bs \ E) BY WithoutIs
<1>3. Only(bs, F) = Only(as, C \cap F)
  <2> HIDE DEF C, F
  <2>1. \A X, Y : Only(Only(as, X), Y) = Only(as, X \cap Y) BY OnlyOnly
  <2> QED BY <2>1 DEF C
<1>4. Without(as, D \cup E) = Only(as, DOMAIN as \ (D \cup E)) BY WithoutIs
<1>5. (DOMAIN as \ D) \cap (DOMAIN bs \ E) = DOMAIN as \ (D \cup E) BY <1>1
<1> QED BY <1>1, <1>2, <1>3, <1>4, <1>5

\* Archives that are all above the floor stay as they are.
LEMMA NoOrphans ==
    ASSUME NEW as, IsArchives(as), NEW f \in Nat, \A n \in DOMAIN as : f < n
    PROVE  Without(as, {n \in DOMAIN as : n <= f}) = as
<1> DEFINE D == {n \in DOMAIN as : n <= f}
<1>1. DOMAIN as \subseteq Nat BY DEF IsArchives
<1>2. \A a, b \in Nat : b < a => ~(a <= b) OBVIOUS
<1>3. D = {} BY <1>1, <1>2
<1>4. Without(as, D) = Only(as, DOMAIN as \ D) BY WithoutIs
<1>5. DOMAIN as \subseteq DOMAIN as \ D BY <1>3
<1> QED BY <1>4, <1>5, OnlyAll

\* cleanup_orphaned_archives takes what the floor disowned and nothing else.
LEMMA OpenCounts == ASSUME NumInv, errors = 0, Open PROVE Count'
<1>0. Count /\ IsArchives(archives) /\ Chained(archives) /\ floor \in Nat /\ DOMAIN archives \subseteq Nat /\ TypeInv /\ ArchivesInv
  BY NumFacts DEF NumInv
<1>1. /\ Oldest(archives, Orphans) /\ archives' = Without(archives, Orphans)
      /\ pc' = "open" /\ wal_frames_written' = floor + Len(Archived(archives')) + Len(wal)
      /\ UNCHANGED <<wal, floor, numbers>>
  BY <1>0, OpenIs
<1>2. /\ DOMAIN archives' = DOMAIN archives \ Orphans
      /\ \A n \in DOMAIN archives \ Orphans : Start(archives', n) = Start(archives, n)
  BY <1>0, <1>1, DropOldest
<1>3. \A n \in DOMAIN archives' : floor < n
  <2>1. \A a, b \in Nat : ~(a <= b) => b < a OBVIOUS
  <2> QED BY <1>0, <1>2, <2>1 DEF Orphans
<1>4. Reachable' = Reachable
  <2>1. Orphans \cup Orphans' = Orphans BY <1>1, <1>2 DEF Orphans
  <2>2. Without(archives', Orphans') = Without(archives, Orphans) BY <1>0, <1>1, <2>1, OrphansGone
  <2> QED BY <1>1, <2>2 DEF Reachable
<1>5. \A n \in DOMAIN archives' : floor' < n => floor' <= Start(archives', n)
  BY <1>0, <1>1, <1>2 DEF Count
<1>6. wal_frames_written' = Total' BY <1>1 DEF Total
<1>7. numbers' \in SUBSET (Nat \X Nat) /\ Numbered(numbers', floor', Reachable')
  BY <1>0, <1>1, <1>4 DEF Count
<1> QED BY <1>1, <1>3, <1>5, <1>6, <1>7 DEF Count

\* The archive takes the WAL's numbers over.
LEMMA ArchiveCounts == ASSUME NumInv, errors = 0, ArchiveWal PROVE Count'
<1>0. /\ Count /\ TypeInv /\ ArchivesInv /\ floor \in Nat /\ Archived(archives) \in Seq(Nat) /\ wal \in Seq(Nat)
      /\ DOMAIN archives \subseteq Nat
      /\ pc \notin {"down", "floor"} => wal_horizon_floor = floor
  BY NumFacts DEF NumInv
<1>1. pc = "archive" /\ pc' = "baseline" /\ wal' = <<>> /\ UNCHANGED <<floor, numbers>>
  BY <1>0, ArchiveWalIs
<1>2. PICK s : /\ Next1(archives, s) /\ Grown(archives, archives', s, ArchiveName, wal)
               /\ DOMAIN archives = {} => s = wal_horizon_floor
  BY <1>0, ArchiveWalIs
<1>3. /\ ArchiveName \in Nat /\ s < ArchiveName /\ DOMAIN archives' = DOMAIN archives \cup {ArchiveName}
      /\ Archived(archives') = Archived(archives) \o wal /\ Start(archives', ArchiveName) = s
      /\ \A n \in DOMAIN archives : Start(archives', n) = Start(archives, n)
  BY <1>2 DEF Grown
<1>4. \A n \in DOMAIN archives : floor < n BY <1>0, <1>1 DEF Count, Orphaning
<1>5. floor <= s /\ s \in Nat
  <2>1. s \in Nat BY <1>2 DEF Next1
  <2>2. CASE DOMAIN archives = {} BY <1>0, <1>1, <1>2, <2>1, <2>2
  <2>3. CASE DOMAIN archives # {}
    <3>1. s \in DOMAIN archives BY <1>2, <2>3 DEF Next1
    <3>2. floor < s BY <1>4, <3>1
    <3> QED BY <1>0, <2>1, <3>2
  <2> QED BY <2>2, <2>3
<1>6. floor < ArchiveName BY <1>0, <1>3, <1>5
<1>7. \A n \in DOMAIN archives' : floor' < n BY <1>1, <1>3, <1>4, <1>6
<1>8. \A n \in DOMAIN archives' : floor' < n => floor' <= Start(archives', n)
  BY <1>0, <1>1, <1>3, <1>5 DEF Count
<1>9. Reachable = Archived(archives) \o wal BY <1>0, <1>4, ReachableIs
<1>10. Reachable' = Archived(archives) \o wal
  <2>1. IsArchives(archives') BY <1>2 DEF Grown
  <2>2. Without(archives', Orphans') = archives' BY <1>0, <1>1, <1>7, <2>1, NoOrphans DEF Orphans
  <2>3. (Archived(archives) \o wal) \o <<>> = Archived(archives) \o wal
    <3>1. Archived(archives) \o wal \in Seq(Nat) BY <1>0
    <3> QED BY <3>1, JoinThree
  <2> QED BY <1>1, <1>3, <2>2, <2>3 DEF Reachable
<1>11. numbers' \in SUBSET (Nat \X Nat) /\ Numbered(numbers', floor', Reachable')
  BY <1>0, <1>1, <1>9, <1>10 DEF Count
<1> QED BY <1>1, <1>7, <1>8, <1>11 DEF Count

\* The surplus is counted from the floor on.
LEMMA SurplusCounts == ASSUME NumInv, errors = 0, CountSurplus PROVE Count'
<1>0. /\ Count /\ TypeInv /\ ArchivesInv
      /\ pc \notin {"down", "floor"} => wal_horizon_floor = floor
  BY NumFacts DEF NumInv
<1>1. /\ pc = "prune" /\ doomed' = Surplus /\ pc' = IF Surplus = {} THEN "finish" ELSE "floor"
      /\ wal_horizon_floor' = wal_horizon_floor + Len(Archived(Only(archives, Surplus)))
      /\ UNCHANGED <<wal, archives, floor, numbers>>
  BY <1>0, CountIs
<1>2. Surplus' = Surplus /\ Orphans' = Orphans /\ Reachable' = Reachable
  BY <1>1 DEF Surplus, Orphans, Reachable
<1>3. pc' = "floor" => /\ doomed' = Surplus' /\ doomed' # {}
                       /\ wal_horizon_floor' = floor' + Len(Archived(Only(archives', doomed')))
  BY <1>0, <1>1, <1>2
<1>4. \A n \in DOMAIN archives' : floor' < n BY <1>0, <1>1 DEF Count, Orphaning
<1>5. \A n \in DOMAIN archives' : floor' < n => floor' <= Start(archives', n)
  BY <1>0, <1>1 DEF Count
<1>6. numbers' \in SUBSET (Nat \X Nat) /\ Numbered(numbers', floor', Reachable')
  BY <1>0, <1>1, <1>2 DEF Count
<1>7. pc' \in {"finish", "floor"} BY <1>1
<1> QED BY <1>3, <1>4, <1>5, <1>6, <1>7 DEF Count

\* What the floor disowns is the surplus that was counted.
LEMMA FloorIs ==
    ASSUME NumInv, errors = 0, WriteFloor
    PROVE  /\ doomed = Surplus /\ doomed # {} /\ Oldest(archives, doomed)
           /\ floor' = floor + Len(Archived(Only(archives, doomed)))
           /\ floor' \in doomed /\ \A n \in DOMAIN archives : n <= floor' <=> n \in doomed
<1>0. /\ Count /\ Horizon /\ ArchivesInv /\ IsArchives(archives) /\ Chained(archives) /\ floor \in Nat /\ DOMAIN archives \subseteq Nat
  BY NumFacts DEF NumInv
<1>1. pc = "floor" /\ floor' = wal_horizon_floor BY DEF WriteFloor
<1>2. /\ doomed = Surplus /\ doomed # {} /\ wal_horizon_floor = floor + Len(Archived(Only(archives, doomed)))
      /\ \A n \in DOMAIN archives : floor < n
      /\ \A n \in DOMAIN archives : floor < n => floor <= Start(archives, n)
  BY <1>0, <1>1 DEF Count, Orphaning
<1>3. Oldest(archives, doomed) BY <1>0, <1>1 DEF ArchivesInv
<1> DEFINE os == Only(archives, doomed)
<1>4. IsArchives(os) /\ Chained(os) /\ DOMAIN os = doomed /\ \A n \in doomed : Start(os, n) = Start(archives, n)
  BY <1>0, <1>3, DropOldest
<1>5. ASSUME NEW n \in doomed
      PROVE  floor < n /\ floor <= Start(os, n) /\ (Start(os, n) \in doomed \/ Start(os, n) <= floor)
  <2>1. n \in DOMAIN archives BY <1>3 DEF Oldest
  <2>2. floor < n /\ floor <= Start(archives, n) BY <1>2, <2>1
  <2>3. Start(archives, n) \in DOMAIN archives \/ Start(archives, n) <= floor
    BY <1>0, <2>1 DEF Horizon
  <2>4. Start(archives, n) <= n
    <3>1. n \in Nat /\ Start(archives, n) \in Nat /\ Start(archives, n) < n BY <1>0, <2>1, StartIs
    <3>2. \A a, b \in Nat : a < b => a <= b OBVIOUS
    <3> QED BY <3>1, <3>2
  <2>5. Start(archives, n) \in DOMAIN archives => Start(archives, n) \in doomed
    BY <1>3, <2>4 DEF Oldest
  <2> QED BY <1>4, <2>2, <2>3, <2>5
<1> HIDE DEF os
<1>6. /\ Max(doomed) = floor + Len(Archived(os)) /\ Max(doomed) \in doomed /\ \A y \in doomed : y <= Max(doomed)
  <2>1. DOMAIN os # {} BY <1>2, <1>4
  <2>2. \A n \in DOMAIN os : floor < n /\ floor <= Start(os, n) /\ (Start(os, n) \in DOMAIN os \/ Start(os, n) <= floor)
    BY <1>4, <1>5
  <2>3. /\ Max(DOMAIN os) = floor + Len(Archived(os)) /\ Max(DOMAIN os) \in DOMAIN os /\ \A y \in DOMAIN os : y <= Max(DOMAIN os)
    BY <1>0, <1>4, <2>1, <2>2, EndToEnd
  <2> QED BY <1>4, <2>3
<1>7. floor' = Max(doomed) /\ floor' = floor + Len(Archived(os)) BY <1>1, <1>2, <1>6 DEF os
<1>8. \A n \in DOMAIN archives : n <= floor' <=> n \in doomed
  <2>1. ASSUME NEW n \in DOMAIN archives, n <= floor' PROVE n \in doomed
    BY <1>3, <1>6, <1>7, <2>1 DEF Oldest
  <2> QED BY <1>6, <1>7, <2>1
<1> QED BY <1>2, <1>3, <1>6, <1>7, <1>8 DEF os

\* The new floor is the number the surplus ends at.
LEMMA FloorCounts == ASSUME NumInv, errors = 0, WriteFloor PROVE Count'
<1>0. /\ Count /\ IsArchives(archives) /\ Chained(archives) /\ floor \in Nat /\ wal \in Seq(Nat)
      /\ TypeInv /\ ArchivesInv /\ DOMAIN archives \subseteq Nat
  BY NumFacts DEF NumInv
<1>1. pc = "floor" /\ pc' = "marker" /\ UNCHANGED <<wal, archives, doomed, numbers>>
  BY DEF WriteFloor
<1>2. /\ doomed # {} /\ Oldest(archives, doomed)
      /\ floor' = floor + Len(Archived(Only(archives, doomed)))
      /\ floor' \in doomed /\ \A n \in DOMAIN archives : n <= floor' <=> n \in doomed
  BY FloorIs
<1>3. Orphans' = doomed
  <2>1. doomed \subseteq DOMAIN archives BY <1>2 DEF Oldest
  <2> QED BY <1>1, <1>2, <2>1 DEF Orphans
<1>4. \A n \in DOMAIN archives' : floor' < n => floor' <= Start(archives', n)
  <2>1. floor' \in DOMAIN archives BY <1>2 DEF Oldest
  <2> QED BY <1>0, <1>1, <2>1 DEF Chained
<1> DEFINE p == Archived(Only(archives, doomed))
           q == Archived(Without(archives, doomed)) \o wal
<1>5. \A n \in DOMAIN archives : floor < n BY <1>0, <1>1 DEF Count, Orphaning
<1>6. /\ p \in Seq(Nat) /\ q \in Seq(Nat) /\ Reachable = p \o q
  <2>1. /\ IsArchives(Without(archives, doomed)) /\ IsArchives(Only(archives, doomed))
        /\ Archived(archives) = p \o Archived(Without(archives, doomed))
    BY <1>0, <1>2, DropOldest
  <2> DEFINE b == Archived(Without(archives, doomed))
  <2>2. p \in Seq(Nat) /\ b \in Seq(Nat) BY <2>1, ArchivedType
  <2>3. Reachable = Archived(archives) \o wal BY <1>0, <1>5, ReachableIs
  <2> HIDE DEF p, b
  <2>4. (p \o b) \o wal = p \o (b \o wal) BY <1>0, <2>2, JoinThree
  <2>5. Reachable = p \o (b \o wal) BY <2>1, <2>3, <2>4 DEF b
  <2>6. b \o wal \in Seq(Nat) BY <1>0, <2>2
  <2> QED BY <2>2, <2>5, <2>6 DEF b
<1>7. Reachable' = q BY <1>1, <1>3 DEF Reachable
<1>8. numbers \in SUBSET (Nat \X Nat) /\ Numbered(numbers, floor, Reachable) BY <1>0 DEF Count
<1> HIDE DEF p, q
<1>9. Numbered(numbers, floor + Len(p), q) BY <1>0, <1>6, <1>8, NumberedRest
<1>10. floor' = floor + Len(p) BY <1>2 DEF p
<1>11. numbers' \in SUBSET (Nat \X Nat) /\ Numbered(numbers', floor', Reachable')
  BY <1>1, <1>7, <1>8, <1>9, <1>10
<1> QED BY <1>1, <1>3, <1>4, <1>11 DEF Count, Orphaning

\* The oldest of the disowned archives goes, and the numbers above the floor stay.
LEMMA DeleteCounts == ASSUME NumInv, errors = 0, DeleteArchive PROVE Count'
<1>0. /\ Count /\ IsArchives(archives) /\ Chained(archives) /\ floor \in Nat /\ DOMAIN archives \subseteq Nat
      /\ TypeInv /\ ArchivesInv
  BY NumFacts DEF NumInv
<1> DEFINE l == Min(doomed)
<1>1. /\ pc = "delete" /\ l \in doomed /\ doomed' = doomed \ {l}
      /\ pc' = IF doomed' = {} THEN "finish" ELSE "delete"
      /\ Oldest(archives, {l}) /\ archives' = Without(archives, {l})
      /\ UNCHANGED <<wal, floor, numbers>>
  BY <1>0, DeleteIs
<1> HIDE DEF l
<1>2. doomed = Orphans BY <1>0, <1>1 DEF Count
<1>3. /\ DOMAIN archives' = DOMAIN archives \ {l}
      /\ \A n \in DOMAIN archives \ {l} : Start(archives', n) = Start(archives, n)
  BY <1>0, <1>1, DropOldest
<1>4. doomed' = Orphans' BY <1>1, <1>2, <1>3 DEF Orphans
<1>5. Reachable' = Reachable
  <2>1. {l} \cup Orphans' = Orphans BY <1>1, <1>2, <1>4
  <2>2. Without(archives', Orphans') = Without(archives, Orphans) BY <1>0, <1>1, <2>1, OrphansGone
  <2> QED BY <1>1, <2>2 DEF Reachable
<1>6. \A n \in DOMAIN archives' : floor' < n => floor' <= Start(archives', n)
  BY <1>0, <1>1, <1>3 DEF Count
<1>7. pc' \notin Orphaning => \A n \in DOMAIN archives' : floor' < n
  <2>1. ASSUME pc' \notin Orphaning, NEW n \in DOMAIN archives' PROVE floor' < n
    <3>1. Orphans' = {} BY <1>1, <1>4, <2>1 DEF Orphaning
    <3>2. ~(n <= floor) /\ n \in Nat BY <1>0, <1>1, <1>3, <3>1 DEF Orphans
    <3> QED BY <1>0, <1>1, <3>2
  <2> QED BY <2>1
<1>8. numbers' \in SUBSET (Nat \X Nat) /\ Numbered(numbers', floor', Reachable')
  BY <1>0, <1>1, <1>5 DEF Count
<1>9. pc' \in {"finish", "delete"} BY <1>1
<1> QED BY <1>4, <1>6, <1>7, <1>8, <1>9 DEF Count

\* A truncating snapshot's floor passes every number.
LEMMA CutFloorCounts == ASSUME NumInv, errors = 0, CutFloor PROVE Count'
<1>0. /\ Count /\ Horizon /\ IsArchives(archives) /\ Chained(archives) /\ floor \in Nat /\ wal \in Seq(Nat)
      /\ TypeInv /\ ArchivesInv /\ DOMAIN archives \subseteq Nat
      /\ Len(wal) \in Nat /\ Len(Archived(archives)) \in Nat
      /\ pc \notin {"down", "floor"} => wal_horizon_floor = floor
  BY NumFacts DEF NumInv
<1>1. /\ pc = "cutFloor" /\ pc' = "cutWal" /\ UNCHANGED <<wal, archives, numbers>>
      /\ \/ Total > wal_horizon_floor /\ floor' = Total
         \/ ~(Total > wal_horizon_floor) /\ floor' = floor
  BY DEF CutFloor
<1>2. \A n \in DOMAIN archives : floor < n BY <1>0, <1>1 DEF Count, Orphaning
<1>3. \A n \in DOMAIN archives : floor <= Start(archives, n) /\ (Start(archives, n) \in DOMAIN archives \/ Start(archives, n) <= floor)
  BY <1>0, <1>2 DEF Count, Horizon
<1>4. floor' = floor + (Len(Archived(archives)) + Len(wal)) /\ floor' \in Nat
  <2>1. wal_horizon_floor = floor BY <1>0, <1>1
  <2>2. Total = floor + Len(Archived(archives)) + Len(wal) BY DEF Total
  <2>3. \A a, b, c \in Nat : /\ a + b + c = a + (b + c) /\ a + b + c \in Nat
                             /\ ~(a + b + c > a) => a = a + (b + c)
    OBVIOUS
  <2> QED BY <1>0, <1>1, <2>1, <2>2, <2>3
<1>5. \A n \in DOMAIN archives : n <= floor'
  <2>1. CASE DOMAIN archives = {} BY <2>1
  <2>2. CASE DOMAIN archives # {}
    <3>1. Max(DOMAIN archives) = floor + Len(Archived(archives)) /\ \A y \in DOMAIN archives : y <= Max(DOMAIN archives)
      BY <1>0, <1>2, <1>3, <2>2, EndToEnd
    <3>2. \A n, a, b, c \in Nat : n <= a + b => n <= a + (b + c) OBVIOUS
    <3> QED BY <1>0, <1>4, <3>1, <3>2
  <2> QED BY <2>1, <2>2
<1>6. numbers \in SUBSET (Nat \X Nat) /\ Numbered(numbers, floor, Reachable) BY <1>0 DEF Count
<1>7. \A n \in numbers : n[1] < floor'
  <2>1. Len(Reachable) = Len(Archived(archives)) + Len(wal) BY <1>0, <1>2, ReachableIs
  <2> QED BY <1>4, <1>6, <2>1 DEF Numbered
<1>8. Reachable' \in Seq(Nat)
  <2>1. IsArchives(Without(archives, Orphans')) BY <1>0, OnlyIs, WithoutIs
  <2>2. Archived(Without(archives, Orphans')) \in Seq(Nat) BY <2>1, ArchivedType
  <2> QED BY <1>0, <1>1, <2>2 DEF Reachable
<1>9. Numbered(numbers, floor', Reachable') BY <1>4, <1>6, <1>7, <1>8, NumberedUnder
<1>10. \A n \in DOMAIN archives' : ~(floor' < n)
  <2>1. \A a, b \in Nat : a <= b => ~(b < a) OBVIOUS
  <2> QED BY <1>0, <1>1, <1>4, <1>5, <2>1
<1> QED BY <1>1, <1>5, <1>6, <1>7, <1>9, <1>10 DEF Count, Orphaning

\* The cut WAL and the doomed archives hold only numbers the floor has passed.
LEMMA CutWalCounts == ASSUME NumInv, errors = 0, CutWal PROVE Count'
<1>0. /\ Count /\ Horizon /\ IsArchives(archives) /\ floor \in Nat /\ DOMAIN archives \subseteq Nat
      /\ pc \notin {"down", "floor"} => wal_horizon_floor = floor
  BY NumFacts DEF NumInv
<1>1. /\ pc = "cutWal" /\ wal' = Baseline /\ doomed' = {n \in DOMAIN archives : n <= wal_horizon_floor}
      /\ pc' = IF doomed' = {} THEN "finish" ELSE "delete"
      /\ UNCHANGED <<archives, floor, numbers>>
  BY DEF CutWal
<1>2. (\A n \in DOMAIN archives : n <= floor) /\ (\A n \in numbers : n[1] < floor) /\ numbers \in SUBSET (Nat \X Nat)
  BY <1>0, <1>1 DEF Count
<1>3. doomed' = Orphans' /\ Orphans' = DOMAIN archives BY <1>0, <1>1, <1>2 DEF Orphans
<1>4. pc' \notin Orphaning => \A n \in DOMAIN archives' : floor' < n BY <1>1, <1>3 DEF Orphaning
<1>5. \A n \in DOMAIN archives' : floor' < n => floor' <= Start(archives', n)
  BY <1>0, <1>1 DEF Count
<1>6. Reachable' \in Seq(Nat)
  <2>1. IsArchives(Without(archives, Orphans')) BY <1>0, OnlyIs, WithoutIs
  <2>2. Archived(Without(archives, Orphans')) \in Seq(Nat) BY <2>1, ArchivedType
  <2> QED BY <1>1, <2>2, BaselineFacts DEF Reachable
<1>7. Numbered(numbers, floor, Reachable') BY <1>0, <1>2, <1>6, NumberedUnder
<1>8. pc' \in {"finish", "delete"} BY <1>1
<1> QED BY <1>1, <1>2, <1>3, <1>4, <1>5, <1>7, <1>8 DEF Count

\* errors never goes back.
LEMMA ErrorsGrow == ASSUME ArchivesInv, [Next]_vars, errors' = 0 PROVE errors = 0
<1>1. CASE Quiet
  <2>1. errors' = errors \/ errors' = errors + 1 BY <1>1, QuietIs
  <2>2. errors \in Nat BY DEF ArchivesInv
  <2> QED BY <2>1, <2>2
<1>2. CASE Open \/ ArchiveWal \/ CountSurplus \/ WriteFloor \/ DeleteArchive \/ CutFloor \/ CutWal
  BY <1>2 DEF Open, ArchiveWal, CountSurplus, WriteFloor, DeleteArchive, CutFloor, CutWal
<1> QED BY <1>1, <1>2, StepCases

\* Every step but a failure keeps the count.
LEMMA CountKeep == ASSUME NumInv, [Next]_vars, errors' = 0 PROVE Count'
<1>0. errors = 0 /\ made \in Nat BY ErrorsGrow DEF NumInv, TypeInv
<1>1. CASE Quiet
  <2>1. CASE Commit \/ Declare BY <1>0, <2>1, CommitCounts
  <2>2. CASE WriteBaseline BY <1>0, <2>2, BaselineCounts
  <2>3. CASE ~Commit /\ ~Declare /\ ~WriteBaseline BY <1>0, <1>1, <2>3, QuietStepCounts
  <2> QED BY <2>1, <2>2, <2>3
<1>2. CASE Open BY <1>0, <1>2, OpenCounts
<1>3. CASE ArchiveWal BY <1>0, <1>3, ArchiveCounts
<1>4. CASE CountSurplus BY <1>0, <1>4, SurplusCounts
<1>5. CASE WriteFloor BY <1>0, <1>5, FloorCounts
<1>6. CASE DeleteArchive BY <1>0, <1>6, DeleteCounts
<1>7. CASE CutFloor BY <1>0, <1>7, CutFloorCounts
<1>8. CASE CutWal BY <1>0, <1>8, CutWalCounts
<1> QED BY <1>1, <1>2, <1>3, <1>4, <1>5, <1>6, <1>7, <1>8, StepCases

\* At first no number is stamped.
LEMMA NumStart == Init => NumInv
<1>1. SUFFICES ASSUME Init PROVE NumInv OBVIOUS
<1>2. TypeInv /\ ArchivesInv /\ HorizonInv BY <1>1, InitHolds, ArchivesStart, HorizonStart DEF IInv
<1>3. Count
  <2>1. archives = <<>> /\ DOMAIN archives = {} /\ numbers = {} /\ pc = "down"
    BY <1>1, NoArchives DEF Init
  <2> QED BY <2>1 DEF Count, Orphaning, Numbered
<1> QED BY <1>2, <1>3 DEF NumInv, CountInv

\* Every step keeps the numbering.
LEMMA NumKeep == IInv /\ NumInv /\ [Next]_vars => NumInv'
<1>1. SUFFICES ASSUME IInv, NumInv, [Next]_vars PROVE NumInv' OBVIOUS
<1>2. TypeInv' BY <1>1, NextKeeps DEF IInv
<1>3. ArchivesInv' BY <1>1, ArchivesKeep DEF NumInv
<1>4. HorizonInv' BY <1>1, HorizonKeep DEF NumInv
<1>5. CountInv' BY <1>1, CountKeep DEF CountInv
<1> QED BY <1>2, <1>3, <1>4, <1>5 DEF NumInv

-----------------------------------------------------------------------------
(* The numbering: its invariant, and what follows.                         *)

\* The numbering of the store, over any number of snapshots of every kind, crashes
\* and errors: archives are a chain whatever fails, the floors agree but for one
\* failure, and frames are counted once as long as none fails.
THEOREM NumInvariance == Spec => []NumInv
BY NumStart, NumKeep, Invariance, PTL DEF Spec

\* Stamped numbers above the floor are answered.
LEMMA NumberedKept == ASSUME NumInv, errors = 0 PROVE NumbersKept
<1>1. /\ numbers \in SUBSET (Nat \X Nat) /\ Numbered(numbers, floor, Reachable) /\ floor \in Nat
  BY NumFacts DEF Count
<1>2. Len(Reachable) \in Nat BY ReachableIs, SeqLen DEF NumInv
<1>3. ASSUME NEW n \in numbers, n[1] >= floor
      PROVE  n[1] - floor < Len(Reachable) /\ Reachable[n[1] - floor + 1] = n[2]
  <2>1. n[1] \in Nat BY <1>1
  <2>2. floor <= n[1] BY <1>1, <1>3, <2>1
  <2>3. n[1] < floor + Len(Reachable) /\ Reachable[n[1] - floor + 1] = n[2]
    BY <1>1, <2>2 DEF Numbered
  <2>4. \A a, b, c \in Nat : a < b + c => a - b < c OBVIOUS
  <2> QED BY <1>1, <1>2, <2>1, <2>3, <2>4
<1> QED BY <1>3 DEF NumbersKept

\* snapshot_with, apply_retention and cleanup_orphaned_archives: crashes between
\* their steps leave every commit its number, and the rename of ArchiveWal never
\* meets an archive of the same name, whatever failed before.
THEOREM NumbersSurviveCrashes == Spec => []CrashesKeepNumbers
<1>1. NumInv => CrashesKeepNumbers
  <2>1. SUFFICES ASSUME NumInv PROVE CrashesKeepNumbers OBVIOUS
  <2>2. errors = 0 => NumbersKept BY <2>1, NumberedKept
  <2>3. ArchiveNameIsFree BY <2>1, ArchiveIs DEF NumInv, ArchiveNameIsFree
  <2> QED BY <2>2, <2>3 DEF CrashesKeepNumbers
<1> QED BY <1>1, NumInvariance, PTL

\* The floor disowns an archive for Keep newer ones or a truncating snapshot.
Retains ==
    \A n \in DOMAIN archives : errors' = 0 /\ n > floor /\ n <= floor' =>
        \/ kind = "truncate"
        \/ Keep # 0 /\ Cardinality({m \in DOMAIN archives : m > n}) >= Keep

\* Every step of a store without failures does so.
LEMMA RetentionStays == ASSUME NumInv, [Next]_vars PROVE Retains
<1>1. SUFFICES ASSUME NEW n \in DOMAIN archives, errors' = 0, n > floor, n <= floor'
               PROVE  kind = "truncate" \/ (Keep # 0 /\ Cardinality({m \in DOMAIN archives : m > n}) >= Keep)
  BY DEF Retains
<1>2. errors = 0 BY <1>1, ErrorsGrow DEF NumInv
<1>3. Count /\ floor \in Nat /\ IsArchives(archives) /\ Chained(archives) /\ DOMAIN archives \subseteq Nat
  BY <1>2, NumFacts
<1>4. CASE floor' = floor
  <2>1. n \in Nat BY <1>3
  <2> QED BY <1>1, <1>3, <1>4, <2>1
<1>5. CASE Quiet BY <1>4, <1>5, QuietIs
<1>6. CASE Open \/ ArchiveWal \/ CountSurplus \/ DeleteArchive \/ CutWal
  <2>1. floor' = floor BY <1>6 DEF Open, ArchiveWal, CountSurplus, DeleteArchive, CutWal
  <2> QED BY <1>4, <2>1
<1>7. CASE WriteFloor
  <2>1. doomed = Surplus /\ doomed # {} /\ n \in doomed BY <1>1, <1>2, <1>7, FloorIs
  <2> QED BY <1>3, <2>1, SurplusIs
<1>8. CASE CutFloor
  <2>1. pc = "cutFloor" BY <1>8 DEF CutFloor
  <2> QED BY <1>3, <2>1 DEF Count
<1> QED BY <1>5, <1>6, <1>7, <1>8, StepCases

\* apply_retention and the truncating cut: no frame goes but by retention, and then
\* after the floor that accounts for it is on disk.
THEOREM HistoryIsKept == Spec => HistoryKept
<1>1. NumInv /\ [Next]_vars => KeepsArchives BY ArchivesStay DEF NumInv
<1>2. NumInv /\ [Next]_vars => Retains BY RetentionStays
<1>3. Spec => [][KeepsArchives]_vars BY <1>1, NumInvariance, PTL DEF Spec
<1>4. Spec => [][Retains]_vars BY <1>2, NumInvariance, PTL DEF Spec
<1>5. Spec => ArchivesKept BY <1>3, PTL DEF ArchivesKept, KeepsArchives
<1>6. Spec => RetentionKept BY <1>4, PTL DEF RetentionKept, Retains
<1> QED BY <1>5, <1>6 DEF HistoryKept

-----------------------------------------------------------------------------
(* Reading the past.                                                       *)

\* What the first k frames give is the beginning of what all of them give.
LEMMA CollectsLater ==
    ASSUME NEW s \in Seq(Nat), NEW g, Collects(g, s), NEW k \in Nat, k <= Len(s)
    PROVE  \E r \in Seq(Nat) : g[Len(s)] = g[k] \o r
<1> DEFINE S == {j \in Nat : k + j <= Len(s) => \E r \in Seq(Nat) : g[k + j] = g[k] \o r}
<1>0. /\ Len(s) \in Nat /\ \A n \in Nat : n <= Len(s) => g[n] \in Seq(Nat) BY CollectsType
<1>1. 0 \in S
  <2>1. g[k] \in Seq(Nat) /\ k + 0 = k BY <1>0
  <2>2. g[k] = g[k] \o <<>> BY <2>1, JoinThree
  <2>3. <<>> \in Seq(Nat) OBVIOUS
  <2> QED BY <2>1, <2>2, <2>3
<1>2. ASSUME NEW j \in Nat, j \in S PROVE j + 1 \in S
  <2>1. SUFFICES ASSUME k + (j + 1) <= Len(s) PROVE \E r \in Seq(Nat) : g[k + (j + 1)] = g[k] \o r
    OBVIOUS
  <2> DEFINE i == k + j
  <2>2. i \in Nat /\ i + 1 = k + (j + 1) /\ i + 1 <= Len(s) /\ i <= Len(s) /\ i + 1 \in 1..Len(s)
    BY <1>0, <2>1
  <2>3. PICK r \in Seq(Nat) : g[i] = g[k] \o r BY <1>2, <2>2
  <2> HIDE DEF i
  <2>4. g[i + 1] = IF s[i + 1] = Declaration THEN g[i] ELSE Append(g[i], s[i + 1])
    BY <2>2, CollectsStep
  <2>5. s[i + 1] \in Nat /\ g[k] \in Seq(Nat) BY <1>0, <2>2
  <2>6. g[k] \o Append(r, s[i + 1]) = Append(g[k] \o r, s[i + 1]) BY <2>5, AppendJoin
  <2>7. Append(r, s[i + 1]) \in Seq(Nat) BY <2>5
  <2>8. \E t \in Seq(Nat) : g[i + 1] = g[k] \o t BY <2>3, <2>4, <2>6, <2>7
  <2> QED BY <2>2, <2>8
<1>3. S \in SUBSET Nat OBVIOUS
<1> HIDE DEF S
<1>4. \A j \in Nat : j \in S BY <1>1, <1>2, <1>3, Induction
<1>5. Len(s) - k \in Nat /\ k + (Len(s) - k) = Len(s) /\ Len(s) <= Len(s) BY <1>0
<1>6. Len(s) - k \in S BY <1>4, <1>5
<1> QED BY <1>5, <1>6 DEF S

\* ... and if the k-th frame is a commit, the state as of that commit.
LEMMA AnswerIs ==
    ASSUME NEW st \in Seq(Nat), NEW s \in Seq(Nat), NEW m \in Nat, st \o Data(s) = History(m), NEW k \in 1..Len(s)
    PROVE  /\ st \o Data(SubSeq(s, 1, k)) = History(Len(st \o Data(SubSeq(s, 1, k))))
           /\ s[k] # Declaration => Len(st \o Data(SubSeq(s, 1, k))) = s[k]
<1> DEFINE u == SubSeq(s, 1, k)
<1>1. k \in Nat /\ Len(s) \in Nat /\ k <= Len(s) /\ u \in Seq(Nat) /\ Len(u) = k /\ \A i \in 1..Len(u) : u[i] = s[i]
  OBVIOUS
<1> HIDE DEF u
<1>2. PICK g : Collects(g, s) /\ Data(s) = g[Len(s)] BY DataIs
<1>3. PICK h : Collects(h, u) /\ Data(u) = h[Len(u)] BY <1>1, DataIs
<1>4. Data(u) = g[k]
  <2>1. Len(u) <= Len(s) BY <1>1
  <2>2. h[Len(u)] = g[Len(u)] BY <1>1, <1>2, <1>3, <2>1, CollectsAgree
  <2> QED BY <1>1, <1>3, <2>2
<1>5. PICK r \in Seq(Nat) : g[Len(s)] = g[k] \o r BY <1>1, <1>2, CollectsLater
<1>6. g[k] \in Seq(Nat) BY <1>1, <1>2, CollectsType
<1> DEFINE a == st \o g[k]
<1>7. a \in Seq(Nat) /\ Len(a) \in Nat BY <1>6
<1>8. a \o r = History(m)
  <2> DEFINE c == g[k]
  <2>1. c \in Seq(Nat) BY <1>6
  <2> HIDE DEF c
  <2>2. (st \o c) \o r = st \o (c \o r) BY <2>1, JoinThree
  <2> QED BY <1>2, <1>5, <2>2 DEF c
<1> HIDE DEF a
<1>9. /\ Len(a \o r) = Len(a) + Len(r) /\ Len(r) \in Nat /\ \A i \in 1..Len(a) : (a \o r)[i] = a[i]
  BY <1>7
<1>10. Len(History(m)) = m /\ \A i \in 1..m : History(m)[i] = i BY DEF History
<1>11. \A i \in 1..Len(a) : a[i] = i
  <2>1. Len(a) <= m BY <1>7, <1>8, <1>9, <1>10
  <2>2. \A i \in 1..Len(a) : i \in 1..m BY <1>7, <2>1
  <2> QED BY <1>8, <1>9, <1>10, <2>2
<1>12. a = History(Len(a))
  <2> DEFINE b == History(Len(a))
  <2>1. b \in Seq(Nat) /\ Len(b) = Len(a) /\ \A i \in 1..Len(a) : b[i] = i BY <1>7 DEF History
  <2> HIDE DEF b
  <2>2. a = b BY <1>7, <1>11, <2>1, SameSeq
  <2> QED BY <2>2 DEF b
<1>13. ASSUME s[k] # Declaration PROVE Len(a) = s[k]
  <2> DEFINE j == k - 1
  <2>1. j \in Nat /\ j + 1 = k /\ j + 1 <= Len(s) /\ j <= Len(s) BY <1>1
  <2> HIDE DEF j
  <2>2. g[j + 1] = IF s[j + 1] = Declaration THEN g[j] ELSE Append(g[j], s[j + 1])
    BY <1>2, <2>1, CollectsStep
  <2>3. g[k] = Append(g[j], s[k]) BY <1>13, <2>1, <2>2
  <2>4. g[j] \in Seq(Nat) BY <1>2, <2>1, CollectsType
  <2>5. s[k] \in Nat BY <1>1
  <2>6. a = Append(st \o g[j], s[k])
    <3>1. \A b \in Seq(Nat), x \in Nat : st \o Append(b, x) = Append(st \o b, x) BY AppendJoin
    <3> QED BY <2>3, <2>4, <2>5, <3>1 DEF a
  <2> DEFINE c == st \o g[j]
  <2>7. c \in Seq(Nat) BY <2>4
  <2> HIDE DEF c
  <2>8. a = Append(c, s[k]) BY <2>6 DEF c
  <2>9. Len(a) \in 1..Len(a) /\ a[Len(a)] = s[k] BY <2>5, <2>7, <2>8
  <2> QED BY <1>11, <2>9
<1>14. st \o Data(u) = a BY <1>4 DEF a
<1> QED BY <1>12, <1>13, <1>14 DEF u

-----------------------------------------------------------------------------
(* Every commit is there until one is disowned.                            *)

\* A snapshot that was taken exists, and one that replaced the WAL has no mark.
Taken(s) == (~s.exists => s.state = <<>> /\ s.mark = None) /\ (s.truncated => s.mark = None)

\* So are the snapshots in the intent file and the one being taken; between the
\* rename and the baseline the WAL is empty.
TakenInv ==
    /\ \A r \in Records(intent) : r.snapshot.exists
    /\ Taken(snapshot)
    /\ pc \in {"begun", "intended"} => buf.exists /\ Taken(buf)
    /\ pc = "baseline" => wal = <<>>

\* Before anything is disowned the archives and the WAL hold every commit.
WholeInv == errors <= 1 /\ floor = 0 => Data(Archived(archives) \o wal) = History(made)

\* A record of the new intent file names the new snapshot or stood before.
LEMMA IntentRecords ==
    ASSUME TypeInv, WriteIntent, NEW r \in Records(intent') PROVE r.snapshot = buf \/ r \in Records(intent)
<1>1. CASE ~Replaces BY <1>1 DEF WriteIntent
<1>2. CASE Replaces
  <2> DEFINE new == [snapshot |-> buf, wal |-> wal]
  <2>1. intent' = <<new>> \o StandingIntent BY <1>2 DEF WriteIntent, IntentFile
  <2>2. new \in Intents /\ new.snapshot = buf BY DEF Intents, TypeInv
  <2> HIDE DEF new
  <2>3. StandingIntent \in Seq(Intents) /\ \A t \in Records(StandingIntent) : t \in Records(intent)
    BY StandingFacts
  <2>4. \A i \in 1..Len(intent') : \/ intent'[i] = new
                                   \/ i - 1 \in 1..Len(StandingIntent) /\ intent'[i] = StandingIntent[i - 1]
    BY <2>1, <2>2, <2>3
  <2>5. r = new \/ r \in Records(StandingIntent) BY <2>4 DEF Records
  <2> QED BY <2>2, <2>3, <2>5
<1> QED BY <1>1, <1>2

\* Every step keeps that.
LEMMA TakenKeep == ASSUME TypeInv, TakenInv, [Next]_vars PROVE TakenInv'
<1>1. CASE UNCHANGED vars BY <1>1 DEF vars, TakenInv
<1>2. CASE Open \/ Reload BY <1>2 DEF Open, Reload, TakenInv
<1>3. CASE Crash \/ Error BY <1>3 DEF Crash, Error, TakenInv
<1>4. CASE Settle
  <2>1. \A r \in Records(intent') : r \in Records(intent) BY <1>4, StandingFacts DEF Settle
  <2>2. pc' = "open" /\ snapshot' = snapshot BY <1>4 DEF Settle, Entered
  <2> QED BY <2>1, <2>2 DEF TakenInv
<1>5. CASE Commit \/ Declare BY <1>5 DEF Commit, Declare, Append1, Entered, TakenInv
<1>6. CASE \E k \in Kinds : SnapshotBegins(k)
  <2>1. PICK k \in Kinds : SnapshotBegins(k) BY <1>6
  <2>2. /\ pc' = "begun" /\ UNCHANGED <<snapshot, intent>>
        /\ buf' = [exists |-> TRUE, state |-> state, mark |-> IF k = "keep" THEN wal ELSE None,
                   truncated |-> k # "keep", decl |-> declared]
    BY <2>1 DEF SnapshotBegins
  <2>3. buf'.exists = TRUE /\ (buf'.truncated => buf'.mark = None) BY <2>2
  <2> QED BY <2>2, <2>3 DEF TakenInv, Taken
<1>7. CASE WriteIntent
  <2>1. pc = "begun" /\ pc' = "intended" /\ UNCHANGED <<snapshot, buf>> BY <1>7 DEF WriteIntent
  <2>2. \A r \in Records(intent') : r.snapshot = buf \/ r \in Records(intent) BY <1>7, IntentRecords
  <2> QED BY <2>1, <2>2 DEF TakenInv
<1>8. CASE WriteSnapshot BY <1>8 DEF WriteSnapshot, TakenInv
<1>9. CASE ArchiveWal BY <1>9 DEF ArchiveWal, TakenInv
<1>10. CASE \/ WriteBaseline \/ CountSurplus \/ WriteFloor \/ DeleteMarker
            \/ DeleteArchive \/ CutMarker \/ CutFloor \/ CutWal
  BY <1>10 DEF WriteBaseline, CountSurplus, WriteFloor, DeleteMarker, DeleteArchive, CutMarker, CutFloor, CutWal, TakenInv
<1>11. CASE Finish
  <2>1. pc' = "open" /\ UNCHANGED snapshot /\ (intent' = <<>> \/ intent' = intent)
    BY <1>11 DEF Finish
  <2>2. Records(<<>>) = {} BY DEF Records
  <2> QED BY <2>1, <2>2 DEF TakenInv
<1> QED BY <1>1, <1>2, <1>3, <1>4, <1>5, <1>6, <1>7, <1>8, <1>9, <1>10, <1>11 DEF Next

\* With the floor at 0 no archive is disowned.
LEMMA AboveZero == ASSUME NEW as, IsArchives(as), Chained(as) PROVE \A n \in DOMAIN as : 0 < n
<1>1. ASSUME NEW n \in DOMAIN as PROVE 0 < n
  <2>1. n \in Nat /\ Start(as, n) \in Nat /\ Start(as, n) < n BY StartIs
  <2>2. \A a, b \in Nat : a < b => 0 < b OBVIOUS
  <2> QED BY <2>1, <2>2
<1> QED BY <1>1

\* Quiet steps that write no frame leave the WAL and the count of commits.
LEMMA QuietSame == ASSUME Quiet, ~Commit, ~Declare, ~WriteBaseline PROVE UNCHANGED <<wal, made>>
<1>1. CASE Reload BY <1>1 DEF Reload, Load
<1>2. CASE Crash \/ Error BY <1>2 DEF Crash, Error
<1>3. CASE Settle BY <1>3 DEF Settle
<1>4. CASE \E k \in Kinds : SnapshotBegins(k) BY <1>4 DEF SnapshotBegins
<1>5. CASE WriteIntent \/ WriteSnapshot BY <1>5 DEF WriteIntent, WriteSnapshot
<1>6. CASE DeleteMarker \/ CutMarker BY <1>6 DEF DeleteMarker, CutMarker
<1>7. CASE Finish BY <1>7 DEF Finish
<1>8. CASE UNCHANGED vars BY <1>8 DEF vars
<1> QED BY <1>1, <1>2, <1>3, <1>4, <1>5, <1>6, <1>7, <1>8 DEF Quiet

\* A declaration adds no commit.
LEMMA BaselineAdds == ASSUME NEW a \in Seq(Nat) PROVE Data(a \o Baseline) = Data(a) /\ a \o <<>> = a
<1>1. a \o <<>> = a BY JoinThree
<1>2. CASE declared
  <2>1. Baseline = <<Declaration>> /\ Declaration \in Nat BY <1>2 DEF Baseline, Declaration
  <2>2. a \o Baseline = Append(a, Declaration) BY <2>1, AppendIsConcat
  <2> QED BY <1>1, <2>1, <2>2, DataAppend
<1>3. CASE ~declared
  <2>1. Baseline = <<>> BY <1>3 DEF Baseline
  <2> QED BY <1>1, <2>1
<1> QED BY <1>2, <1>3

\* Every step keeps that, up to the first failure and past it.
LEMMA WholeKeep == ASSUME NumInv, TakenInv, WholeInv, [Next]_vars PROVE WholeInv'
<1>0. /\ TypeInv /\ ArchivesInv /\ HorizonInv
      /\ IsArchives(archives) /\ Chained(archives) /\ wal \in Seq(Nat) /\ made \in Nat
      /\ floor \in Nat /\ wal_horizon_floor \in Nat /\ errors \in Nat
  BY DEF NumInv, ArchivesInv, TypeInv
<1> DEFINE a == Archived(archives)
<1>1. a \in Seq(Nat) BY <1>0, ArchivedType
<1>a. SUFFICES ASSUME errors' <= 1, floor' = 0 PROVE Data(Archived(archives') \o wal') = History(made')
  BY DEF WholeInv
<1>b. ASSUME errors <= 1, floor = 0 PROVE Data(a \o wal) = History(made) BY <1>b DEF WholeInv
<1> HIDE DEF a
<1>2. CASE Quiet
  <2>1. UNCHANGED <<archives, floor>> /\ (errors' = errors \/ errors' = errors + 1) BY <1>2, QuietIs
  <2>2. errors <= 1 /\ floor = 0 BY <1>0, <1>a, <2>1
  <2>3. Data(a \o wal) = History(made) BY <1>b, <2>2
  <2>4. Archived(archives') = a BY <2>1 DEF a
  <2>5. CASE Commit
    <3>1. made' = made + 1 /\ wal' = Append(wal, made + 1) BY <2>5 DEF Commit, Append1
    <3>2. made + 1 \in Nat /\ made + 1 # Declaration BY <1>0 DEF Declaration
    <3>3. a \o wal' = Append(a \o wal, made + 1) BY <1>0, <1>1, <3>1, <3>2, AppendJoin
    <3>4. a \o wal \in Seq(Nat) BY <1>0, <1>1
    <3>5. Data(a \o wal') = Append(History(made), made + 1) BY <2>3, <3>2, <3>3, <3>4, DataAppend
    <3> QED BY <1>0, <2>4, <3>1, <3>5, HistoryFacts
  <2>6. CASE Declare
    <3>1. made' = made /\ wal' = Append(wal, Declaration) BY <2>6 DEF Declare, Append1
    <3>2. Declaration \in Nat BY DEF Declaration
    <3>3. a \o wal' = Append(a \o wal, Declaration) BY <1>0, <1>1, <3>1, <3>2, AppendJoin
    <3>4. a \o wal \in Seq(Nat) BY <1>0, <1>1
    <3>5. Data(a \o wal') = History(made) BY <2>3, <3>2, <3>3, <3>4, DataAppend
    <3> QED BY <2>4, <3>1, <3>5
  <2>7. CASE WriteBaseline
    <3>1. made' = made /\ wal' = Baseline /\ (pc = "baseline" \/ (pc = "archive" /\ NothingToArchive))
      BY <2>7 DEF WriteBaseline
    <3>2. wal = <<>> \/ wal = Baseline BY <3>1 DEF TakenInv, NothingToArchive
    <3>3. Data(a \o Baseline) = Data(a) /\ a \o <<>> = a BY <1>1, BaselineAdds
    <3> QED BY <2>3, <2>4, <3>1, <3>2, <3>3
  <2>8. CASE ~Commit /\ ~Declare /\ ~WriteBaseline
    <3>1. UNCHANGED <<wal, made>> BY <1>2, <2>8, QuietSame
    <3> QED BY <2>3, <2>4, <3>1
  <2> QED BY <2>5, <2>6, <2>7, <2>8
<1>3. CASE Open
  <2>1. archives' = Without(archives, Orphans) /\ UNCHANGED <<wal, floor, made, errors>>
    BY <1>0, <1>3, OpenIs
  <2>2. floor = 0 BY <1>a, <2>1
  <2>3. \A n \in DOMAIN archives : floor < n BY <1>0, <2>2, AboveZero
  <2>4. Without(archives, Orphans) = archives BY <1>0, <2>3, NoOrphans DEF Orphans
  <2>5. Archived(archives') = a BY <2>1, <2>4 DEF a
  <2> QED BY <1>a, <1>b, <2>1, <2>5
<1>4. CASE ArchiveWal
  <2>1. wal' = <<>> /\ UNCHANGED <<floor, errors, made>> BY <1>0, <1>4, ArchiveWalIs
  <2>2. \E s : Grown(archives, archives', s, ArchiveName, wal) BY <1>0, <1>4, ArchiveWalIs
  <2>3. Archived(archives') = a \o wal BY <2>2 DEF Grown, a
  <2>4. a \o wal \in Seq(Nat) BY <1>0, <1>1
  <2>5. (a \o wal) \o <<>> = a \o wal BY <2>4, JoinThree
  <2> QED BY <1>a, <1>b, <2>1, <2>3, <2>5
<1>5. CASE CountSurplus \/ WriteFloor \/ CutFloor
  <2>1. /\ UNCHANGED <<wal, archives, made, errors>>
        /\ floor' = floor \/ (pc = "floor" /\ floor' = wal_horizon_floor) \/ (pc = "cutFloor" /\ floor' > wal_horizon_floor)
    BY <1>5 DEF CountSurplus, WriteFloor, CutFloor
  <2>2. pc # "down" => floor <= wal_horizon_floor BY <1>0 DEF ArchivesInv
  <2>3. floor = 0 BY <1>0, <1>a, <2>1, <2>2
  <2> QED BY <1>a, <1>b, <2>1, <2>3 DEF a
<1>6. CASE DeleteArchive
  <2>1. pc = "delete" /\ Min(doomed) \in doomed /\ UNCHANGED <<floor, errors>>
    BY <1>0, <1>6, DeleteIs
  <2>2. Oldest(archives, doomed) BY <1>0, <2>1 DEF ArchivesInv
  <2>3. Min(doomed) <= 0 BY <1>0, <1>a, <2>1 DEF HorizonInv, Horizon
  <2>4. Min(doomed) \in DOMAIN archives BY <2>1, <2>2 DEF Oldest
  <2>5. 0 < Min(doomed) /\ Min(doomed) \in Nat BY <1>0, <2>4, AboveZero DEF IsArchives
  <2>6. \A x \in Nat : ~(x <= 0 /\ 0 < x) OBVIOUS
  <2> QED BY <2>3, <2>5, <2>6
<1>7. CASE CutWal
  <2>1. pc = "cutWal" /\ wal' = Baseline /\ UNCHANGED <<archives, floor, made, errors>>
    BY <1>7 DEF CutWal
  <2>2. wal = <<>> BY <1>0, <1>a, <2>1 DEF HorizonInv, Horizon
  <2>3. Data(a \o Baseline) = Data(a) /\ a \o <<>> = a BY <1>1, BaselineAdds
  <2> QED BY <1>a, <1>b, <2>1, <2>2, <2>3 DEF a
<1> QED BY <1>2, <1>3, <1>4, <1>5, <1>6, <1>7, StepCases

\* Nothing is on disk at first.
LEMMA TakenStart == Init => TakenInv /\ WholeInv
<1>1. SUFFICES ASSUME Init PROVE TakenInv /\ WholeInv OBVIOUS
<1>2. /\ wal = <<>> /\ snapshot = NoSnapshot /\ intent = <<>> /\ archives = <<>>
      /\ pc = "down" /\ made = 0
  BY <1>1 DEF Init
<1>3. Records(intent) = {} BY <1>2 DEF Records
<1>4. TakenInv BY <1>2, <1>3 DEF TakenInv, Taken, NoSnapshot
<1>5. Archived(archives) = <<>> BY <1>2, NoArchives, ArchivedNone
<1>6. <<>> \in Seq(Nat) /\ \A i \in 1..Len(<<>>) : <<>>[i] = Declaration OBVIOUS
<1>7. Data(<<>>) = <<>> BY <1>6, DataNone
<1>8. History(0) = <<>> BY DEF History
<1>9. Archived(archives) \o wal = <<>> BY <1>2, <1>5
<1>10. WholeInv BY <1>2, <1>7, <1>8, <1>9 DEF WholeInv
<1> QED BY <1>4, <1>10

\* An answer is a state of the past, and the one at the frame x.
Answers(answer, x) ==
    /\ answer = History(Len(answer))
    /\ x # Declaration => Len(answer) = x

\* A snapshot the live WAL starts on, or none, is completed by that WAL.
LEMMA BaseIsWhole ==
    ASSUME IInv, TakenInv, snapshot.exists => snapshot.truncated /\ StandingIntent = <<>>
    PROVE  snapshot.state \o Data(wal) = History(made)
<1>0. TypeInv /\ DiskInv /\ wal \in Seq(Nat) BY DEF IInv, TypeInv
<1>1. snapshot.mark = None BY DEF TakenInv, Taken
<1>2. \A r \in Records(intent) : ~Stands(r)
  <2>1. CASE snapshot.exists BY <1>0, <2>1, StandingFacts
  <2>2. CASE ~snapshot.exists BY <2>2 DEF TakenInv, Stands
  <2> QED BY <2>1, <2>2
<1>3. Complete(snapshot.state, wal, 0, made) BY <1>0, <1>1, <1>2 DEF DiskInv
<1>4. Past(wal, 0) = wal
  <2> DEFINE p == Past(wal, 0)
  <2>1. /\ p \in Seq(Nat) /\ Len(p) = Len(wal) - 0 /\ \A i \in 1..Len(p) : p[i] = wal[0 + i]
    <3>1. 0 \in Nat /\ 0 <= Len(wal) BY <1>0
    <3> QED BY <1>0, <3>1, PastFacts
  <2>2. Len(p) = Len(wal) /\ \A i \in 1..Len(wal) : p[i] = wal[i] BY <1>0, <2>1
  <2> HIDE DEF p
  <2>3. p = wal BY <1>0, <2>1, <2>2, SameSeq
  <2> QED BY <2>3 DEF p
<1> QED BY <1>3, <1>4 DEF Complete

\* With the floor at 0, what a number addresses is the whole of the history.
LEMMA ReachesAll ==
    ASSUME NumInv, WholeInv, errors < 2, floor = 0
    PROVE  /\ Without(archives, Orphans) = archives
           /\ Data(Reachable) = History(made)
<1>1. TypeInv /\ ArchivesInv /\ IsArchives(archives) /\ Chained(archives) /\ errors \in Nat
  BY DEF NumInv, ArchivesInv, TypeInv
<1>2. \A n \in DOMAIN archives : floor < n BY <1>1, AboveZero
<1>3. Without(archives, Orphans) = archives /\ Reachable = Archived(archives) \o wal
  BY <1>1, <1>2, ReachableIs
<1>4. errors <= 1 BY <1>1
<1> QED BY <1>3, <1>4 DEF WholeInv

\* Each way open_at has of putting an answer together gives the state at its frame.
LEMMA AnswersArePast ==
    ASSUME IInv, NumInv, TakenInv, WholeInv, errors < 2,
           NEW n \in 1..Len(Reachable), OpenAt(floor + n - 1) # None
    PROVE  Answers(OpenAt(floor + n - 1), Reachable[n])
<1> DEFINE a == Archived(Without(archives, Orphans))
           usable == snapshot.exists /\ snapshot.truncated /\ ~(StandingIntent # <<>>)
           k == n - Len(a)
<1>0. /\ TypeInv /\ ArchivesInv /\ wal \in Seq(Nat) /\ made \in Nat /\ floor \in Nat
      /\ snapshot.state \in Seq(Nat)
  BY DEF NumInv, ArchivesInv, TypeInv, Snapshots
<1>1. a \in Seq(Nat) /\ Reachable \in Seq(Nat) /\ Reachable = a \o wal
  BY <1>0, ReachableIs DEF Reachable
<1> HIDE DEF a
<1>2. /\ Len(a) \in Nat /\ Len(wal) \in Nat /\ Len(Reachable) = Len(a) + Len(wal)
      /\ \A i \in 1..Len(wal) : Reachable[Len(a) + i] = wal[i]
  BY <1>0, <1>1
<1>3. n \in Nat /\ n <= Len(Reachable) /\ n >= 1 BY <1>2
<1>4. /\ Len(Reachable) - Len(wal) = Len(a) /\ (floor + n - 1) - floor + 1 = n
      /\ ~(floor + n - 1 < floor) /\ ~(n > Len(Reachable))
  BY <1>0, <1>2, <1>3
<1>5. OpenAt(floor + n - 1) =
        IF n <= Len(a)
        THEN IF floor > 0 \/ ~genesis THEN None ELSE Data(SubSeq(Reachable, 1, n))
        ELSE IF snapshot.exists /\ ~usable /\ BaseIsGone THEN None
        ELSE (IF usable THEN snapshot.state ELSE <<>>) \o Data(SubSeq(wal, 1, k))
  BY <1>4 DEF OpenAt
<1>6. ASSUME floor = 0, OpenAt(floor + n - 1) = Data(SubSeq(Reachable, 1, n))
      PROVE  Answers(OpenAt(floor + n - 1), Reachable[n])
  <2>1. Data(Reachable) = History(made) BY <1>6, ReachesAll
  <2>2. \A s \in Seq(Nat) : Data(s) \in Seq(Nat) /\ <<>> \o Data(s) = Data(s)
    <3>1. ASSUME NEW s \in Seq(Nat) PROVE Data(s) \in Seq(Nat) /\ <<>> \o Data(s) = Data(s)
      <4>1. Data(s) \in Seq(Nat) BY DataType
      <4> QED BY <4>1, JoinThree
    <3> QED BY <3>1
  <2>3. SubSeq(Reachable, 1, n) \in Seq(Nat) BY <1>1, <1>3
  <2> DEFINE d == Data(SubSeq(Reachable, 1, n))
  <2>4. <<>> \o Data(Reachable) = History(made) /\ <<>> \o d = d BY <1>1, <2>1, <2>2, <2>3
  <2>5. <<>> \in Seq(Nat) OBVIOUS
  <2>6. /\ <<>> \o d = History(Len(<<>> \o d))
        /\ Reachable[n] # Declaration => Len(<<>> \o d) = Reachable[n]
    BY <1>0, <1>1, <2>4, <2>5, AnswerIs
  <2>7. d = History(Len(d)) /\ (Reachable[n] # Declaration => Len(d) = Reachable[n]) BY <2>4, <2>6
  <2> QED BY <1>6, <2>7 DEF Answers
<1>7. CASE n <= Len(a)
  <2>1. ~(floor > 0) /\ OpenAt(floor + n - 1) = Data(SubSeq(Reachable, 1, n)) BY <1>5, <1>7
  <2>2. floor = 0 BY <1>0, <2>1
  <2> QED BY <1>6, <2>1, <2>2
<1>8. CASE ~(n <= Len(a))
  <2>1. k \in 1..Len(wal) /\ n = Len(a) + k BY <1>2, <1>3, <1>8
  <2> HIDE DEF k
  <2>2. Reachable[n] = wal[k] BY <1>2, <2>1
  <2>3. /\ ~(snapshot.exists /\ ~usable /\ BaseIsGone)
        /\ OpenAt(floor + n - 1) = (IF usable THEN snapshot.state ELSE <<>>) \o Data(SubSeq(wal, 1, k))
    BY <1>5, <1>8
  <2>4. CASE usable \/ ~snapshot.exists
    <3>1. snapshot.state \o Data(wal) = History(made) BY <2>4, BaseIsWhole
    <3>2. (IF usable THEN snapshot.state ELSE <<>>) = snapshot.state BY <2>4 DEF TakenInv, Taken
    <3> DEFINE d == snapshot.state \o Data(SubSeq(wal, 1, k))
    <3>3. d = History(Len(d)) /\ (wal[k] # Declaration => Len(d) = wal[k])
      BY <1>0, <2>1, <3>1, AnswerIs
    <3>4. OpenAt(floor + n - 1) = d BY <2>3, <3>2
    <3> HIDE DEF d
    <3> QED BY <2>2, <3>3, <3>4 DEF Answers
  <2>5. CASE ~usable /\ snapshot.exists
    <3>1. ~BaseIsGone BY <2>3, <2>5
    <3>2. ~(floor > 0) /\ a = <<>> BY <3>1 DEF BaseIsGone, a
    <3>3. floor = 0 BY <1>0, <3>2
    <3>4. Reachable = wal BY <1>0, <1>1, <3>2, JoinThree
    <3>5. Len(a) = 0 /\ n = k BY <2>1, <3>2
    <3>6. Data(SubSeq(wal, 1, k)) \in Seq(Nat)
      <4>1. SubSeq(wal, 1, k) \in Seq(Nat) BY <1>0, <2>1
      <4> QED BY <4>1, DataType
    <3>7. <<>> \o Data(SubSeq(wal, 1, k)) = Data(SubSeq(wal, 1, k)) BY <3>6, JoinThree
    <3>8. OpenAt(floor + n - 1) = <<>> \o Data(SubSeq(wal, 1, k)) BY <2>3, <2>5
    <3>9. OpenAt(floor + n - 1) = Data(SubSeq(Reachable, 1, n)) BY <3>4, <3>5, <3>7, <3>8
    <3> QED BY <1>6, <3>3, <3>9
  <2> QED BY <2>4, <2>5
<1> QED BY <1>7, <1>8

\* open_at_with refuses a number or answers with the store as it was at the frame of
\* that number, over any crashes and one failed snapshot: from the archives only
\* while they reach back to the first frame, and on the snapshot only if the live
\* WAL starts on it.
THEOREM AsOfAnswersArePast == Spec => []AsOfIsPast
<1>1. IInv /\ NumInv /\ TakenInv /\ WholeInv => AsOfIsPast
  <2>1. SUFFICES ASSUME IInv, NumInv, TakenInv, WholeInv PROVE AsOfIsPast OBVIOUS
  <2>2. ASSUME errors < 2, NEW n \in 1..Len(Reachable), OpenAt(floor + n - 1) # None
        PROVE  Answers(OpenAt(floor + n - 1), Reachable[n])
    BY <2>1, <2>2, AnswersArePast
  <2> QED BY <2>2 DEF AsOfIsPast, Answers
<1>2. IInv /\ NumInv /\ TakenInv /\ WholeInv /\ [Next]_vars => (TakenInv /\ WholeInv)'
  BY TakenKeep, WholeKeep DEF IInv
<1> QED BY <1>1, <1>2, TakenStart, Invariance, NumInvariance, PTL DEF Spec
=============================================================================
