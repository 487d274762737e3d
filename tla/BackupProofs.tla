---------------------------- MODULE BackupProofs ----------------------------
(***************************************************************************)
(* TLAPS proofs about Backup, for any number of commits, snapshots and     *)
(* faults of every kind, any segment length and any retention.             *)
(*                                                                         *)
(* IInv, for every set of faults, over the shape of the worker's step.     *)
(* PointInv: what the worker remembers of its generation is in the bucket, *)
(* and while it retains, the manifest it has just written is among the     *)
(* ones it keeps.  EngineInv: while the handle's marks are the files' own, *)
(* its cursors, what it still has to vouch for, and the claim the worker   *)
(* carries across its fsync lie within the WAL it speaks of.               *)
(*                                                                         *)
(* BInv adds what makes the bucket a set of restore points.  StoreInv: the *)
(* snapshot and the WAL are one line of commits, of which the snapshot is  *)
(* a beginning.  WorkInv: what the worker has read of the files, at        *)
(* different moments, lies on that line, or the look it takes before it    *)
(* goes on shows that it does not.  NumberInv: a generation has a number   *)
(* of its own.  BackInv: every generation in the bucket, with its base and *)
(* its segments, is a part of what the store can not lose any more.        *)
(***************************************************************************)
EXTENDS Backup, SequenceTheorems, NaturalsInduction, FiniteSetTheorems, WellFoundedInduction, TLAPS

-----------------------------------------------------------------------------
(* The shape of the worker's step.                                         *)

\* r is a record with the fields F.
Fields(r, F) == r = [f \in F |-> r[f]]

StepFields == {"pc", "then", "look", "claim", "pos", "disk", "before", "base", "snap", "floor",
               "frames", "n", "kept", "doomed", "owned"}
JobFields == {"resumed", "refused", "next", "allocated", "gen", "dirty", "known", "target",
              "versions", "stale"}
GenFields == {"num", "key", "floor", "snap", "segs"}
BucketFields == {"snaps", "segs", "mans", "latest"}

\* What a look and a question for the position return to.
LookThens == {<<"observed">>, <<"caughtUp">>, <<"unvouched", "ship">>, <<"unvouched", "baseRead">>,
              <<"unvouched", "segmentRead">>}
AskThens  == {<<"positioned">>, <<"decide">>, <<"resume">>, <<"ship">>, <<"baseRead">>,
              <<"segmentRead">>}
Claims == [gen : Int, len : Nat, frames : Nat]

\* Only a fsync under way, or one that ended, has a claim to make.
ShapeOf(s) ==
    /\ Fields(s, StepFields)
    /\ s.pc \in {"lookSnapshot", "lookWal", "lookIntent"} => s.then \in LookThens
    /\ s.pc \in {"unvouched", "fsync", "position"} => s.then \in AskThens
    /\ s.claim \in Claims
    /\ s.pc \notin {"fsync", "position"} => s.claim = NoClaim

Shape ==
    /\ ShapeOf(step)
    /\ Fields(job, JobFields) /\ Fields(job.gen, GenFields) /\ Fields(bucket, BucketFields)

-----------------------------------------------------------------------------
(* The bucket.                                                             *)

\* The objects of g, a manifest or a generation, are in the bucket b.
Whole(g, b) ==
    /\ g.segs \in Seq(b.segs)
    /\ g.snap # 0 => \E o \in b.snaps : o.num = g.num

\* The manifest m has been written of the generation g.
Written(m, g) == m.num = g.num /\ m.snap = g.snap /\ m.segs = g.segs

PointInv ==
    /\ Whole(job.gen, bucket)
    /\ \A m \in bucket.mans : Whole(m, bucket)
    /\ bucket.latest # None => \E m \in bucket.mans : m.n = bucket.latest
    /\ step.pc \in {"putLatest", "retain", "deleteManifests"} =>
          \E m \in bucket.mans :
             /\ m.n = step.n /\ Written(m, job.gen)
             /\ step.pc = "deleteManifests" => m \in step.kept
    /\ step.pc \in {"retain", "deleteManifests"} => bucket.latest = step.n
    /\ step.pc = "deleteManifests" =>
          /\ step.kept \subseteq bucket.mans /\ bucket.mans \subseteq step.kept \cup step.doomed
          /\ step.kept \cap step.doomed = {}

-----------------------------------------------------------------------------
(* The engine.                                                             *)

Positions == [gen : Int, len : Nat, frames : Int, snapshot : Int, wal : Int, busy : BOOLEAN]

EngineType ==
    /\ snap.id \in Nat /\ floor \in Nat
    /\ wal \in [id : {0, 1}, frames : Seq(Nat), synced : Nat]
    /\ left \in [strict : BOOLEAN, commits : Nat, snapshots : Nat, faults : Nat]
    /\ writer \in [by : {"us", "peer", "none"}, stage : Stages]
    /\ eng \in [snap : Nat, wal : {0, 1}, consumed : Nat, total : Nat, unsettled : BOOLEAN]
    /\ pos \in Positions
    /\ unvouched \in [len : Nat, frames : Nat]

\* The handle's marks are those of the files.
Marked == pos.snapshot = snap.id /\ pos.wal = wal.id

\* Its cursors and what it vouches for; what it has to vouch for; the claim.
CursorInv == /\ eng.consumed =< Len(wal.frames) /\ eng.total = floor + eng.consumed
             /\ pos.len =< wal.synced
             /\ pos.frames # None => pos.frames = floor + pos.len
TailInv   == unvouched # NoTail =>
                /\ unvouched.len =< Len(wal.frames) /\ unvouched.frames = floor + unvouched.len
ClaimInv  == step.claim.gen = pos.gen =>
                /\ step.claim.frames = floor + step.claim.len
                /\ step.claim.len =< Len(wal.frames)
                /\ step.pc = "position" => step.claim.len =< wal.synced

EngineInv ==
    /\ EngineType
    /\ wal.synced =< Len(wal.frames) /\ pos.snapshot =< snap.id
    /\ Up => /\ pos.gen \in Nat /\ step.claim.gen =< pos.gen
             /\ eng.snap = pos.snapshot /\ eng.wal = pos.wal
    /\ ~Up => pos = NoPos /\ writer.by # "us"
    /\ writer.stage = "written" /\ pos.snapshot = snap.id => pos.wal = wal.id
    /\ writer.stage = "replaced" => wal.frames = << >>
    /\ writer.stage = "replaced" /\ writer.by = "us" => unvouched = NoTail /\ step.claim.gen # pos.gen
    /\ Marked => CursorInv /\ TailInv /\ ClaimInv

IInv == Shape /\ PointInv /\ EngineInv

-----------------------------------------------------------------------------
(* The worker's step.                                                      *)

\* A field of a record is set.
LEMMA SetField ==
    ASSUME NEW F, NEW r, Fields(r, F), NEW f \in F, NEW x, NEW q, q = [r EXCEPT ![f] = x]
    PROVE  Fields(q, F) /\ q[f] = x /\ \A g \in F \ {f} : q[g] = r[g]
BY DEF Fields

LEMMA StepRecords ==
    /\ Fields(NoStep, StepFields) /\ NoStep.pc = "idle" /\ NoStep.claim = NoClaim
    /\ NoClaim \in Claims /\ NoClaim.gen = -1
    /\ Fields(NoJob, JobFields) /\ NoJob.gen = NoGen /\ Fields(NoGen, GenFields)
    /\ NoGen.segs = << >> /\ NoGen.snap = 0 /\ ShapeOf(NoStep)
<1>1. Fields(NoStep, StepFields) BY DEF NoStep, Fields, StepFields
<1>2. NoStep.pc = "idle" /\ NoStep.claim = NoClaim BY DEF NoStep
<1>3. NoClaim \in Claims /\ NoClaim.gen = -1 BY DEF NoClaim, Claims, None
<1>4. Fields(NoGen, GenFields) /\ NoGen.segs = << >> /\ NoGen.snap = 0 BY DEF NoGen, Fields, GenFields
<1>5. NoJob.gen = NoGen BY DEF NoJob
<1>6. Fields(NoJob, JobFields) BY DEF NoJob, Fields, JobFields
<1> QED BY <1>1, <1>2, <1>3, <1>4, <1>5, <1>6 DEF ShapeOf

\* Where the step goes on.
LEMMA ToFacts ==
    ASSUME NEW s, Fields(s, StepFields), NEW label, NEW q, q = To(s, label)
    PROVE  Fields(q, StepFields) /\ q.pc = label /\ \A f \in StepFields \ {"pc"} : q[f] = s[f]
BY DEF To, Fields, StepFields

LEMMA LookingFacts ==
    ASSUME NEW s, Fields(s, StepFields), NEW next, NEW q, q = Looking(s, next)
    PROVE  /\ Fields(q, StepFields) /\ q.pc = "lookSnapshot" /\ q.then = next
           /\ \A f \in StepFields \ {"pc", "then", "look", "pos"} : q[f] = s[f]
BY DEF Looking, Fields, StepFields

LEMMA AskingFacts ==
    ASSUME NEW s, Fields(s, StepFields), NEW next, NEW q, q = Asking(s, next)
    PROVE  /\ Fields(q, StepFields) /\ q.pc = "unvouched" /\ q.then = <<next>>
           /\ \A f \in StepFields \ {"pc", "then", "pos"} : q[f] = s[f]
BY DEF Asking, Fields, StepFields

\* The steps of write_manifest and apply_retention after the manifest is there.
Late == {"putLatest", "retain", "deleteManifests"}

\* A step record without a claim; one that goes on before the manifest.
Plain(s) == Fields(s, StepFields) /\ s.claim = NoClaim
Goes(s)  == Plain(s) /\ ShapeOf(s) /\ s.pc \notin Late /\ s.pc # "down"

\* The labels of the other steps.
Labels == {"idle", "resume", "catchUp", "openSnapshot", "readChain", "baseRead", "putSnapshot",
           "readSegment", "putSegment", "shipped", "putManifest"}

LEMMA Going ==
    /\ Goes(NoStep) /\ Plain(NoStep)
    /\ \A s, l : Plain(s) /\ l \in Labels => Goes(To(s, l))
    /\ \A s, next : Plain(s) /\ next \in LookThens => Goes(Looking(s, next))
    /\ \A s, next : Plain(s) /\ <<next>> \in AskThens => Goes(Asking(s, next))
<1>0. "claim" \in StepFields \ {"pc", "then", "look", "pos"} BY DEF StepFields
<1>1. Goes(NoStep) /\ Plain(NoStep) BY StepRecords DEF Goes, Plain, Late
<1>2. ASSUME NEW s, Plain(s), NEW l \in Labels PROVE Goes(To(s, l))
  <2> DEFINE q == To(s, l)
  <2> HIDE DEF q
  <2>1. Fields(q, StepFields) /\ q.pc = l /\ q.claim = s.claim BY <1>0, <1>2, ToFacts DEF q, Plain
  <2>2. Goes(q) BY <1>2, <2>1, StepRecords DEF Goes, Plain, ShapeOf, Labels, Late
  <2> QED BY <2>2 DEF q
<1>3. ASSUME NEW s, Plain(s), NEW next \in LookThens PROVE Goes(Looking(s, next))
  <2> DEFINE q == Looking(s, next)
  <2> HIDE DEF q
  <2>1. Fields(q, StepFields) /\ q.pc = "lookSnapshot" /\ q.claim = s.claim /\ q.then = next
    BY <1>0, <1>3, LookingFacts DEF q, Plain
  <2>2. Goes(q) BY <1>3, <2>1, StepRecords DEF Goes, Plain, ShapeOf, Late
  <2> QED BY <2>2 DEF q
<1>4. ASSUME NEW s, Plain(s), NEW next, <<next>> \in AskThens PROVE Goes(Asking(s, next))
  <2> DEFINE q == Asking(s, next)
  <2> HIDE DEF q
  <2>1. Fields(q, StepFields) /\ q.pc = "unvouched" /\ q.claim = s.claim /\ q.then = <<next>>
    BY <1>0, <1>4, AskingFacts DEF q, Plain
  <2>2. Goes(q) BY <1>4, <2>1, StepRecords DEF Goes, Plain, ShapeOf, Late
  <2> QED BY <2>2 DEF q
<1> QED BY <1>1, <1>2, <1>3, <1>4

\* run_once and ship_segments decide.
LEMMA Decisions ==
    ASSUME NEW s, Plain(s)
    PROVE  /\ Goes(Observed(s)) /\ Goes(Decided(s)) /\ Goes(Positioned(s)) /\ Goes(CaughtUp(s))
           /\ Goes(AllShipped(s)) /\ Goes(Ship(s)) /\ Goes(SegmentRead(s))
<1>1. \A x : Plain([s EXCEPT !.disk = x]) /\ Plain([s EXCEPT !.before = x])
  BY DEF Plain, Fields, StepFields
<1>2. \A x, y : Plain([NoStep EXCEPT !.base = x]) /\ Plain([NoStep EXCEPT !.base = x, !.frames = y])
  BY ZenonT(40), Going DEF Plain, Fields, StepFields
<1>3. /\ <<"observed">> \in LookThens /\ <<"unvouched", "ship">> \in LookThens
      /\ <<"positioned">> \in AskThens /\ <<"decide">> \in AskThens
  BY DEF LookThens, AskThens
<1>4. Goes(Observed(s)) BY <1>1, <1>3, Going DEF Observed, Done
<1>5. Goes(Decided(s))
  <2>1. \A x : Goes(To([s EXCEPT !.before = x], "openSnapshot")) BY <1>1, Going DEF Labels
  <2> QED BY <1>3, <2>1, Going DEF Decided, Done
<1>6. Goes(Positioned(s))
  <2>1. Goes(To(s, "catchUp")) BY Going DEF Labels
  <2> QED BY <1>5, <2>1 DEF Positioned
<1>7. Goes(CaughtUp(s)) BY <1>1, <1>3, Going DEF CaughtUp, Done
<1>8. Goes(AllShipped(s))
  <2>1. \A x : Goes(To([NoStep EXCEPT !.base = x], "shipped")) BY <1>2, Going DEF Labels
  <2> QED BY <2>1 DEF AllShipped
<1>9. Goes(Ship(s))
  <2>1. \A x : Goes(To([s EXCEPT !.disk = x], "readSegment")) BY <1>1, Going DEF Labels
  <2> QED BY <1>8, <2>1 DEF Ship
<1>10. Goes(SegmentRead(s))
  <2>1. \A x, y : Goes(To([NoStep EXCEPT !.base = x, !.frames = y], "putSegment")) BY <1>2, Going DEF Labels
  <2> QED BY <1>8, <2>1 DEF SegmentRead
<1> QED BY <1>4, <1>5, <1>6, <1>7, <1>8, <1>9, <1>10

\* A look or a question returns.
LEMMA ReturnGoes ==
    ASSUME NEW s, Plain(s), s.then \in LookThens \cup AskThens PROVE Goes(Return(s))
<1> DEFINE on == [s EXCEPT !.pc = Head(s.then), !.then = Tail(s.then)]
<1>1. Fields(on, StepFields) BY DEF Plain, Fields, StepFields
<1>2. on.claim = NoClaim /\ on.pc = Head(s.then) /\ on.then = Tail(s.then)
  BY DEF Plain, Fields, StepFields
<1>3. Plain(on) BY <1>1, <1>2 DEF Plain
<1>4. Return(s) = CASE on.pc = "observed"    -> Observed(on)
                    [] on.pc = "positioned"  -> Positioned(on)
                    [] on.pc = "caughtUp"    -> CaughtUp(on)
                    [] on.pc = "decide"      -> Decided(on)
                    [] on.pc = "ship"        -> Ship(on)
                    [] on.pc = "segmentRead" -> SegmentRead(on)
                    [] OTHER -> on
  BY DEF Return
<1> HIDE DEF on
<1>5. \/ on.pc \in {"observed", "caughtUp", "positioned", "decide", "resume", "ship", "baseRead", "segmentRead"}
      \/ on.pc = "unvouched" /\ on.then \in AskThens
  <2>1. \A a, b : Head(<<a>>) = a /\ Head(<<a, b>>) = a /\ Tail(<<a, b>>) = <<b>> OBVIOUS
  <2>2. CASE s.then \in AskThens BY <1>2, <2>1, <2>2 DEF AskThens
  <2>3. CASE s.then \in {<<"observed">>, <<"caughtUp">>} BY <1>2, <2>1, <2>3
  <2>4. ASSUME NEW b \in {"ship", "baseRead", "segmentRead"}, s.then = <<"unvouched", b>>
        PROVE  on.pc = "unvouched" /\ on.then \in AskThens
    <3>1. on.pc = "unvouched" /\ on.then = <<b>> BY <1>2, <2>1, <2>4
    <3> QED BY <3>1 DEF AskThens
  <2> QED BY <2>2, <2>3, <2>4 DEF LookThens
<1>6. CASE on.pc \in {"observed", "caughtUp", "positioned", "decide", "ship", "segmentRead"}
  BY <1>3, <1>4, <1>6, Decisions
<1>7. CASE on.pc \in {"resume", "baseRead"}
  <2>1. Return(s) = on BY <1>4, <1>7
  <2>2. Goes(on) BY <1>3, <1>7, StepRecords DEF Goes, Plain, ShapeOf, Late
  <2> QED BY <2>1, <2>2
<1>8. CASE on.pc = "unvouched" /\ on.then \in AskThens
  <2>1. Return(s) = on BY <1>4, <1>8
  <2>2. Goes(on) BY <1>3, <1>8, StepRecords DEF Goes, Plain, ShapeOf, Late
  <2> QED BY <2>1, <2>2
<1> QED BY <1>5, <1>6, <1>7, <1>8

\* What the worker's step is before one of its actions.
LEMMA StepBefore ==
    ASSUME Shape
    PROVE  /\ Fields(step, StepFields) /\ Fields(job, JobFields) /\ Fields(job.gen, GenFields)
           /\ Fields(bucket, BucketFields)
           /\ step.pc \notin {"fsync", "position"} => Plain(step)
           /\ step.pc \in {"lookSnapshot", "lookWal", "lookIntent"} => step.then \in LookThens
           /\ step.pc \in {"unvouched", "fsync", "position"} => step.then \in AskThens
BY DEF Shape, ShapeOf, Plain

\* A request to the bucket ends the step, or the step goes on before a manifest.
LEMMA WorkerGoes ==
    ASSUME Shape,
           \/ ObserveIntent \/ Position \/ StartStep \/ Resume \/ CatchUp
           \/ OpenSnapshot \/ ReadChain \/ BaseRead \/ PutSnapshot
           \/ ReadSegment \/ PutSegment \/ Due \/ NotDue \/ DeleteObjects \/ Boot
    PROVE  Goes(step')
<1>1. /\ Fields(step, StepFields)
      /\ step.pc \notin {"fsync", "position"} => Plain(step)
      /\ step.pc = "lookIntent" => step.then \in LookThens
      /\ step.pc = "position" => step.then \in AskThens
  BY StepBefore
<1>2. \A x, y : Plain([NoStep EXCEPT !.base = x])
  BY Going DEF Plain, Fields, StepFields
<1>3. /\ <<"observed">> \in LookThens /\ <<"caughtUp">> \in LookThens
      /\ <<"unvouched", "ship">> \in LookThens /\ <<"unvouched", "baseRead">> \in LookThens
      /\ <<"unvouched", "segmentRead">> \in LookThens /\ <<"resume">> \in AskThens
  BY DEF LookThens, AskThens
<1>4. Goes(Done) BY Going DEF Done
<1>5. CASE ObserveIntent
  <2> DEFINE q == [step EXCEPT !.look.intent = intent # {}]
  <2>1. Plain(step) /\ step.then \in LookThens BY <1>1, <1>5 DEF ObserveIntent
  <2>2. Plain(q) /\ q.then = step.then BY <2>1 DEF Plain, Fields, StepFields
  <2>3. step' = Return(q) BY <1>5 DEF ObserveIntent
  <2> HIDE DEF q
  <2> QED BY <2>1, <2>2, <2>3, ReturnGoes
<1>6. CASE Position
  <2> DEFINE q == [step EXCEPT !.pos = pos', !.claim = NoClaim]
  <2>1. step.then \in AskThens BY <1>1, <1>6 DEF Position
  <2>2. Plain(q) /\ q.then = step.then BY <1>1 DEF Plain, Fields, StepFields
  <2>3. step' = Return(q) BY <1>6 DEF Position
  <2> HIDE DEF q
  <2> QED BY <2>1, <2>2, <2>3, ReturnGoes
<1>7. CASE StartStep
  <2>1. Plain(step) BY <1>1, <1>7 DEF StartStep
  <2>2. Goes(Looking(step, <<"observed">>)) /\ Goes(Asking(step, "resume")) BY <1>3, <2>1, Going
  <2> QED BY <1>7, <2>2 DEF StartStep
<1>8. CASE Resume
  <2>1. Plain(step) BY <1>1, <1>8 DEF Resume
  <2>2. Goes(Looking(step, <<"observed">>)) BY <1>3, <2>1, Going
  <2> QED BY <1>4, <1>8, <2>2 DEF Resume
<1>9. CASE CatchUp
  <2>1. Plain(step) BY <1>1, <1>9 DEF CatchUp
  <2>2. Goes(Looking(step, <<"caughtUp">>)) BY <1>3, <2>1, Going
  <2> QED BY <1>9, <2>2 DEF CatchUp
<1>10. CASE OpenSnapshot
  <2> DEFINE q == [step EXCEPT !.snap = snap, !.base = TRUE]
  <2>1. Plain(step) BY <1>1, <1>10 DEF OpenSnapshot
  <2>2. Plain(q) BY <2>1 DEF Plain, Fields, StepFields
  <2>3. step' = To(q, "readChain") BY <1>10 DEF OpenSnapshot
  <2> HIDE DEF q
  <2> QED BY <2>2, <2>3, Going DEF Labels
<1>11. CASE ReadChain
  <2> DEFINE q == [step EXCEPT !.floor = floor]
  <2>1. Plain(step) BY <1>1, <1>11 DEF ReadChain
  <2>2. Plain(q) BY <2>1 DEF Plain, Fields, StepFields
  <2>3. step' = Looking(q, <<"unvouched", "baseRead">>) BY <1>11 DEF ReadChain
  <2> HIDE DEF q
  <2> QED BY <1>3, <2>2, <2>3, Going
<1>12. CASE BaseRead
  <2>1. Plain(step) BY <1>1, <1>12 DEF BaseRead
  <2>2. Goes(To(step, "putSnapshot")) BY <2>1, Going DEF Labels
  <2> QED BY <1>4, <1>12, <2>2 DEF BaseRead
<1>13. CASE PutSnapshot
  <2>1. Goes(Looking([NoStep EXCEPT !.base = TRUE], <<"unvouched", "ship">>)) BY <1>2, <1>3, Going
  <2> QED BY <1>4, <1>13, <2>1 DEF PutSnapshot, Fails
<1>14. CASE ReadSegment
  <2>1. Plain(step) BY <1>1, <1>14 DEF ReadSegment
  <2>2. \A x : Plain([step EXCEPT !.frames = x]) BY <2>1 DEF Plain, Fields, StepFields
  <2>3. \A x : Goes(Looking([step EXCEPT !.frames = x], <<"unvouched", "segmentRead">>))
    BY <1>3, <2>2, Going
  <2> QED BY <1>14, <2>3 DEF ReadSegment
<1>15. CASE PutSegment
  <2>1. \A x : Goes(Looking([NoStep EXCEPT !.base = x], <<"unvouched", "ship">>)) BY <1>2, <1>3, Going
  <2> QED BY <1>4, <1>15, <2>1 DEF PutSegment, Fails
<1>16. CASE Due
  <2>1. Plain(step) BY <1>1, <1>16 DEF Due
  <2> QED BY <1>16, <2>1, Going DEF Due, Labels
<1>17. CASE NotDue BY <1>4, <1>17 DEF NotDue
<1>18. CASE DeleteObjects BY <1>4, <1>18 DEF DeleteObjects
<1>19. CASE Boot BY <1>19, Going DEF Boot
<1> QED BY <1>5, <1>6, <1>7, <1>8, <1>9, <1>10, <1>11, <1>12, <1>13, <1>14, <1>15, <1>16, <1>17, <1>18, <1>19

\* The other steps: a look goes on, a claim is made, and the manifest is written.
LEMMA WorkerShape ==
    ASSUME Shape, EngineType, Working
    PROVE  /\ ShapeOf(step') /\ step'.pc # "down"
           /\ ~Unvouched /\ ~FsyncWal => step'.claim = NoClaim
           /\ ~PutManifest /\ ~PutLatest /\ ~Retain /\ ~DeleteManifest => step'.pc \notin Late
<1>1. /\ Fields(step, StepFields)
      /\ step.pc \notin {"fsync", "position"} => Plain(step)
      /\ step.pc \in {"lookSnapshot", "lookWal"} => step.then \in LookThens
      /\ step.pc \in {"unvouched", "fsync"} => step.then \in AskThens
      /\ step.claim \in Claims
  BY StepBefore DEF Shape, ShapeOf
<1> DEFINE Good(q) == ShapeOf(q) /\ q.pc # "down" /\ q.claim = NoClaim
<1>2. Good(Done) BY Going DEF Goes, Plain, Done
<1>3. CASE ObserveSnapshot
  <2> DEFINE q == [step EXCEPT !.look.snapshot = snap.id]
  <2>1. Plain(step) /\ step.then \in LookThens BY <1>1, <1>3 DEF ObserveSnapshot
  <2>2. Fields(q, StepFields) /\ q.then = step.then /\ q.claim = NoClaim
    BY <2>1 DEF Plain, Fields, StepFields
  <2>3. step' = To(q, "lookWal") BY <1>3 DEF ObserveSnapshot
  <2> HIDE DEF q
  <2>4. Fields(step', StepFields) /\ step'.pc = "lookWal" /\ step'.then = q.then /\ step'.claim = NoClaim
    BY <2>2, <2>3, ToFacts DEF StepFields
  <2> QED BY <2>1, <2>2, <2>4, StepRecords DEF ShapeOf, Late
<1>4. CASE ObserveWal
  <2> DEFINE q == [step EXCEPT !.look.wal = wal.id, !.look.len = Len(wal.frames)]
  <2>1. Plain(step) /\ step.then \in LookThens BY <1>1, <1>4 DEF ObserveWal
  <2>2. Fields(q, StepFields) /\ q.then = step.then /\ q.claim = NoClaim
    BY <2>1 DEF Plain, Fields, StepFields
  <2>3. step' = To(q, "lookIntent") BY <1>4 DEF ObserveWal
  <2> HIDE DEF q
  <2>4. Fields(step', StepFields) /\ step'.pc = "lookIntent" /\ step'.then = q.then /\ step'.claim = NoClaim
    BY <2>2, <2>3, ToFacts DEF StepFields
  <2> QED BY <2>1, <2>2, <2>4, StepRecords DEF ShapeOf, Late
<1>5. ASSUME Unvouched \/ FsyncWal
      PROVE  ShapeOf(step') /\ step'.pc \in {"fsync", "position"}
  <2>1. step.then \in AskThens BY <1>1, <1>5 DEF Unvouched, FsyncWal
  <2>2. PICK c \in Claims, p \in {"fsync", "position"} :
            step' = To([step EXCEPT !.claim = c], p) \/ step' = To(step, p)
    <3>1. CASE Unvouched
      <4> DEFINE c == [gen |-> pos.gen, len |-> unvouched.len, frames |-> unvouched.frames]
      <4>1. c \in Claims BY DEF Claims, EngineType, Positions
      <4>2. step' = To([step EXCEPT !.claim = c], "fsync") \/ step' = To(step, "position")
        BY <3>1 DEF Unvouched
      <4> HIDE DEF c
      <4> QED BY <4>1, <4>2
    <3>2. CASE FsyncWal
      <4>1. step' = To([step EXCEPT !.claim = NoClaim], "position") \/ step' = To(step, "position")
        BY <3>2 DEF FsyncWal
      <4> QED BY <4>1, StepRecords
    <3> QED BY <1>5, <3>1, <3>2
  <2> DEFINE q == [step EXCEPT !.claim = c]
  <2>3. Fields(q, StepFields) /\ q.then = step.then /\ q.claim = c BY <1>1 DEF Fields, StepFields
  <2>4. step' = To(q, p) \/ step' = To(step, p) BY <2>2
  <2> HIDE DEF q
  <2>5. Fields(step', StepFields) /\ step'.pc = p /\ step'.then = step.then /\ step'.claim \in Claims
    BY <1>1, <2>3, <2>4, ToFacts DEF StepFields
  <2> QED BY <2>1, <2>5 DEF ShapeOf
<1>6. CASE PutManifest \/ PutLatest \/ Retain \/ DeleteManifest
  <2>1. Plain(step) BY <1>1, <1>6 DEF PutManifest, PutLatest, Retain, DeleteManifest
  <2>2. ASSUME NEW q, Plain(q), NEW l \in Late PROVE Good(To(q, l))
    <3> DEFINE r == To(q, l)
    <3>1. Fields(r, StepFields) /\ r.pc = l /\ r.claim = NoClaim
      BY <2>2, ToFacts DEF StepFields, Plain
    <3> HIDE DEF r
    <3>2. Good(r) BY <3>1, StepRecords DEF ShapeOf, Late
    <3> QED BY <3>2 DEF r
  <2>3. \A x : Plain([step EXCEPT !.n = x]) BY <2>1 DEF Plain, Fields, StepFields
  <2>4. ASSUME NEW x, NEW y, NEW z PROVE Plain([step EXCEPT !.kept = x, !.doomed = y, !.owned = z])
    <3> DEFINE a == [step EXCEPT !.kept = x]
               b == [a EXCEPT !.doomed = y]
    <3>1. Plain(a) BY <2>1 DEF Plain, Fields, StepFields
    <3> HIDE DEF a
    <3>2. Plain(b) BY <3>1 DEF Plain, Fields, StepFields
    <3> HIDE DEF b
    <3>3. Plain([b EXCEPT !.owned = z]) BY <3>2 DEF Plain, Fields, StepFields
    <3> QED BY <3>3 DEF a, b
  <2>5. Good(To(step, "retain")) BY <2>1, <2>2 DEF Late
  <2>6. \A x : Good(To([step EXCEPT !.n = x], "putLatest"))
    <3>1. "putLatest" \in Late BY DEF Late
    <3> HIDE DEF Good
    <3> QED BY <2>2, <2>3, <3>1
  <2>7. \A x, y, z : Good(To([step EXCEPT !.kept = x, !.doomed = y, !.owned = z], "deleteManifests"))
    <3>1. "deleteManifests" \in Late BY DEF Late
    <3> HIDE DEF Good
    <3> QED BY <2>2, <2>4, <3>1
  <2>8. ASSUME step.pc = "deleteManifests", NEW x PROVE Good([step EXCEPT !.doomed = x])
    <3> DEFINE q == [step EXCEPT !.doomed = x]
    <3>1. Fields(q, StepFields) /\ q.pc = step.pc /\ q.claim = NoClaim BY <2>1 DEF Plain, Fields, StepFields
    <3> HIDE DEF q
    <3>2. Good(q) BY <2>8, <3>1, StepRecords DEF ShapeOf
    <3> QED BY <3>2 DEF q
  <2> HIDE DEF Good
  <2>9. Good(step')
    <3>1. CASE PutManifest BY <1>2, <2>6, <3>1 DEF PutManifest, Conflict, Fails
    <3>2. CASE PutLatest BY <1>2, <2>5, <3>2 DEF PutLatest, Conflict, Fails
    <3>3. CASE Retain BY <1>2, <2>7, <3>3 DEF Retain
    <3>4. CASE DeleteManifest BY <1>2, <2>8, <3>4 DEF DeleteManifest, Fails
    <3> QED BY <1>6, <3>1, <3>2, <3>3, <3>4
  <2> QED BY <1>6, <2>9 DEF Good
<1>7. CASE \/ ObserveIntent \/ Position \/ StartStep \/ Resume \/ CatchUp
           \/ OpenSnapshot \/ ReadChain \/ BaseRead \/ PutSnapshot
           \/ ReadSegment \/ PutSegment \/ Due \/ NotDue \/ DeleteObjects
  <2>1. Goes(step') BY <1>7, WorkerGoes
  <2> QED BY <2>1 DEF Goes, Plain
<1> QED BY <1>3, <1>4, <1>5, <1>6, <1>7 DEF Working, Late

-----------------------------------------------------------------------------
(* The bucket holds what its manifests name.                               *)

LEMMA SeqGrows ==
    ASSUME NEW S, NEW T, S \subseteq T, NEW q \in Seq(S) PROVE q \in Seq(T)
<1>1. \A i \in 1 .. Len(q) : q[i] \in T OBVIOUS
<1> QED BY <1>1

LEMMA SeqFits ==
    ASSUME NEW S, NEW T, NEW q \in Seq(S), \A x \in Range(q) : x \in T PROVE q \in Seq(T)
<1>1. \A i \in 1 .. Len(q) : q[i] \in T BY DEF Range
<1> QED BY <1>1

LEMMA WholeGrows ==
    ASSUME NEW g, NEW b, NEW c, Whole(g, b), b.segs \subseteq c.segs, b.snaps \subseteq c.snaps
    PROVE  Whole(g, c)
BY SeqGrows DEF Whole

\* The request of a worker's step is over, or it is not one for a manifest.
LEMMA PointKeeps ==
    ASSUME PointInv, step'.pc \notin Late, Whole(job'.gen, bucket'),
           \A m \in bucket'.mans : Whole(m, bucket'),
           bucket'.latest # None => \E m \in bucket'.mans : m.n = bucket'.latest
    PROVE  PointInv'
BY DEF PointInv, Late

\* Nothing of the bucket and of the generation changes.
LEMMA PointSame ==
    ASSUME PointInv, step'.pc \notin Late, bucket' = bucket, job'.gen = job.gen PROVE PointInv'
<1>1. /\ Whole(job'.gen, bucket') /\ \A m \in bucket'.mans : Whole(m, bucket')
      /\ bucket'.latest # None => \E m \in bucket'.mans : m.n = bucket'.latest
  BY DEF PointInv
<1> QED BY <1>1, PointKeeps

\* The bucket grows, the manifests stay; the generation's objects are there.
LEMMA PointGrows ==
    ASSUME PointInv, step'.pc \notin Late, bucket.segs \subseteq bucket'.segs, bucket.snaps \subseteq bucket'.snaps,
           bucket'.mans = bucket.mans, bucket'.latest = bucket.latest, Whole(job'.gen, bucket')
    PROVE  PointInv'
<1>1. \A m \in bucket'.mans : Whole(m, bucket') BY WholeGrows DEF PointInv
<1>2. bucket'.latest # None => \E m \in bucket'.mans : m.n = bucket'.latest BY DEF PointInv
<1> QED BY <1>1, <1>2, PointKeeps

\* What the worker notes of the bucket leaves its generation alone.
LEMMA JobShape ==
    ASSUME Shape
    PROVE  /\ \A x : Fields([job EXCEPT !.refused = x], JobFields) /\ [job EXCEPT !.refused = x].gen = job.gen
           /\ \A x : Fields([job EXCEPT !.known = x], JobFields) /\ [job EXCEPT !.known = x].gen = job.gen
           /\ \A x : Fields([job EXCEPT !.stale = x], JobFields) /\ [job EXCEPT !.stale = x].gen = job.gen
           /\ \A x : Fields([job EXCEPT !.versions = x], JobFields) /\ [job EXCEPT !.versions = x].gen = job.gen
<1>1. Fields(job, JobFields) BY DEF Shape
<1> QED BY <1>1 DEF Fields, JobFields

\* A base begins a generation; its snapshot is in the bucket.
LEMMA PutSnapshotPoint ==
    ASSUME Shape, PointInv, PutSnapshot, step'.pc \notin Late
    PROVE  PointInv' /\ Fields(job', JobFields) /\ Fields(job'.gen, GenFields) /\ Fields(bucket', BucketFields)
<1> DEFINE num == job.next - 1
           after == [bucket EXCEPT !.snaps =
                       IF step.snap = NoSnap THEN @ ELSE @ \cup {[num |-> num, snap |-> step.snap]}]
           gen == [num |-> num, key |-> Key(step.before), floor |-> step.floor,
                   snap |-> step.snap.id, segs |-> << >>]
<1>1. Fields(bucket, BucketFields) /\ Fields(job, JobFields) /\ Fields(job.gen, GenFields) BY DEF Shape
<1>2. /\ Fields(after, BucketFields) /\ after.segs = bucket.segs /\ after.mans = bucket.mans
      /\ after.latest = bucket.latest /\ bucket.snaps \subseteq after.snaps
      /\ step.snap # NoSnap => [num |-> num, snap |-> step.snap] \in after.snaps
  BY <1>1 DEF Fields, BucketFields
<1>3. \/ bucket' = after /\ job' = [job EXCEPT !.dirty = TRUE, !.gen = gen]
      \/ bucket' \in {bucket, after} /\ job' = job
  BY DEF PutSnapshot, Answered, Fails
<1>4. /\ Fields(gen, GenFields) /\ gen.num = num /\ gen.snap = step.snap.id /\ gen.segs = << >>
  BY DEF Fields, GenFields
<1>5. Whole(gen, after)
  <2>1. << >> \in Seq(after.segs) OBVIOUS
  <2>2. gen.snap # 0 => step.snap # NoSnap BY <1>4 DEF NoSnap
  <2>3. step.snap # NoSnap => \E o \in after.snaps : o.num = num
    <3> DEFINE o == [num |-> num, snap |-> step.snap]
    <3>1. o.num = num OBVIOUS
    <3>2. step.snap # NoSnap => o \in after.snaps BY <1>2
    <3> HIDE DEF o, after
    <3> QED BY <3>1, <3>2
  <2> HIDE DEF gen, after
  <2> QED BY <1>4, <2>1, <2>2, <2>3 DEF Whole
<1> HIDE DEF num, after, gen
<1>6. CASE bucket' = after /\ job' = [job EXCEPT !.dirty = TRUE, !.gen = gen]
  <2>1. Fields(job', JobFields) /\ job'.gen = gen BY <1>1, <1>6 DEF Fields, JobFields
  <2>2. PointInv' BY <1>2, <1>5, <1>6, <2>1, PointGrows
  <2> QED BY <1>2, <1>4, <1>6, <2>1, <2>2
<1>7. CASE bucket' \in {bucket, after} /\ job' = job
  <2>1. Whole(job.gen, after) BY <1>2, WholeGrows DEF PointInv
  <2>2. Whole(job.gen, bucket) BY DEF PointInv
  <2>3. Whole(job'.gen, bucket') BY <1>7, <2>1, <2>2
  <2>4. /\ bucket.segs \subseteq bucket'.segs /\ bucket.snaps \subseteq bucket'.snaps
        /\ bucket'.mans = bucket.mans /\ bucket'.latest = bucket.latest
    BY <1>2, <1>7
  <2>5. PointInv' BY <2>3, <2>4, PointGrows
  <2> QED BY <1>1, <1>2, <1>7, <2>5
<1> QED BY <1>3, <1>6, <1>7

\* A segment is put, and the generation extended by it.
LEMMA PutSegmentPoint ==
    ASSUME Shape, PointInv, PutSegment, step'.pc \notin Late
    PROVE  PointInv' /\ Fields(job', JobFields) /\ Fields(job'.gen, GenFields) /\ Fields(bucket', BucketFields)
<1> DEFINE s == [num |-> job.gen.num, start |-> Cursor, frames |-> step.frames]
           after == [bucket EXCEPT !.segs = @ \cup {s}]
<1>1. Fields(bucket, BucketFields) /\ Fields(job, JobFields) /\ Fields(job.gen, GenFields) BY DEF Shape
<1>2. \/ bucket' = after /\ job' = [job EXCEPT !.gen.segs = Append(@, s), !.dirty = TRUE]
      \/ bucket' \in {bucket, after} /\ job' = job
  BY DEF PutSegment, Answered, Fails
<1> HIDE DEF s
<1>3. /\ Fields(after, BucketFields) /\ after.segs = bucket.segs \cup {s} /\ after.mans = bucket.mans
      /\ after.latest = bucket.latest /\ bucket.snaps = after.snaps
  BY <1>1 DEF Fields, BucketFields
<1> HIDE DEF after
<1>4. Whole(job.gen, after) BY <1>3, WholeGrows DEF PointInv
<1>5. CASE bucket' = after /\ job' = [job EXCEPT !.gen.segs = Append(@, s), !.dirty = TRUE]
  <2> DEFINE gen == [job.gen EXCEPT !.segs = Append(@, s)]
  <2>1. Fields(job', JobFields) /\ job'.gen = gen BY <1>1, <1>5 DEF Fields, JobFields
  <2>2. /\ Fields(gen, GenFields) /\ gen.num = job.gen.num /\ gen.snap = job.gen.snap
        /\ gen.segs = Append(job.gen.segs, s)
    BY <1>1 DEF Fields, GenFields
  <2> HIDE DEF gen
  <2>3. job.gen.segs \in Seq(after.segs) /\ s \in after.segs BY <1>3, <1>4 DEF Whole
  <2>4. gen.segs \in Seq(after.segs)
    <3> DEFINE S == after.segs
               r == job.gen.segs
    <3>1. r \in Seq(S) /\ s \in S BY <2>3
    <3>2. gen.segs = Append(r, s) BY <2>2
    <3> HIDE DEF S, r
    <3>3. Append(r, s) \in Seq(S) BY <3>1
    <3> QED BY <3>2, <3>3 DEF S
  <2>5. Whole(gen, after) BY <1>4, <2>2, <2>4 DEF Whole
  <2>6. PointInv' BY <1>3, <1>5, <2>1, <2>5, PointGrows
  <2> QED BY <1>3, <1>5, <2>1, <2>2, <2>6
<1>6. CASE bucket' \in {bucket, after} /\ job' = job
  <2>2. Whole(job.gen, bucket) BY DEF PointInv
  <2>3. Whole(job'.gen, bucket') BY <1>4, <1>6, <2>2
  <2>4. /\ bucket.segs \subseteq bucket'.segs /\ bucket.snaps \subseteq bucket'.snaps
        /\ bucket'.mans = bucket.mans /\ bucket'.latest = bucket.latest
    BY <1>3, <1>6
  <2>5. PointInv' BY <2>3, <2>4, PointGrows
  <2> QED BY <1>1, <1>3, <1>6, <2>5
<1> QED BY <1>2, <1>5, <1>6

\* What a request that leaves the objects alone does to what is whole.
LEMMA WholeSame ==
    ASSUME NEW g, NEW b, NEW c, Whole(g, b), c.segs = b.segs, c.snaps = b.snaps PROVE Whole(g, c)
BY DEF Whole

\* The worker forgets the tenure.
LEMMA ConflictPoint ==
    ASSUME Shape, PointInv, Conflict
    PROVE  PointInv' /\ Fields(job', JobFields) /\ Fields(job'.gen, GenFields) /\ Fields(bucket', BucketFields)
<1>1. job' = NoJob /\ step' = NoStep /\ bucket' = bucket BY DEF Conflict, Done
<1>2. Fields(job', JobFields) /\ job'.gen = NoGen /\ Fields(NoGen, GenFields) BY <1>1, StepRecords
<1>3. step'.pc \notin Late BY <1>1, StepRecords DEF Late
<1>4. Whole(NoGen, bucket)
  <2>1. << >> \in Seq(bucket.segs) OBVIOUS
  <2> QED BY <2>1, StepRecords DEF Whole
<1>5. PointInv' BY <1>1, <1>2, <1>3, <1>4, PointKeeps DEF PointInv
<1> QED BY <1>1, <1>2, <1>5 DEF Shape

\* The manifest written last names the generation, and takes the place of the
\* one with its number.
LEMMA PutManifestPoint ==
    ASSUME Shape, PointInv, PutManifest
    PROVE  PointInv' /\ Fields(job', JobFields) /\ Fields(job'.gen, GenFields) /\ Fields(bucket', BucketFields)
<1> DEFINE m == Manifest
           after == [bucket EXCEPT !.mans = {o \in @ : o.n # m.n} \cup {m}]
<1>1. /\ Fields(bucket, BucketFields) /\ Fields(job, JobFields) /\ Fields(job.gen, GenFields)
      /\ Fields(step, StepFields)
  BY DEF Shape, ShapeOf
<1>2. Written(m, job.gen) BY DEF Manifest, Written
<1>3. \/ Conflict
      \/ /\ bucket' = after /\ step' = To([step EXCEPT !.n = m.n], "putLatest")
         /\ \E x : job' = [job EXCEPT !.versions = x]
      \/ /\ bucket' \in {bucket, after} /\ step' = Done
         /\ \E x : job' = [job EXCEPT !.stale = x]
  BY DEF PutManifest, Answered, Fails
<1> HIDE DEF m
<1>4. /\ Fields(after, BucketFields) /\ after.mans = {o \in bucket.mans : o.n # m.n} \cup {m}
      /\ after.segs = bucket.segs /\ after.latest = bucket.latest /\ bucket.snaps = after.snaps
  BY <1>1 DEF Fields, BucketFields
<1> HIDE DEF after
<1>5. Whole(job.gen, bucket) /\ Whole(m, bucket) BY <1>2 DEF PointInv, Whole, Written
<1>6. Whole(job.gen, after) /\ Whole(m, after) BY <1>4, <1>5, WholeSame
<1>7. \A o \in after.mans : Whole(o, after)
  <2>1. \A o \in bucket.mans : Whole(o, after) BY <1>4, WholeSame DEF PointInv
  <2> QED BY <1>4, <1>6, <2>1
<1>8. after.latest # None => \E o \in after.mans : o.n = after.latest BY <1>4 DEF PointInv
<1>9. CASE Conflict BY <1>9, ConflictPoint
<1>10. CASE /\ bucket' = after /\ step' = To([step EXCEPT !.n = m.n], "putLatest")
            /\ \E x : job' = [job EXCEPT !.versions = x]
  <2>1. Fields(job', JobFields) /\ job'.gen = job.gen BY <1>10, JobShape
  <2> DEFINE q == [step EXCEPT !.n = m.n]
  <2>2. Fields(q, StepFields) /\ q.n = m.n BY <1>1 DEF Fields, StepFields
  <2>3. step' = To(q, "putLatest") BY <1>10
  <2> HIDE DEF q
  <2>4. step'.pc = "putLatest" /\ step'.n = m.n BY <2>2, <2>3, ToFacts DEF StepFields
  <2>5. m \in after.mans BY <1>4
  <2>6. PointInv' BY <1>2, <1>6, <1>7, <1>8, <1>10, <2>1, <2>4, <2>5 DEF PointInv
  <2> QED BY <1>1, <1>4, <1>10, <2>1, <2>6
<1>11. CASE /\ bucket' \in {bucket, after} /\ step' = Done
            /\ \E x : job' = [job EXCEPT !.stale = x]
  <2>1. Fields(job', JobFields) /\ job'.gen = job.gen BY <1>11, JobShape
  <2>2. step'.pc \notin Late BY <1>11, StepRecords DEF Late, Done
  <2>3. CASE bucket' = after
    <3>1. PointInv' BY <1>6, <1>7, <1>8, <2>1, <2>2, <2>3, PointKeeps
    <3> QED BY <1>1, <1>4, <2>1, <2>3, <3>1
  <2>4. CASE bucket' = bucket
    <3>1. PointInv' BY <2>1, <2>2, <2>4, PointSame
    <3> QED BY <1>1, <2>1, <2>4, <3>1
  <2> QED BY <1>11, <2>3, <2>4
<1> QED BY <1>3, <1>9, <1>10, <1>11

\* LATEST names the manifest just written.
LEMMA PutLatestPoint ==
    ASSUME Shape, PointInv, PutLatest
    PROVE  PointInv' /\ Fields(job', JobFields) /\ Fields(job'.gen, GenFields) /\ Fields(bucket', BucketFields)
<1> DEFINE after == [bucket EXCEPT !.latest = step.n]
<1>1. /\ Fields(bucket, BucketFields) /\ Fields(job, JobFields) /\ Fields(job.gen, GenFields)
      /\ Fields(step, StepFields)
  BY DEF Shape, ShapeOf
<1>2. PICK m \in bucket.mans : m.n = step.n /\ Written(m, job.gen) BY DEF PutLatest, PointInv
<1>3. \/ Conflict
      \/ /\ bucket' = after /\ step' \in {To(step, "retain"), Done}
         /\ \E x, y : job' = [job EXCEPT !.target = x, !.dirty = y]
      \/ /\ bucket' \in {bucket, after} /\ step' = Done
         /\ \E x : job' = [job EXCEPT !.known = x]
  BY DEF PutLatest, Answered, Fails
<1>4. /\ Fields(after, BucketFields) /\ after.mans = bucket.mans
      /\ after.segs = bucket.segs /\ after.latest = step.n /\ bucket.snaps = after.snaps
  BY <1>1 DEF Fields, BucketFields
<1> HIDE DEF after
<1>5. Whole(job.gen, after) BY <1>4, WholeSame DEF PointInv
<1>6. \A o \in after.mans : Whole(o, after) BY <1>4, WholeSame DEF PointInv
<1>7. \E o \in after.mans : o.n = after.latest BY <1>2, <1>4
<1>8. CASE Conflict BY <1>8, ConflictPoint
<1>9. CASE /\ bucket' = after /\ step' \in {To(step, "retain"), Done}
           /\ \E x, y : job' = [job EXCEPT !.target = x, !.dirty = y]
  <2>1. Fields(job', JobFields) /\ job'.gen = job.gen
    <3>1. PICK x, y : job' = [job EXCEPT !.target = x, !.dirty = y] BY <1>9
    <3> QED BY <1>1, <3>1 DEF Fields, JobFields
  <2>2. CASE step' = Done
    <3>1. step'.pc \notin Late BY <2>2, StepRecords DEF Late, Done
    <3>2. PointInv' BY <1>5, <1>6, <1>7, <1>9, <2>1, <3>1, PointKeeps
    <3> QED BY <1>1, <1>4, <1>9, <2>1, <3>2
  <2>3. CASE step' = To(step, "retain")
    <3>1. step'.pc = "retain" /\ step'.n = step.n BY <1>1, <2>3, ToFacts DEF StepFields
    <3>2. PointInv' BY <1>2, <1>4, <1>5, <1>6, <1>7, <1>9, <2>1, <3>1 DEF PointInv
    <3> QED BY <1>1, <1>4, <1>9, <2>1, <3>2
  <2> QED BY <1>9, <2>2, <2>3
<1>10. CASE /\ bucket' \in {bucket, after} /\ step' = Done
            /\ \E x : job' = [job EXCEPT !.known = x]
  <2>1. Fields(job', JobFields) /\ job'.gen = job.gen BY <1>10, JobShape
  <2>2. step'.pc \notin Late BY <1>10, StepRecords DEF Late, Done
  <2>3. CASE bucket' = after
    <3>1. PointInv' BY <1>5, <1>6, <1>7, <2>1, <2>2, <2>3, PointKeeps
    <3> QED BY <1>1, <1>4, <2>1, <2>3, <3>1
  <2>4. CASE bucket' = bucket
    <3>1. PointInv' BY <2>1, <2>2, <2>4, PointSame
    <3> QED BY <1>1, <2>1, <2>4, <3>1
  <2> QED BY <1>10, <2>3, <2>4
<1> QED BY <1>3, <1>8, <1>9, <1>10

\* Retention keeps the manifest just written, which LATEST names.
LEMMA RetainPoint ==
    ASSUME Shape, PointInv, Retain
    PROVE  PointInv' /\ job' = job /\ bucket' = bucket
<1> DEFINE kept == NewestOf(bucket.mans, RetainN) \cup {m \in bucket.mans : m.n \in {step.n, job.target}}
           owned == job.allocated \cup {m.num : m \in bucket.mans}
           doomed == bucket.mans \ kept
<1>1. Fields(step, StepFields) BY DEF Shape, ShapeOf
<1>2. PICK m \in bucket.mans : m.n = step.n /\ Written(m, job.gen) BY DEF Retain, PointInv
<1>3. job' = job /\ bucket' = bucket BY DEF Retain, outside
<1>4. \/ step' = Done
      \/ step' = To([step EXCEPT !.kept = kept, !.doomed = doomed, !.owned = owned], "deleteManifests")
  BY DEF Retain
<1>5. /\ kept \subseteq bucket.mans /\ bucket.mans \subseteq kept \cup doomed /\ kept \cap doomed = {}
      /\ m \in kept
  BY <1>2 DEF NewestOf
<1> HIDE DEF kept, owned, doomed
<1>6. CASE step' = Done
  <2>1. step'.pc \notin Late BY <1>6, StepRecords DEF Late, Done
  <2> QED BY <1>3, <2>1, PointSame
<1>7. CASE step' = To([step EXCEPT !.kept = kept, !.doomed = doomed, !.owned = owned], "deleteManifests")
  <2> DEFINE q == [step EXCEPT !.kept = kept, !.doomed = doomed, !.owned = owned]
  <2>1. Fields(q, StepFields) /\ q.kept = kept /\ q.doomed = doomed /\ q.n = step.n
    BY <1>1 DEF Fields, StepFields
  <2>2. step' = To(q, "deleteManifests") BY <1>7
  <2> HIDE DEF q
  <2>3. /\ step'.pc = "deleteManifests" /\ step'.kept = kept /\ step'.doomed = doomed
        /\ step'.n = step.n
    BY <2>1, <2>2, ToFacts DEF StepFields
  <2>4. step.pc = "retain" BY DEF Retain
  <2>5. PointInv' BY <1>2, <1>3, <1>5, <2>3, <2>4 DEF PointInv
  <2> QED BY <1>3, <2>5
<1> QED BY <1>4, <1>6, <1>7

\* A manifest that is not kept goes.
LEMMA DeleteManifestPoint ==
    ASSUME Shape, PointInv, DeleteManifest
    PROVE  PointInv' /\ job' = job /\ Fields(bucket', BucketFields)
<1>1. Fields(step, StepFields) /\ Fields(bucket, BucketFields) BY DEF Shape, ShapeOf
<1>2. step.pc = "deleteManifests" /\ job' = job BY DEF DeleteManifest
<1>3. PICK m \in bucket.mans : m.n = step.n /\ Written(m, job.gen) /\ m \in step.kept
  BY <1>2 DEF PointInv
<1>4. PICK d \in step.doomed :
          \/ bucket' = [bucket EXCEPT !.mans = @ \ {d}] /\ step' = [step EXCEPT !.doomed = @ \ {d}]
          \/ bucket' \in {bucket, [bucket EXCEPT !.mans = @ \ {d}]} /\ step' = Done
  BY DEF DeleteManifest, Answered, Fails
<1> DEFINE after == [bucket EXCEPT !.mans = @ \ {d}]
<1>5. /\ Fields(after, BucketFields) /\ after.mans = bucket.mans \ {d}
      /\ after.segs = bucket.segs /\ after.latest = bucket.latest /\ bucket.snaps = after.snaps
  BY <1>1 DEF Fields, BucketFields
<1>6. \/ bucket' = after /\ step' = [step EXCEPT !.doomed = @ \ {d}]
      \/ bucket' \in {bucket, after} /\ step' = Done
  BY <1>4
<1> HIDE DEF after
<1>7. /\ step.kept \subseteq bucket.mans /\ bucket.mans \subseteq step.kept \cup step.doomed
      /\ step.kept \cap step.doomed = {} /\ bucket.latest = step.n
  BY <1>2 DEF PointInv
<1>8. m \in after.mans BY <1>3, <1>4, <1>5, <1>7
<1>9. Whole(job.gen, after) BY <1>5, WholeSame DEF PointInv
<1>10. \A o \in after.mans : Whole(o, after) BY <1>5, WholeSame DEF PointInv
<1>11. after.latest = m.n BY <1>3, <1>5, <1>7
<1>12. CASE bucket' = after /\ step' = [step EXCEPT !.doomed = @ \ {d}]
  <2>1. /\ step'.pc = "deleteManifests" /\ step'.kept = step.kept /\ step'.n = step.n
        /\ step'.doomed = step.doomed \ {d}
    BY <1>1, <1>2, <1>12 DEF Fields, StepFields
  <2>2. /\ step.kept \subseteq after.mans /\ after.mans \subseteq step.kept \cup (step.doomed \ {d})
        /\ step.kept \cap (step.doomed \ {d}) = {}
    BY <1>4, <1>5, <1>7
  <2>3. after.latest = step.n BY <1>5, <1>7
  <2>4. PointInv' BY <1>2, <1>3, <1>8, <1>9, <1>10, <1>11, <1>12, <2>1, <2>2, <2>3 DEF PointInv
  <2> QED BY <1>2, <1>5, <1>12, <2>4
<1>13. CASE bucket' = after /\ step' = Done
  <2>1. step'.pc \notin Late BY <1>13, StepRecords DEF Late, Done
  <2>2. PointInv' BY <1>2, <1>8, <1>9, <1>10, <1>11, <1>13, <2>1, PointKeeps
  <2> QED BY <1>2, <1>5, <1>13, <2>2
<1>14. CASE bucket' = bucket /\ step' = Done
  <2>1. step'.pc \notin Late BY <1>14, StepRecords DEF Late, Done
  <2>2. PointInv' BY <1>2, <1>14, <2>1, PointSame
  <2> QED BY <1>1, <1>2, <1>14, <2>2
<1> QED BY <1>6, <1>12, <1>13, <1>14

\* What goes is named by no manifest that is kept, and these are all there are.
LEMMA DeleteObjectsPoint ==
    ASSUME Shape, PointInv, DeleteObjects
    PROVE  PointInv' /\ job' = job /\ Fields(bucket', BucketFields)
<1>1. Fields(bucket, BucketFields) BY DEF Shape
<1>2. step.pc = "deleteManifests" /\ step.doomed = {} /\ job' = job /\ step' = NoStep
  BY DEF DeleteObjects, Done
<1>3. PICK m \in bucket.mans : Written(m, job.gen) /\ m \in step.kept BY <1>2 DEF PointInv
<1>4. bucket.mans = step.kept BY <1>2 DEF PointInv
<1>5. PICK gone :
          /\ bucket' = [bucket EXCEPT !.snaps = @ \ gone, !.segs = @ \ gone]
          /\ gone \cap UNION {Objects(o) : o \in step.kept} = {}
  <2> DEFINE named == UNION {Objects(o) : o \in step.kept}
             doomed == ({o \in bucket.snaps : o.num \in step.owned}
                        \cup {o \in bucket.segs : /\ o.num \in step.owned
                                                  /\ o.num < Min({r.num : r \in step.kept})
                                                  /\ o.num # job.gen.num}) \ named
  <2>1. \E gone \in SUBSET doomed : bucket' = [bucket EXCEPT !.snaps = @ \ gone, !.segs = @ \ gone]
    BY DEF DeleteObjects
  <2>2. doomed \cap named = {} OBVIOUS
  <2> HIDE DEF doomed, named
  <2>3. PICK gone \in SUBSET doomed : bucket' = [bucket EXCEPT !.snaps = @ \ gone, !.segs = @ \ gone]
    BY <2>1
  <2>4. gone \cap named = {} BY <2>2, <2>3
  <2> QED BY <2>3, <2>4 DEF named
<1>6. /\ Fields(bucket', BucketFields) /\ bucket'.mans = bucket.mans /\ bucket'.latest = bucket.latest
      /\ bucket'.snaps = bucket.snaps \ gone /\ bucket'.segs = bucket.segs \ gone
  BY <1>1, <1>5 DEF Fields, BucketFields
<1>7. ASSUME NEW o \in bucket.mans PROVE Whole(o, bucket')
  <2>1. o \in step.kept BY <1>4
  <2>2. \A x \in Objects(o) : x \notin gone BY <1>5, <2>1
  <2>3. o.segs \in Seq(bucket.segs) BY DEF PointInv, Whole
  <2>4. o.segs \in Seq(bucket'.segs)
    <3> DEFINE S == bucket.segs
               T == bucket'.segs
               r == o.segs
    <3>1. r \in Seq(S) /\ T = S \ gone BY <1>6, <2>3
    <3>2. \A x \in Range(r) : x \notin gone BY <2>2 DEF Objects
    <3> HIDE DEF S, T, r
    <3>3. \A x \in Range(r) : x \in S BY <3>1 DEF Range
    <3>4. r \in Seq(T) BY <3>1, <3>2, <3>3, SeqFits
    <3> QED BY <3>4 DEF T, r
  <2>5. ASSUME o.snap # 0 PROVE \E x \in bucket'.snaps : x.num = o.num
    <3>1. PICK x \in bucket.snaps : x.num = o.num BY <2>5 DEF PointInv, Whole
    <3>2. x \in Objects(o) BY <2>5, <3>1 DEF Objects
    <3> QED BY <1>6, <2>2, <3>1, <3>2
  <2> QED BY <2>4, <2>5 DEF Whole
<1>8. Whole(job.gen, bucket')
  <2>1. Whole(m, bucket') BY <1>7
  <2> QED BY <1>3, <2>1 DEF Whole, Written
<1>9. step'.pc \notin Late BY <1>2, StepRecords DEF Late
<1>10. bucket'.latest # None => \E o \in bucket'.mans : o.n = bucket'.latest BY <1>6 DEF PointInv
<1>11. PointInv' BY <1>2, <1>6, <1>7, <1>8, <1>9, <1>10, PointKeeps
<1> QED BY <1>2, <1>6, <1>11

-----------------------------------------------------------------------------
\* Every step of the worker leaves the bucket's points whole.
LEMMA WorkingPoint ==
    ASSUME Shape, PointInv, EngineType, Working PROVE Shape' /\ PointInv'
<1>1. /\ ShapeOf(step')
      /\ ~PutManifest /\ ~PutLatest /\ ~Retain /\ ~DeleteManifest => step'.pc \notin Late
  BY WorkerShape
<1>2. Fields(bucket, BucketFields) /\ Fields(job, JobFields) /\ Fields(job.gen, GenFields) BY DEF Shape
<1>3. CASE PutManifest BY <1>1, <1>3, PutManifestPoint DEF Shape
<1>4. CASE PutLatest BY <1>1, <1>4, PutLatestPoint DEF Shape
<1>5. CASE Retain BY <1>1, <1>2, <1>5, RetainPoint DEF Shape
<1>6. CASE DeleteManifest BY <1>1, <1>2, <1>6, DeleteManifestPoint DEF Shape
<1>7. CASE DeleteObjects BY <1>1, <1>2, <1>7, DeleteObjectsPoint DEF Shape
<1>8. ASSUME PutSnapshot \/ PutSegment, step'.pc \notin Late PROVE Shape' /\ PointInv'
  BY <1>1, <1>8, PutSnapshotPoint, PutSegmentPoint DEF Shape
<1>9. ASSUME step'.pc \notin Late,
             \/ ObserveSnapshot \/ ObserveWal \/ ObserveIntent \/ Unvouched \/ FsyncWal \/ Position
             \/ CatchUp \/ OpenSnapshot \/ ReadChain \/ ReadSegment \/ Due \/ NotDue
             \/ StartStep \/ Resume \/ BaseRead
      PROVE  Shape' /\ PointInv'
  <2>1. bucket' = bucket
    BY <1>9 DEF ObserveSnapshot, ObserveWal, ObserveIntent, Unvouched, FsyncWal, Position,
       CatchUp, OpenSnapshot, ReadChain, ReadSegment, Due, NotDue, StartStep, Resume, BaseRead, outside
  <2>2. Fields(job', JobFields) /\ job'.gen = job.gen
    <3>1. CASE StartStep
      <4>1. job' = job \/ \E x, y : job' = [job EXCEPT !.known = x, !.target = y] BY <3>1 DEF StartStep
      <4>2. ASSUME NEW x, NEW y, job' = [job EXCEPT !.known = x, !.target = y]
            PROVE  Fields(job', JobFields) /\ job'.gen = job.gen
        BY <1>2, <4>2 DEF Fields, JobFields
      <4> QED BY <1>2, <4>1, <4>2
    <3>2. CASE Resume
      <4>1. \/ \E x : job' = [job EXCEPT !.refused = x]
            \/ \E x, y : job' = [job EXCEPT !.resumed = x, !.next = y]
        BY <3>2 DEF Resume
      <4>2. ASSUME NEW x, NEW y, job' = [job EXCEPT !.resumed = x, !.next = y]
            PROVE  Fields(job', JobFields) /\ job'.gen = job.gen
        BY <1>2, <4>2 DEF Fields, JobFields
      <4>3. ASSUME NEW x, job' = [job EXCEPT !.refused = x]
            PROVE  Fields(job', JobFields) /\ job'.gen = job.gen
        BY <4>3, JobShape
      <4> QED BY <4>1, <4>2, <4>3
    <3>3. CASE BaseRead
      <4>1. job' = job \/ \E x, y : job' = [job EXCEPT !.next = x, !.allocated = y]
        BY <3>3 DEF BaseRead
      <4>2. ASSUME NEW x, NEW y, job' = [job EXCEPT !.next = x, !.allocated = y]
            PROVE  Fields(job', JobFields) /\ job'.gen = job.gen
        BY <1>2, <4>2 DEF Fields, JobFields
      <4> QED BY <1>2, <4>1, <4>2
    <3>4. CASE \/ ObserveSnapshot \/ ObserveWal \/ ObserveIntent \/ Unvouched \/ FsyncWal \/ Position
               \/ CatchUp \/ OpenSnapshot \/ ReadChain \/ ReadSegment \/ Due \/ NotDue
      <4>1. job' = job
        BY <3>4 DEF ObserveSnapshot, ObserveWal, ObserveIntent, Unvouched, FsyncWal, Position,
           CatchUp, OpenSnapshot, ReadChain, ReadSegment, Due, NotDue
      <4> QED BY <1>2, <4>1
    <3> QED BY <1>9, <3>1, <3>2, <3>3, <3>4
  <2>3. PointInv' BY <1>9, <2>1, <2>2, PointSame
  <2> QED BY <1>1, <1>2, <2>1, <2>2, <2>3 DEF Shape
<1> QED BY <1>1, <1>3, <1>4, <1>5, <1>6, <1>7, <1>8, <1>9 DEF Working

\* So does what happens to the store beside it, and the end of the process.
LEMMA StorePoint ==
    ASSUME Shape, PointInv,
           UNCHANGED <<worker, bucket>> \/ (Down /\ UNCHANGED bucket) \/ Boot
    PROVE  Shape' /\ PointInv'
<1>1. Fields(bucket, BucketFields) /\ Fields(job, JobFields) /\ Fields(job.gen, GenFields) BY DEF Shape
<1>2. CASE UNCHANGED <<worker, bucket>> BY <1>2 DEF Shape, PointInv, worker
<1>3. CASE Down /\ UNCHANGED bucket
  <2> DEFINE q == [NoStep EXCEPT !.pc = "down"]
  <2>1. Fields(q, StepFields) /\ q.pc = "down" /\ q.claim = NoClaim
    BY StepRecords DEF Fields, StepFields
  <2>2. step' = q /\ job' = NoJob /\ bucket' = bucket BY <1>3 DEF Down
  <2> HIDE DEF q
  <2>3. ShapeOf(step') /\ step'.pc \notin Late BY <2>1, <2>2, StepRecords DEF ShapeOf, Late
  <2>4. Fields(job', JobFields) /\ job'.gen = NoGen /\ Fields(NoGen, GenFields) BY <2>2, StepRecords
  <2>5. Whole(NoGen, bucket)
    <3>1. << >> \in Seq(bucket.segs) OBVIOUS
    <3> QED BY <3>1, StepRecords DEF Whole
  <2>6. PointInv' BY <2>2, <2>3, <2>4, <2>5, PointKeeps DEF PointInv
  <2> QED BY <1>1, <2>2, <2>3, <2>4, <2>6 DEF Shape
<1>4. CASE Boot
  <2>1. Goes(step') BY <1>4, WorkerGoes
  <2>2. job' = job /\ bucket' = bucket BY <1>4 DEF Boot
  <2>3. PointInv' BY <2>1, <2>2, PointSame DEF Goes
  <2> QED BY <1>1, <2>1, <2>2, <2>3 DEF Goes, Shape
<1> QED BY <1>2, <1>3, <1>4

-----------------------------------------------------------------------------
(* The engine's cursors.                                                   *)

LeftType == left \in [strict : BOOLEAN, commits : Nat, snapshots : Nat, faults : Nat]

PosFields == {"gen", "len", "frames", "snapshot", "wal", "busy"}

\* A position by its fields.
LEMMA PosShape ==
    ASSUME NEW p
    PROVE  /\ p \in Positions => /\ Fields(p, PosFields)
                                 /\ p.gen \in Int /\ p.len \in Nat /\ p.frames \in Int
                                 /\ p.snapshot \in Int /\ p.wal \in Int /\ p.busy \in BOOLEAN
           /\ /\ Fields(p, PosFields)
              /\ p.gen \in Int /\ p.len \in Nat /\ p.frames \in Int
              /\ p.snapshot \in Int /\ p.wal \in Int /\ p.busy \in BOOLEAN
              => p \in Positions
<1>1. ASSUME p \in Positions
      PROVE  /\ Fields(p, PosFields)
             /\ p.gen \in Int /\ p.len \in Nat /\ p.frames \in Int
             /\ p.snapshot \in Int /\ p.wal \in Int /\ p.busy \in BOOLEAN
  BY <1>1 DEF Positions, Fields, PosFields
<1>2. ASSUME Fields(p, PosFields), p.gen \in Int, p.len \in Nat, p.frames \in Int,
             p.snapshot \in Int, p.wal \in Int, p.busy \in BOOLEAN
      PROVE  p \in Positions
  <2>1. p = [gen |-> p.gen, len |-> p.len, frames |-> p.frames, snapshot |-> p.snapshot,
             wal |-> p.wal, busy |-> p.busy]
    BY <1>2 DEF Fields, PosFields
  <2> QED BY <1>2, <2>1 DEF Positions
<1> QED BY <1>1, <1>2

LEMMA FaultLeft == ASSUME LeftType, NEW k, Fault(k) PROVE LeftType'
BY DEF LeftType, Fault

\* A step of the worker that neither claims nor vouches.
LEMMA QuietEngine ==
    ASSUME EngineInv, Up, Up', UNCHANGED <<store, writer, engine>>, LeftType', step'.claim = NoClaim
    PROVE  EngineInv'
<1>1. UNCHANGED <<snap, wal, floor, writer, eng, pos, unvouched>> BY DEF store, engine
<1>2. pos.gen \in Nat /\ step'.claim.gen = -1 BY StepRecords DEF EngineInv
<1>3. EngineType' BY <1>1 DEF EngineInv, EngineType, LeftType
<1>4. (Marked => CursorInv /\ TailInv /\ ClaimInv)'
  BY <1>1, <1>2 DEF EngineInv, Marked, CursorInv, TailInv, ClaimInv
<1> QED BY <1>1, <1>2, <1>3, <1>4 DEF EngineInv, Up

\* What is not vouched for is claimed under the generation it belongs to.
LEMMA UnvouchedEngine ==
    ASSUME Shape, EngineInv, Unvouched, ShapeOf(step'), step'.pc # "down" PROVE EngineInv'
<1>1. UNCHANGED <<snap, wal, floor, left, writer, eng, pos, unvouched>>
  BY DEF Unvouched, outside, store, engine
<1>2. Up /\ Up' /\ step.claim = NoClaim /\ Fields(step, StepFields)
  BY DEF Unvouched, Up, Shape, ShapeOf
<1>3. \/ unvouched = NoTail /\ step'.claim = NoClaim
      \/ /\ unvouched # NoTail /\ step'.pc = "fsync" /\ step'.claim.gen = pos.gen
         /\ step'.claim.len = unvouched.len /\ step'.claim.frames = unvouched.frames
  <2>1. CASE unvouched = NoTail
    <3>1. step' = To(step, "position") BY <2>1 DEF Unvouched
    <3> QED BY <1>2, <2>1, <3>1, ToFacts DEF StepFields
  <2>2. CASE unvouched # NoTail
    <3> DEFINE c == [gen |-> pos.gen, len |-> unvouched.len, frames |-> unvouched.frames]
               q == [step EXCEPT !.claim = c]
    <3>1. Fields(q, StepFields) /\ q.claim = c BY <1>2 DEF Fields, StepFields
    <3>2. step' = To(q, "fsync") BY <2>2 DEF Unvouched
    <3>3. c.gen = pos.gen /\ c.len = unvouched.len /\ c.frames = unvouched.frames OBVIOUS
    <3> HIDE DEF q, c
    <3>4. step'.pc = "fsync" /\ step'.claim = c BY <3>1, <3>2, ToFacts DEF StepFields
    <3> QED BY <2>2, <3>3, <3>4
  <2> QED BY <2>1, <2>2
<1>4. CASE unvouched = NoTail /\ step'.claim = NoClaim
  BY <1>1, <1>2, <1>4, QuietEngine DEF EngineInv, EngineType, LeftType, Unvouched, outside
<1>5. CASE /\ unvouched # NoTail /\ step'.pc = "fsync" /\ step'.claim.gen = pos.gen
           /\ step'.claim.len = unvouched.len /\ step'.claim.frames = unvouched.frames
  <2>1. EngineType' BY <1>1 DEF EngineInv, EngineType
  <2>2. pos.gen \in Nat BY <1>2 DEF EngineInv
  <2>3. (Marked => CursorInv /\ TailInv /\ ClaimInv)'
    BY <1>1, <1>5 DEF EngineInv, Marked, CursorInv, TailInv, ClaimInv
  <2> QED BY <1>1, <1>2, <1>5, <2>1, <2>2, <2>3 DEF EngineInv
<1> QED BY <1>3, <1>4, <1>5

\* The fsync covers the WAL that is there, whichever it is.
LEMMA FsyncEngine ==
    ASSUME Shape, EngineInv, FsyncWal, ShapeOf(step'), step'.pc # "down" PROVE EngineInv'
<1>1. UNCHANGED <<snap, floor, writer, eng, pos, unvouched>> BY DEF FsyncWal, engine
<1>2. Up /\ Up' /\ Fields(step, StepFields) BY DEF FsyncWal, Up, Shape, ShapeOf
<1>3. \/ wal' = [wal EXCEPT !.synced = Len(wal.frames)] /\ step' = To(step, "position") /\ left' = left
      \/ Fault("fsync") /\ step' = To([step EXCEPT !.claim = NoClaim], "position") /\ wal' = wal
  BY DEF FsyncWal
<1>4. CASE wal' = [wal EXCEPT !.synced = Len(wal.frames)] /\ step' = To(step, "position") /\ left' = left
  <2>1. step'.claim = step.claim BY <1>2, <1>4, ToFacts DEF StepFields
  <2>2. wal \in [id : {0, 1}, frames : Seq(Nat), synced : Nat] BY DEF EngineInv, EngineType
  <2>3. /\ wal' \in [id : {0, 1}, frames : Seq(Nat), synced : Nat] /\ wal'.id = wal.id
        /\ wal'.frames = wal.frames /\ wal'.synced = Len(wal.frames)
    BY <1>4, <2>2
  <2>4. EngineType' BY <1>1, <1>4, <2>3 DEF EngineInv, EngineType
  <2>5. Len(wal.frames) \in Nat BY <2>2
  <2>6. (Marked => CursorInv /\ TailInv /\ ClaimInv)'
    BY SMTT(40), <1>1, <2>1, <2>3, <2>5 DEF EngineInv, EngineType, Positions, Marked, CursorInv, TailInv, ClaimInv
  <2> QED BY <1>1, <1>2, <2>1, <2>3, <2>4, <2>5, <2>6 DEF EngineInv
<1>5. CASE Fault("fsync") /\ step' = To([step EXCEPT !.claim = NoClaim], "position") /\ wal' = wal
  <2> DEFINE q == [step EXCEPT !.claim = NoClaim]
  <2>1. Fields(q, StepFields) /\ q.claim = NoClaim BY <1>2 DEF Fields, StepFields
  <2>2. step' = To(q, "position") BY <1>5
  <2> HIDE DEF q
  <2>3. step'.claim = NoClaim BY <2>1, <2>2, ToFacts DEF StepFields
  <2>4. LeftType' BY <1>5, FaultLeft DEF EngineInv, EngineType, LeftType
  <2>5. UNCHANGED <<store, writer, engine>> BY <1>5 DEF FsyncWal, store
  <2> QED BY <1>2, <2>3, <2>4, <2>5, QuietEngine
<1> QED BY <1>3, <1>4, <1>5

\* The claim is taken if the WAL it was made of is the one there.
LEMMA PositionEngine ==
    ASSUME Shape, EngineInv, Position, step'.claim = NoClaim, step'.pc # "down" PROVE EngineInv'
<1>1. UNCHANGED <<snap, wal, floor, left, writer, eng>> BY DEF Position, store
<1>2. Up /\ Up' /\ step.pc = "position" /\ step.claim \in Claims
  BY DEF Position, Up, Shape, ShapeOf
<1>3. pos.gen \in Nat /\ step'.claim.gen = -1 BY <1>2, StepRecords DEF EngineInv
<1>4. \/ UNCHANGED <<pos, unvouched>>
      \/ /\ step.claim.gen = pos.gen
         /\ pos' = pos \/ pos' = [pos EXCEPT !.len = step.claim.len, !.frames = step.claim.frames]
         /\ unvouched' \in {NoTail, unvouched}
  BY DEF Position
<1>5. CASE UNCHANGED <<pos, unvouched>>
  <2>1. UNCHANGED <<store, writer, engine>> BY <1>1, <1>5 DEF Position, engine
  <2>2. LeftType' BY <1>1 DEF EngineInv, EngineType, LeftType
  <2> QED BY <1>2, <2>1, <2>2, QuietEngine
<1>6. CASE /\ step.claim.gen = pos.gen
           /\ pos' = pos \/ pos' = [pos EXCEPT !.len = step.claim.len, !.frames = step.claim.frames]
           /\ unvouched' \in {NoTail, unvouched}
  <2>1. pos \in Positions
    BY DEF EngineInv, EngineType
  <2>2. step.claim.len \in Nat /\ step.claim.frames \in Nat BY <1>2 DEF Claims
  <2>3. /\ pos' \in Positions
        /\ pos'.gen = pos.gen /\ pos'.snapshot = pos.snapshot /\ pos'.wal = pos.wal
        /\ \/ pos'.len = pos.len /\ pos'.frames = pos.frames
           \/ pos'.len = step.claim.len /\ pos'.frames = step.claim.frames
    <3>1. CASE pos' = pos BY <2>1, <3>1
    <3>2. CASE pos' = [pos EXCEPT !.len = step.claim.len, !.frames = step.claim.frames]
      <4>1. Fields(pos, PosFields) BY <2>1, PosShape
      <4>2. /\ Fields(pos', PosFields)
            /\ pos'.gen = pos.gen /\ pos'.snapshot = pos.snapshot /\ pos'.wal = pos.wal
            /\ pos'.len = step.claim.len /\ pos'.frames = step.claim.frames /\ pos'.busy = pos.busy
        BY <3>2, <4>1 DEF Fields, PosFields
      <4>3. pos' \in Positions BY <2>1, <2>2, <4>2, PosShape
      <4> QED BY <4>2, <4>3
    <3> QED BY <1>6, <3>1, <3>2
  <2>4. unvouched' \in [len : Nat, frames : Nat] BY <1>6 DEF EngineInv, EngineType, NoTail
  <2>5. EngineType' BY <1>1, <2>3, <2>4 DEF EngineInv, EngineType
  <2>6. (Marked => CursorInv /\ TailInv /\ ClaimInv)'
    BY <1>1, <1>2, <1>3, <1>6, <2>3 DEF EngineInv, Marked, CursorInv, TailInv, ClaimInv
  <2>7. (writer.stage = "replaced" /\ writer.by = "us" => unvouched = NoTail /\ step.claim.gen # pos.gen)'
    BY <1>1, <1>3, <1>6, <2>3 DEF EngineInv
  <2> QED BY <1>1, <1>2, <1>3, <2>3, <2>5, <2>6, <2>7 DEF EngineInv
<1> QED BY <1>4, <1>5, <1>6

WriterType == writer \in [by : {"us", "peer", "none"}, stage : Stages]
Cursors == [snap : Nat, wal : {0, 1}, consumed : Nat, total : Nat, unsettled : BOOLEAN]

\* A handle that loads stands at the end of the files, and vouches for nothing.
LEMMA LoadFacts ==
    ASSUME EngineType, NEW g \in Nat, Load(g)
    PROVE  /\ eng' \in Cursors /\ eng'.snap = snap.id /\ eng'.wal = wal.id
           /\ eng'.consumed = Len(wal.frames) /\ eng'.total = floor + Len(wal.frames)
           /\ pos' \in Positions /\ pos'.gen = g /\ pos'.len = 0 /\ pos'.frames = floor
           /\ pos'.snapshot = snap.id /\ pos'.wal = wal.id
           /\ unvouched' \in [len : Nat, frames : Nat]
           /\ unvouched' # NoTail => /\ unvouched'.len = Len(wal.frames)
                                     /\ unvouched'.frames = floor + Len(wal.frames)
<1>1. snap.id \in Nat /\ floor \in Nat /\ wal.id \in {0, 1} /\ Len(wal.frames) \in Nat
  BY DEF EngineType
<1> DEFINE n == Len(wal.frames)
<1>2. /\ eng' \in Cursors /\ eng'.snap = snap.id /\ eng'.wal = wal.id
      /\ eng'.consumed = n /\ eng'.total = floor + n
  BY <1>1 DEF Load, Total, Cursors
<1>3. /\ pos' \in Positions /\ pos'.gen = g /\ pos'.len = 0 /\ pos'.frames = floor
      /\ pos'.snapshot = snap.id /\ pos'.wal = wal.id
  BY <1>1 DEF Load, Positions
<1>4. unvouched' = NoTail \/ unvouched' = [len |-> n, frames |-> floor + n] BY DEF Load, Total
<1>5. NoTail \in [len : Nat, frames : Nat] BY DEF NoTail
<1> HIDE DEF n
<1>6. n \in Nat BY <1>1 DEF n
<1>7. /\ unvouched' \in [len : Nat, frames : Nat]
      /\ unvouched' # NoTail => unvouched'.len = n /\ unvouched'.frames = floor + n
  BY <1>1, <1>4, <1>5, <1>6
<1> QED BY <1>2, <1>3, <1>7 DEF n

\* The handle follows the files: it loads them under a generation no claim was
\* made of, or goes on in the WAL its marks name.
LEMMA RefreshEngine ==
    ASSUME Shape, EngineInv, Up, Up', NEW b \in BOOLEAN, RefreshChecking(b), UNCHANGED store, LeftType',
           WriterType', writer'.stage \in {"written", "replaced"} => writer' = writer,
           ~(writer'.stage = "replaced" /\ writer'.by = "us"),
           step' = step \/ step'.claim = NoClaim
    PROVE  EngineInv'
<1>1. UNCHANGED <<snap, wal, floor>> BY DEF store
<1>2. EngineType /\ pos.gen \in Nat /\ step.claim.gen =< pos.gen /\ NoClaim.gen = -1
  BY StepRecords DEF EngineInv
<1>3. snap.id \in Nat /\ floor \in Nat /\ wal.id \in {0, 1} /\ Len(wal.frames) \in Nat
  BY <1>2 DEF EngineType
<1>4. CASE MustReload(b)
  <2>1. Load(pos.gen + 1) BY <1>4 DEF RefreshChecking
  <2>2. pos.gen + 1 \in Nat BY <1>2
  <2>3. /\ eng' \in Cursors /\ eng'.snap = snap.id /\ eng'.wal = wal.id
        /\ eng'.consumed = Len(wal.frames) /\ eng'.total = floor + Len(wal.frames)
        /\ pos' \in Positions /\ pos'.gen = pos.gen + 1 /\ pos'.len = 0 /\ pos'.frames = floor
        /\ pos'.snapshot = snap.id /\ pos'.wal = wal.id
        /\ unvouched' \in [len : Nat, frames : Nat]
        /\ unvouched' # NoTail => /\ unvouched'.len = Len(wal.frames)
                                  /\ unvouched'.frames = floor + Len(wal.frames)
    BY <1>2, <2>1, <2>2, LoadFacts
  <2>4. step'.claim.gen \in Int /\ step'.claim.gen < pos'.gen
    <3>0. step.claim.gen \in Int BY DEF Shape, ShapeOf, Claims
    <3>1. CASE step' = step BY <1>2, <2>3, <3>0, <3>1
    <3>2. CASE step'.claim = NoClaim BY <1>2, <2>3, <3>2
    <3> QED BY <3>1, <3>2
  <2>5. EngineType' BY <1>1, <1>2, <2>3 DEF EngineType, Cursors, LeftType, WriterType
  <2>6. CursorInv'
    <3>1. wal.synced \in Nat BY <1>2 DEF EngineType
    <3> QED BY <1>1, <1>3, <2>3, <3>1 DEF CursorInv
  <2>7. TailInv' BY <1>1, <1>3, <2>3 DEF TailInv
  <2>8. ClaimInv' BY <1>2, <2>3, <2>4 DEF ClaimInv
  <2> QED BY <1>1, <1>2, <1>3, <2>3, <2>4, <2>5, <2>6, <2>7, <2>8 DEF EngineInv
<1>5. CASE ~MustReload(b) /\ Len(wal.frames) = eng.consumed
  <2>1. UNCHANGED <<eng, pos, unvouched>> BY <1>5 DEF RefreshChecking, engine
  <2>2. EngineType' BY <1>1, <1>2, <2>1 DEF EngineType, LeftType, WriterType
  <2>3. step' = step \/ step'.claim.gen = -1 BY <1>2
  <2>4. (Marked => CursorInv /\ TailInv /\ ClaimInv)'
    BY <1>1, <1>2, <2>1, <2>3 DEF EngineInv, Marked, CursorInv, TailInv, ClaimInv
  <2> QED BY <1>1, <1>2, <2>1, <2>2, <2>3, <2>4 DEF EngineInv
<1>6. CASE ~MustReload(b) /\ Len(wal.frames) # eng.consumed
  <2>1. Absorb BY <1>6 DEF RefreshChecking
  <2>2. eng \in Cursors /\ pos \in Positions /\ unvouched \in [len : Nat, frames : Nat]
    BY <1>2 DEF EngineType, Cursors
  <2>3. Marked /\ eng.consumed < Len(wal.frames)
    <3>1. eng.consumed \in Nat BY <2>2 DEF Cursors
    <3>2. snap.id = eng.snap /\ eng.consumed < Len(wal.frames) BY <1>3, <1>6, <3>1 DEF MustReload
    <3>3. wal.id = eng.wal BY <1>3, <1>6, <3>1, <3>2 DEF MustReload
    <3> QED BY <3>2, <3>3 DEF Marked, EngineInv
  <2>4. eng.total = floor + eng.consumed BY <2>3 DEF EngineInv, CursorInv
  <2> DEFINE n == Len(wal.frames)
             total == eng.total + n - eng.consumed
  <2>5. total = floor + n BY <1>3, <2>2, <2>4 DEF Cursors
  <2>6. eng' = [eng EXCEPT !.consumed = n, !.total = total] /\ pos' = pos BY <2>1 DEF Absorb
  <2> HIDE DEF n, total
  <2>7. n \in Nat /\ total \in Nat BY <1>3, <2>5 DEF n
  <2>8. /\ eng' \in Cursors /\ eng'.snap = eng.snap /\ eng'.wal = eng.wal
        /\ eng'.consumed = n /\ eng'.total = total
    BY <2>2, <2>6, <2>7 DEF Cursors
  <2>9. unvouched' = unvouched \/ unvouched' = [len |-> n, frames |-> total]
    BY <2>1, <2>8 DEF Absorb, n
  <2>10. /\ unvouched' \in [len : Nat, frames : Nat]
         /\ \/ unvouched' = unvouched
            \/ unvouched'.len = n /\ unvouched'.frames = total
    BY <2>2, <2>7, <2>9
  <2>11. EngineType' BY <1>1, <1>2, <2>6, <2>8, <2>10 DEF EngineType, Cursors, LeftType, WriterType
  <2>12. step' = step \/ step'.claim.gen = -1 BY <1>2
  <2>13. CursorInv /\ TailInv /\ ClaimInv BY <2>3 DEF EngineInv
  <2>14. CursorInv' BY <1>1, <2>5, <2>6, <2>7, <2>8, <2>13 DEF CursorInv, n
  <2>15. TailInv' BY <1>1, <2>5, <2>7, <2>10, <2>13 DEF TailInv, n
  <2>16. ClaimInv' BY <1>1, <1>2, <2>6, <2>12, <2>13 DEF ClaimInv
  <2> QED BY <1>1, <1>2, <2>6, <2>8, <2>11, <2>12, <2>14, <2>15, <2>16 DEF EngineInv
<1> QED BY <1>4, <1>5, <1>6

Wals == [id : {0, 1}, frames : Seq(Nat), synced : Nat]

\* The engine's parts, and what of the invariant the stages of a writer say.
LEMMA EngineParts ==
    ASSUME EngineInv
    PROVE  /\ snap.id \in Nat /\ floor \in Nat /\ wal \in Wals /\ LeftType /\ WriterType
           /\ eng \in Cursors /\ pos \in Positions /\ unvouched \in [len : Nat, frames : Nat]
           /\ wal.id \in {0, 1} /\ wal.synced \in Nat /\ Len(wal.frames) \in Nat
           /\ eng.consumed \in Nat /\ eng.total \in Nat /\ pos.len \in Nat
BY DEF EngineInv, EngineType, Wals, LeftType, WriterType, Cursors, Positions

\* A commit's frame.
LEMMA AppendEngine ==
    ASSUME Shape, EngineInv, NEW p \in Processes, AppendFrame(p) PROVE EngineInv'
<1>1. UNCHANGED <<snap, floor, pos, unvouched, step>> BY DEF AppendFrame, worker
<1>2. /\ snap.id \in Nat /\ floor \in Nat /\ wal \in Wals /\ LeftType /\ WriterType
      /\ eng \in Cursors /\ pos \in Positions /\ unvouched \in [len : Nat, frames : Nat]
      /\ wal.synced \in Nat /\ Len(wal.frames) \in Nat /\ eng.consumed \in Nat /\ eng.total \in Nat
  BY EngineParts
<1>3. LeftType' /\ left.commits \in Nat
  <2> DEFINE n == left.commits - 1
  <2>1. left.commits \in Nat BY <1>2 DEF LeftType
  <2>2. n \in Nat BY <2>1 DEF AppendFrame
  <2>3. left' = [left EXCEPT !.commits = n] BY DEF AppendFrame
  <2> HIDE DEF n
  <2> QED BY <1>2, <2>1, <2>2, <2>3 DEF LeftType
<1>4. /\ wal' \in Wals /\ wal'.id = wal.id /\ wal'.synced = wal.synced
      /\ Len(wal'.frames) = Len(wal.frames) + 1
  <2> DEFINE f == wal.frames
             c == left.commits
  <2>1. wal' = [wal EXCEPT !.frames = Append(f, c)] BY DEF AppendFrame
  <2>2. f \in Seq(Nat) /\ c \in Nat BY <1>2, <1>3 DEF Wals
  <2> HIDE DEF f, c
  <2> DEFINE g == Append(f, c)
  <2>3. g \in Seq(Nat) /\ Len(g) = Len(f) + 1 BY <2>2
  <2> HIDE DEF g
  <2>4. wal' = [wal EXCEPT !.frames = g] BY <2>1 DEF g
  <2>5. wal' \in Wals /\ wal'.id = wal.id /\ wal'.synced = wal.synced /\ wal'.frames = g
    BY <1>2, <2>3, <2>4 DEF Wals
  <2> QED BY <2>3, <2>5 DEF f
<1>5. /\ eng' \in Cursors /\ eng'.snap = eng.snap /\ eng'.wal = eng.wal
      /\ \/ eng'.consumed = eng.consumed /\ eng'.total = eng.total
         \/ eng'.consumed = eng.consumed + 1 /\ eng'.total = eng.total + 1
  <2>1. CASE eng' = eng BY <1>2, <2>1
  <2>2. CASE eng' = [eng EXCEPT !.consumed = @ + 1, !.total = @ + 1, !.unsettled = FALSE]
    <3> DEFINE a == eng.consumed + 1
               b == eng.total + 1
    <3>1. eng' = [eng EXCEPT !.consumed = a, !.total = b, !.unsettled = FALSE] BY <2>2
    <3>2. a \in Nat /\ b \in Nat BY <1>2
    <3> HIDE DEF a, b
    <3>3. eng' \in Cursors BY <1>2, <3>1, <3>2 DEF Cursors
    <3>4. eng'.snap = eng.snap /\ eng'.wal = eng.wal /\ eng'.consumed = a /\ eng'.total = b
      BY <1>2, <3>1 DEF Cursors
    <3> QED BY <3>3, <3>4 DEF a, b
  <2> QED BY <2>1, <2>2 DEF AppendFrame
<1>6. WriterType' /\ writer'.stage = "appended" /\ writer'.by = writer.by
  BY <1>2 DEF AppendFrame, WriterType, Stages
<1>7. EngineType' BY <1>1, <1>2, <1>3, <1>4, <1>5, <1>6
  DEF EngineType, LeftType, WriterType, Wals, Cursors
<1>8. (Marked => CursorInv /\ TailInv /\ ClaimInv)'
  <2> SUFFICES ASSUME Marked' PROVE CursorInv' /\ TailInv' /\ ClaimInv' OBVIOUS
  <2>1. CursorInv /\ TailInv /\ ClaimInv BY <1>1, <1>4 DEF EngineInv, Marked
  <2>2. CursorInv' BY <1>1, <1>2, <1>4, <1>5, <2>1 DEF CursorInv
  <2>3. TailInv' BY <1>1, <1>2, <1>4, <2>1 DEF TailInv
  <2>4. ClaimInv'
    <3>1. step.claim.len \in Nat BY DEF Shape, ShapeOf, Claims
    <3> QED BY <1>1, <1>2, <1>4, <2>1, <3>1 DEF ClaimInv
  <2> QED BY <2>2, <2>3, <2>4
<1> QED BY <1>1, <1>2, <1>4, <1>5, <1>6, <1>7, <1>8 DEF EngineInv, Up

\* The end of a commit: its fsync vouches for the frames of this handle.
LEMMA EndScopeEngine ==
    ASSUME Shape, EngineInv, NEW p \in Processes, EndScope(p) PROVE EngineInv'
<1>1. UNCHANGED <<snap, floor, left, eng, step>> BY DEF EndScope, worker
<1>2. /\ snap.id \in Nat /\ floor \in Nat /\ wal \in Wals /\ LeftType /\ WriterType
      /\ eng \in Cursors /\ pos \in Positions /\ unvouched \in [len : Nat, frames : Nat]
      /\ wal.synced \in Nat /\ Len(wal.frames) \in Nat /\ eng.consumed \in Nat /\ eng.total \in Nat
  BY EngineParts
<1>3. /\ wal' \in Wals /\ wal'.id = wal.id /\ wal'.frames = wal.frames
      /\ \/ wal'.synced = Len(wal.frames)
         \/ wal'.synced = wal.synced /\ UNCHANGED <<pos, unvouched>>
  <2>1. CASE wal' = [wal EXCEPT !.synced = Len(wal.frames)] BY <1>2, <2>1 DEF Wals
  <2>2. CASE UNCHANGED <<wal, pos, unvouched>> BY <1>2, <2>2
  <2> QED BY <2>1, <2>2 DEF EndScope
<1>4. /\ pos' \in Positions /\ pos'.gen = pos.gen /\ pos'.snapshot = pos.snapshot /\ pos'.wal = pos.wal
      /\ \/ pos' = pos
         \/ pos'.len = eng.consumed /\ pos'.frames = eng.total /\ Up
  <2>1. CASE pos' = pos BY <1>2, <2>1
  <2>2. CASE p = "us" /\ pos' = [pos EXCEPT !.len = eng.consumed, !.frames = eng.total]
    <3>1. Fields(pos, PosFields) /\ pos.gen \in Int /\ pos.snapshot \in Int /\ pos.wal \in Int /\ pos.busy \in BOOLEAN
      BY <1>2, PosShape
    <3>2. /\ Fields(pos', PosFields)
          /\ pos'.gen = pos.gen /\ pos'.snapshot = pos.snapshot /\ pos'.wal = pos.wal
          /\ pos'.len = eng.consumed /\ pos'.frames = eng.total /\ pos'.busy = pos.busy
      BY <2>2, <3>1 DEF Fields, PosFields
    <3>3. pos' \in Positions BY <1>2, <3>1, <3>2, PosShape
    <3>4. Up BY <2>2 DEF EndScope, EngineInv
    <3> QED BY <3>2, <3>3, <3>4
  <2> QED BY <2>1, <2>2 DEF EndScope, Synced
<1>5. unvouched' \in {NoTail, unvouched} BY DEF EndScope, Synced
<1>6. unvouched' \in [len : Nat, frames : Nat] BY <1>2, <1>5 DEF NoTail
<1>7. WriterType' /\ writer'.stage = "none" /\ writer'.by = "none"
  BY DEF EndScope, WriterType, Free, Stages
<1>8. EngineType' BY <1>1, <1>2, <1>3, <1>4, <1>6, <1>7
  DEF EngineType, LeftType, WriterType, Wals, Cursors
<1>9. (Marked => CursorInv /\ TailInv /\ ClaimInv)'
  <2> SUFFICES ASSUME Marked' PROVE CursorInv' /\ TailInv' /\ ClaimInv' OBVIOUS
  <2>1. CursorInv /\ TailInv /\ ClaimInv BY <1>1, <1>3, <1>4 DEF EngineInv, Marked
  <2>2. wal.synced =< Len(wal.frames) BY DEF EngineInv
  <2>3. pos.len \in Nat BY EngineParts
  <2>4. CursorInv' BY <1>1, <1>2, <1>3, <1>4, <2>1, <2>2, <2>3 DEF CursorInv
  <2>5. TailInv' BY <1>1, <1>2, <1>3, <1>5, <2>1 DEF TailInv
  <2>6. ClaimInv'
    <3>1. step.claim.len \in Nat BY DEF Shape, ShapeOf, Claims
    <3> QED BY <1>1, <1>2, <1>3, <1>4, <2>1, <2>2, <3>1 DEF ClaimInv
  <2> QED BY <2>4, <2>5, <2>6
<1>10. ~Up => pos' = pos BY <1>4
<1> QED BY <1>1, <1>2, <1>3, <1>4, <1>7, <1>8, <1>9, <1>10 DEF EngineInv, Up

\* Nothing but the writer's stage and the busy mark changes.
LEMMA SameEngine ==
    ASSUME Shape, EngineInv, UNCHANGED <<snap, wal, floor, unvouched, step>>, LeftType', WriterType',
           eng' = eng \/ \E x \in BOOLEAN : eng' = [eng EXCEPT !.unsettled = x],
           pos' = pos \/ (Up /\ \E x \in BOOLEAN : pos' = [pos EXCEPT !.busy = x]),
           writer'.stage \notin {"written", "replaced"}, ~Up => writer'.by # "us"
    PROVE  EngineInv'
<1>1. /\ snap.id \in Nat /\ floor \in Nat /\ wal \in Wals
      /\ eng \in Cursors /\ pos \in Positions /\ unvouched \in [len : Nat, frames : Nat]
  BY EngineParts
<1>2. /\ eng' \in Cursors /\ eng'.snap = eng.snap /\ eng'.wal = eng.wal
      /\ eng'.consumed = eng.consumed /\ eng'.total = eng.total
  <2>1. CASE eng' = eng BY <1>1, <2>1
  <2>2. ASSUME NEW x \in BOOLEAN, eng' = [eng EXCEPT !.unsettled = x]
        PROVE  /\ eng' \in Cursors /\ eng'.snap = eng.snap /\ eng'.wal = eng.wal
               /\ eng'.consumed = eng.consumed /\ eng'.total = eng.total
    BY <1>1, <2>2 DEF Cursors
  <2> QED BY <2>1, <2>2
<1>3. /\ pos' \in Positions /\ pos'.gen = pos.gen /\ pos'.len = pos.len /\ pos'.frames = pos.frames
      /\ pos'.snapshot = pos.snapshot /\ pos'.wal = pos.wal
  <2>1. CASE pos' = pos BY <1>1, <2>1
  <2>2. ASSUME NEW x \in BOOLEAN, pos' = [pos EXCEPT !.busy = x]
        PROVE  /\ pos' \in Positions /\ pos'.gen = pos.gen /\ pos'.len = pos.len
               /\ pos'.frames = pos.frames /\ pos'.snapshot = pos.snapshot /\ pos'.wal = pos.wal
    BY <1>1, <2>2 DEF Positions
  <2> QED BY <2>1, <2>2
<1>4. EngineType' BY <1>1, <1>2, <1>3 DEF EngineType, LeftType, WriterType, Wals, Cursors
<1>5. (Marked => CursorInv /\ TailInv /\ ClaimInv)'
  BY <1>2, <1>3 DEF EngineInv, Marked, CursorInv, TailInv, ClaimInv
<1> QED BY <1>2, <1>3, <1>4, <1>5 DEF EngineInv, Up

\* A snapshot begins.
LEMMA BeginEngine ==
    ASSUME Shape, EngineInv, NEW p \in Processes, BeginSnapshot(p) PROVE EngineInv'
<1>1. UNCHANGED <<snap, wal, floor, unvouched, step>> BY DEF BeginSnapshot, worker
<1>2. LeftType /\ WriterType BY EngineParts
<1>3. LeftType'
  <2> DEFINE n == left.snapshots - 1
  <2>1. left.snapshots \in Nat BY <1>2 DEF LeftType
  <2>2. n \in Nat BY <2>1 DEF BeginSnapshot
  <2>3. left' = [left EXCEPT !.snapshots = n] BY DEF BeginSnapshot
  <2> HIDE DEF n
  <2> QED BY <1>2, <2>2, <2>3 DEF LeftType
<1>4. WriterType' /\ writer'.stage = "begun" /\ writer'.by = p
  BY <1>2 DEF BeginSnapshot, WriterType, Stages
<1>5. p = "us" => Up BY DEF BeginSnapshot, EngineInv
<1>6. eng' = eng \/ \E x \in BOOLEAN : eng' = [eng EXCEPT !.unsettled = x] BY DEF BeginSnapshot
<1>7. pos' = pos \/ (Up /\ \E x \in BOOLEAN : pos' = [pos EXCEPT !.busy = x]) BY <1>5 DEF BeginSnapshot
<1> QED BY <1>1, <1>3, <1>4, <1>5, <1>6, <1>7, SameEngine

\* The new snapshot is one no handle has loaded.
LEMMA WriteEngine ==
    ASSUME Shape, EngineInv, NEW p \in Processes, WriteSnapshot(p) PROVE EngineInv'
<1>1. UNCHANGED <<wal, floor, left, eng, pos, unvouched, step>> BY DEF WriteSnapshot, worker, engine
<1>2. /\ snap.id \in Nat /\ LeftType /\ WriterType /\ pos \in Positions BY EngineParts
<1>3. snap'.id = snap.id + 1 BY DEF WriteSnapshot
<1>4. pos.snapshot \in Int /\ pos.snapshot =< snap.id BY <1>2 DEF EngineInv, Positions
<1>5. pos'.snapshot < snap'.id BY <1>1, <1>2, <1>3, <1>4
<1>6. WriterType' /\ writer'.stage = "written" /\ writer'.by = writer.by
  BY <1>2 DEF WriteSnapshot, WriterType, Stages
<1>7. EngineType' BY <1>1, <1>2, <1>3, <1>6 DEF EngineInv, EngineType, WriterType
<1>8. ~Marked' BY <1>2, <1>3, <1>4, <1>5, <1>1 DEF Marked
<1> QED BY <1>1, <1>2, <1>3, <1>4, <1>5, <1>6, <1>7, <1>8 DEF EngineInv, Up

\* The replacement WAL is not the one the marks name.
LEMMA ReplaceEngine ==
    ASSUME Shape, EngineInv, NEW p \in Processes, ReplaceWal(p) PROVE EngineInv'
<1>1. UNCHANGED <<snap, left, eng, step>> BY DEF ReplaceWal, worker
<1>2. /\ snap.id \in Nat /\ floor \in Nat /\ wal.id \in {0, 1} /\ LeftType /\ WriterType
      /\ eng \in Cursors /\ pos \in Positions /\ unvouched \in [len : Nat, frames : Nat]
      /\ Len(wal.frames) \in Nat
  BY EngineParts
<1>3. /\ wal' \in Wals /\ wal'.id = 1 - wal.id /\ wal'.frames = << >> /\ wal'.synced = 0
  <2> DEFINE i == 1 - wal.id
             f == << >>
  <2>1. i \in {0, 1} BY <1>2
  <2>2. f \in Seq(Nat) OBVIOUS
  <2>3. wal' = [id |-> i, frames |-> f, synced |-> 0] BY DEF ReplaceWal
  <2> HIDE DEF i, f
  <2>4. wal' \in Wals /\ wal'.id = i /\ wal'.frames = f /\ wal'.synced = 0 BY <2>1, <2>2, <2>3 DEF Wals
  <2> QED BY <2>4 DEF i, f
<1>4. floor' \in Nat BY <1>2 DEF ReplaceWal, Total
<1>5. /\ pos' \in Positions /\ pos'.snapshot = pos.snapshot /\ pos'.wal = pos.wal
      /\ p # "us" => UNCHANGED <<pos, unvouched>>
      /\ p = "us" => pos'.gen = pos.gen + 1 /\ unvouched' = NoTail
  <2>1. CASE p # "us" BY <1>2, <2>1 DEF ReplaceWal
  <2>2. CASE p = "us"
    <3> DEFINE g == pos.gen + 1
    <3>1. pos' = [pos EXCEPT !.gen = g, !.len = 0, !.frames = None] /\ unvouched' = NoTail
      BY <2>2 DEF ReplaceWal
    <3>2. Fields(pos, PosFields) /\ pos.gen \in Int /\ pos.snapshot \in Int /\ pos.wal \in Int /\ pos.busy \in BOOLEAN
      BY <1>2, PosShape
    <3>3. g \in Int BY <3>2
    <3> HIDE DEF g
    <3>4. /\ Fields(pos', PosFields) /\ pos'.gen = g /\ pos'.len = 0 /\ pos'.frames = None
          /\ pos'.snapshot = pos.snapshot /\ pos'.wal = pos.wal /\ pos'.busy = pos.busy
      BY <3>1, <3>2 DEF Fields, PosFields
    <3>5. pos' \in Positions BY <3>2, <3>3, <3>4, PosShape DEF None
    <3> QED BY <2>2, <3>1, <3>4, <3>5 DEF g
  <2> QED BY <2>1, <2>2
<1>6. unvouched' \in [len : Nat, frames : Nat] BY <1>2, <1>5 DEF NoTail
<1>7. WriterType' /\ writer'.stage = "replaced" /\ writer'.by = p /\ writer.by = p /\ writer.stage = "written"
  BY <1>2 DEF ReplaceWal, WriterType, Stages
<1>8. EngineType' BY <1>1, <1>2, <1>3, <1>4, <1>5, <1>6, <1>7
  DEF EngineType, LeftType, WriterType, Wals, Cursors
<1>9. ~Marked' BY <1>1, <1>2, <1>3, <1>5, <1>7 DEF EngineInv, Marked
<1>10. wal'.synced =< Len(wal'.frames) BY <1>3
<1>11. step.claim.gen \in Int BY DEF Shape, ShapeOf, Claims
<1>12. p = "us" => Up BY <1>7 DEF EngineInv
<1>13. Up => /\ pos'.gen \in Nat /\ step.claim.gen =< pos'.gen
             /\ p = "us" => step.claim.gen # pos'.gen
  BY <1>5, <1>11 DEF EngineInv
<1>14. pos'.snapshot =< snap'.id BY <1>1, <1>5 DEF EngineInv
<1>15. (Up' => eng'.snap = pos'.snapshot /\ eng'.wal = pos'.wal) BY <1>1, <1>5 DEF EngineInv, Up
<1>16. ~Up' => pos' = NoPos /\ writer'.by # "us" BY <1>1, <1>5, <1>7, <1>12 DEF EngineInv, Up
<1> QED BY <1>1, <1>3, <1>5, <1>7, <1>8, <1>9, <1>10, <1>12, <1>13, <1>14, <1>15, <1>16 DEF EngineInv, Up

\* The handle takes its marks from the disk again: its WAL is the empty one.
LEMMA EndSnapshotEngine ==
    ASSUME Shape, EngineInv, NEW p \in Processes, EndSnapshot(p) PROVE EngineInv'
<1>1. UNCHANGED <<snap, wal, floor, left, step>> /\ writer' = Free BY DEF EndSnapshot, worker
<1>2. /\ snap.id \in Nat /\ floor \in Nat /\ wal \in Wals /\ wal.id \in {0, 1} /\ LeftType /\ WriterType
      /\ eng \in Cursors /\ pos \in Positions /\ unvouched \in [len : Nat, frames : Nat]
      /\ wal.synced \in Nat
  BY EngineParts
<1>3. WriterType' /\ writer'.stage = "none" /\ writer'.by = "none"
  BY <1>1 DEF WriterType, Free, Stages
<1>4. CASE p # "us"
  <2>1. UNCHANGED <<eng, pos, unvouched>> BY <1>4 DEF EndSnapshot, engine
  <2> QED BY <1>1, <1>2, <1>3, <2>1, SameEngine DEF LeftType
<1>5. CASE p = "us"
  <2>1. Up /\ wal.frames = << >> /\ unvouched = NoTail /\ step.claim.gen # pos.gen
    BY <1>5 DEF EndSnapshot, EngineInv
  <2>2. Len(wal.frames) = 0 BY <2>1
  <2>3. eng' = [snap |-> snap.id, wal |-> wal.id, consumed |-> 0, total |-> floor, unsettled |-> FALSE]
    <3>1. floor + Len(wal.frames) = floor BY <1>2, <2>2
    <3> QED BY <1>5, <2>2, <3>1 DEF EndSnapshot, Total
  <2>4. /\ eng' \in Cursors /\ eng'.snap = snap.id /\ eng'.wal = wal.id
        /\ eng'.consumed = 0 /\ eng'.total = floor
    BY <1>2, <2>3 DEF Cursors
  <2> DEFINE p1 == [pos EXCEPT !.snapshot = snap.id, !.wal = wal.id, !.busy = FALSE]
             n == eng'.consumed
             k == eng'.total
  <2>5. pos' = [p1 EXCEPT !.len = n, !.frames = k] BY <1>5 DEF EndSnapshot, Synced
  <2>6. n = 0 /\ k = floor BY <2>4
  <2>7. Fields(pos, PosFields) /\ pos.gen \in Int BY <1>2, PosShape
  <2> HIDE DEF n, k
  <2>8. Fields(p1, PosFields) /\ p1.gen = pos.gen /\ p1.snapshot = snap.id /\ p1.wal = wal.id /\ p1.busy = FALSE
    BY <2>7 DEF Fields, PosFields
  <2> HIDE DEF p1
  <2>9. /\ Fields(pos', PosFields) /\ pos'.gen = pos.gen /\ pos'.len = 0 /\ pos'.frames = floor
        /\ pos'.snapshot = snap.id /\ pos'.wal = wal.id /\ pos'.busy = FALSE
    BY <2>5, <2>6, <2>8 DEF Fields, PosFields
  <2>10. pos' \in Positions
    <3>1. /\ pos'.gen \in Int /\ pos'.len \in Nat /\ pos'.frames \in Int
          /\ pos'.snapshot \in Int /\ pos'.wal \in Int
      BY <1>2, <2>7, <2>9
    <3>2. pos'.busy \in BOOLEAN BY <2>9, Zenon
    <3> QED BY <2>9, <3>1, <3>2, PosShape
  <2>11. unvouched' = NoTail BY <1>5, <2>1 DEF EndSnapshot, Synced
  <2>12. unvouched' \in [len : Nat, frames : Nat] BY <2>11 DEF NoTail
  <2>13. EngineType' BY <1>1, <1>2, <1>3, <2>4, <2>10, <2>12
    DEF EngineType, LeftType, WriterType, Wals, Cursors
  <2>14. CursorInv' BY <1>1, <1>2, <2>2, <2>4, <2>9 DEF CursorInv
  <2>15. TailInv' BY <2>11 DEF TailInv
  <2>16. ClaimInv' BY <1>1, <2>1, <2>9 DEF ClaimInv
  <2> QED BY <1>1, <1>2, <1>3, <2>1, <2>4, <2>9, <2>13, <2>14, <2>15, <2>16 DEF EngineInv, Up
<1> QED BY <1>4, <1>5

\* A snapshot that fails leaves what it wrote.
LEMMA SnapshotFailsEngine ==
    ASSUME Shape, EngineInv, NEW p \in Processes, SnapshotFails(p) PROVE EngineInv'
<1>1. UNCHANGED <<snap, wal, floor, unvouched, step>> /\ eng' = eng BY DEF SnapshotFails, worker, store
<1>2. LeftType' BY EngineParts, FaultLeft DEF SnapshotFails
<1>3. WriterType' /\ writer'.stage = "none" /\ writer'.by = "none"
  BY DEF SnapshotFails, WriterType, Free, Stages
<1>4. p = "us" => Up BY DEF SnapshotFails, EngineInv
<1>5. pos' = pos \/ (Up /\ \E x \in BOOLEAN : pos' = [pos EXCEPT !.busy = x]) BY <1>4 DEF SnapshotFails
<1> QED BY <1>1, <1>2, <1>3, <1>5, SameEngine

\* A process that is gone has no marks.
LEMMA DownEngine ==
    ASSUME EngineInv, Down, snap' = snap, floor' = floor, LeftType', WriterType',
           writer'.by # "us", writer'.stage \in {"written", "replaced"} => writer' = writer /\ wal' = wal,
           wal' \in Wals, wal'.synced =< Len(wal'.frames)
    PROVE  EngineInv'
<1>1. snap.id \in Nat /\ floor \in Nat BY EngineParts
<1>2. eng' \in Cursors BY DEF Down, NoEng, Cursors
<1>3. pos' = NoPos /\ pos' \in Positions /\ pos'.snapshot = -1 BY DEF Down, NoPos, Positions, None
<1>4. unvouched' \in [len : Nat, frames : Nat] BY DEF Down, NoTail
<1>5. ~Up'
  <2>1. [NoStep EXCEPT !.pc = "down"].pc = "down" BY DEF NoStep
  <2> QED BY <2>1 DEF Up, Down
<1>6. EngineType' BY <1>1, <1>2, <1>3, <1>4 DEF EngineType, LeftType, WriterType, Wals, Cursors
<1>7. ~Marked' BY <1>1, <1>3 DEF Marked
<1> QED BY <1>1, <1>3, <1>5, <1>6, <1>7 DEF EngineInv

LEMMA KillEngine ==
    ASSUME Shape, EngineInv, NEW p \in Processes, Kill(p) PROVE EngineInv'
<1>1. LeftType' BY EngineParts, FaultLeft DEF Kill
<1>2. WriterType /\ wal \in Wals BY EngineParts
<1>3. UNCHANGED <<snap, wal, floor>> BY DEF Kill, store
<1>4. WriterType' /\ (writer' = writer \/ (writer'.stage = "none" /\ writer'.by = "none"))
  BY <1>2 DEF Kill, WriterType, Free, Stages
<1>5. CASE p = "us"
  <2>1. Down BY <1>5 DEF Kill
  <2>2. writer'.by # "us" BY <1>5 DEF Kill, Free
  <2>3. wal'.synced =< Len(wal'.frames) BY <1>3 DEF EngineInv
  <2> QED BY <1>1, <1>2, <1>3, <1>4, <2>1, <2>2, <2>3, DownEngine
<1>6. CASE p # "us"
  <2>1. UNCHANGED <<eng, pos, unvouched, step>> BY <1>6 DEF Kill, engine, worker
  <2>2. writer' = Free BY <1>6 DEF Kill
  <2>3. writer'.stage = "none" /\ writer'.by = "none" BY <2>2 DEF Free
  <2> QED BY <1>1, <1>3, <1>4, <2>1, <2>3, SameEngine
<1> QED BY <1>5, <1>6

LEMMA PowerEngine == ASSUME Shape, EngineInv, PowerLoss PROVE EngineInv'
<1>1. LeftType' BY EngineParts, FaultLeft DEF PowerLoss
<1>2. wal \in Wals /\ wal.synced \in Nat /\ Len(wal.frames) \in Nat BY EngineParts
<1>3. snap' = snap /\ floor' = floor /\ Down /\ writer' = Free BY DEF PowerLoss
<1>4. WriterType' /\ writer'.stage = "none" /\ writer'.by = "none" BY <1>3 DEF WriterType, Free, Stages
<1>5. PICK k \in wal.synced .. Len(wal.frames) : wal' = [wal EXCEPT !.frames = SubSeq(@, 1, k), !.synced = k]
  BY DEF PowerLoss
<1>6. wal' \in Wals /\ wal'.synced =< Len(wal'.frames)
  <2> DEFINE f == wal.frames
             g == SubSeq(f, 1, k)
  <2>1. f \in Seq(Nat) /\ k \in 0 .. Len(f) BY <1>2, <1>5 DEF Wals
  <2>2. wal' = [wal EXCEPT !.frames = g, !.synced = k] BY <1>5
  <2> HIDE DEF f
  <2>3. g \in Seq(Nat) /\ Len(g) = k BY <2>1, SubSeqProperties
  <2> HIDE DEF g
  <2>4. wal'.id = wal.id /\ wal'.synced = k /\ wal'.frames = g BY <1>2, <2>2 DEF Wals
  <2>5. k \in Nat BY <2>1
  <2>6. wal' \in Wals
    <3>1. wal' = [id |-> wal.id, frames |-> g, synced |-> k] BY <1>2, <2>2 DEF Wals
    <3>2. wal.id \in {0, 1} BY EngineParts
    <3> QED BY <2>3, <2>5, <3>1, <3>2 DEF Wals
  <2> QED BY <2>3, <2>4, <2>5, <2>6
<1> QED BY <1>1, <1>3, <1>4, <1>6, DownEngine

\* A process that starts loads.
LEMMA BootEngine == ASSUME Shape, EngineInv, Boot PROVE EngineInv'
<1>1. UNCHANGED <<snap, wal, floor, left, writer>> /\ Load(0) /\ ~Up /\ step' = NoStep
  BY DEF Boot, store
<1>2. EngineType /\ wal.synced \in Nat /\ Len(wal.frames) \in Nat /\ floor \in Nat
  BY EngineParts DEF EngineInv
<1>3. /\ eng' \in Cursors /\ eng'.snap = snap.id /\ eng'.wal = wal.id
      /\ eng'.consumed = Len(wal.frames) /\ eng'.total = floor + Len(wal.frames)
      /\ pos' \in Positions /\ pos'.gen = 0 /\ pos'.len = 0 /\ pos'.frames = floor
      /\ pos'.snapshot = snap.id /\ pos'.wal = wal.id
      /\ unvouched' \in [len : Nat, frames : Nat]
      /\ unvouched' # NoTail => /\ unvouched'.len = Len(wal.frames)
                                /\ unvouched'.frames = floor + Len(wal.frames)
  BY <1>1, <1>2, LoadFacts
<1>4. step'.claim.gen = -1 /\ Up' BY <1>1, StepRecords DEF Up
<1>5. EngineType' BY <1>1, <1>2, <1>3 DEF EngineType, Cursors
<1>6. CursorInv' BY <1>1, <1>2, <1>3 DEF CursorInv
<1>7. TailInv' BY <1>1, <1>2, <1>3 DEF TailInv
<1>8. ClaimInv' BY <1>3, <1>4 DEF ClaimInv
<1>9. writer.by # "us" BY <1>1 DEF EngineInv
<1>10. snap.id \in Nat BY EngineParts
<1> QED BY <1>1, <1>3, <1>4, <1>5, <1>6, <1>7, <1>8, <1>9, <1>10 DEF EngineInv

\* A writer takes the lock.
LEMMA LockEngine ==
    ASSUME Shape, EngineInv, NEW p \in Processes, Lock(p) PROVE EngineInv'
<1>1. UNCHANGED <<store, left, step>> /\ writer = Free BY DEF Lock, worker
<1>2. WriterType' /\ writer'.stage = "locked" /\ writer'.by = p
  BY DEF Lock, WriterType, Stages, Processes
<1>3. LeftType' BY <1>1, EngineParts DEF LeftType
<1>4. CASE p = "us"
  <2>1. Up /\ RefreshChecking(TRUE) BY <1>4 DEF Lock
  <2>2. Up' BY <1>1, <2>1 DEF Up
  <2> QED BY <1>1, <1>2, <1>3, <2>1, <2>2, RefreshEngine
<1>5. CASE p # "us"
  <2>1. UNCHANGED <<eng, pos, unvouched>> BY <1>5 DEF Lock, engine
  <2>2. UNCHANGED <<snap, wal, floor>> BY <1>1 DEF store
  <2> QED BY <1>1, <1>2, <1>3, <1>5, <2>1, <2>2, SameEngine
<1> QED BY <1>4, <1>5

-----------------------------------------------------------------------------
(* The invariant and what follows.                                         *)

LEMMA InitIInv == Init => IInv
<1> SUFFICES ASSUME Init PROVE IInv OBVIOUS
<1>1. step = NoStep /\ job = NoJob BY DEF Init
<1>2. /\ ShapeOf(step) /\ Fields(job, JobFields) /\ job.gen = NoGen /\ Fields(job.gen, GenFields)
      /\ step.pc = "idle" /\ step.claim = NoClaim /\ step.claim.gen = -1
  BY <1>1, StepRecords
<1>3. /\ Fields(bucket, BucketFields) /\ bucket.mans = {} /\ bucket.latest = None
  BY DEF Init, Fields, BucketFields
<1>4. Whole(job.gen, bucket)
  <2>1. << >> \in Seq(bucket.segs) OBVIOUS
  <2> QED BY <1>2, <2>1, StepRecords DEF Whole
<1>5. PointInv BY <1>2, <1>3, <1>4 DEF PointInv
<1>6. Shape BY <1>2, <1>3 DEF Shape
<1>7. wal \in Wals /\ wal.id = 0 /\ wal.synced = 0 /\ Len(wal.frames) = 0
  <2> DEFINE f == << >>
  <2>1. f \in Seq(Nat) /\ Len(f) = 0 OBVIOUS
  <2>2. wal = [id |-> 0, frames |-> f, synced |-> 0] BY DEF Init
  <2> HIDE DEF f
  <2> QED BY <2>1, <2>2 DEF Wals
<1>8. snap.id = 0 /\ floor = 0 BY DEF Init, NoSnap
<1>9. WriterType /\ writer.stage = "none" /\ writer.by = "none" BY DEF Init, Free, WriterType, Stages
<1>10. eng \in Cursors /\ eng.snap = 0 /\ eng.wal = 0 /\ eng.consumed = 0 /\ eng.total = 0
  BY DEF Init, NoEng, Cursors
<1>11. /\ pos \in Positions /\ pos.gen = 0 /\ pos.len = 0 /\ pos.frames = 0 /\ pos.snapshot = 0
       /\ pos.wal = 0
  BY DEF Init, Positions
<1>12. unvouched = NoTail /\ unvouched \in [len : Nat, frames : Nat] BY DEF Init, NoTail
<1>13. LeftType BY BackupAssumption DEF Init, LeftType
<1>14. EngineType BY <1>7, <1>8, <1>9, <1>10, <1>11, <1>12, <1>13
  DEF EngineType, LeftType, WriterType, Wals, Cursors
<1>15. CursorInv /\ TailInv /\ ClaimInv
  BY <1>2, <1>7, <1>8, <1>10, <1>11, <1>12 DEF CursorInv, TailInv, ClaimInv
<1>16. EngineInv
  BY <1>2, <1>7, <1>8, <1>9, <1>10, <1>11, <1>12, <1>14, <1>15 DEF EngineInv, Up
<1> QED BY <1>5, <1>6, <1>16 DEF IInv

\* A step of the worker.
LEMMA WorkingEngine == ASSUME Shape, EngineInv, Working PROVE EngineInv'
<1>1. /\ ShapeOf(step') /\ step'.pc # "down"
      /\ ~Unvouched /\ ~FsyncWal => step'.claim = NoClaim
  BY WorkerShape DEF EngineInv
<1>2. CASE Unvouched BY <1>1, <1>2, UnvouchedEngine
<1>3. CASE FsyncWal BY <1>1, <1>3, FsyncEngine
<1>4. ASSUME Position, step'.claim = NoClaim PROVE EngineInv' BY <1>1, <1>4, PositionEngine
<1>5. ASSUME CatchUp, step'.claim = NoClaim PROVE EngineInv'
  <2>1. /\ UNCHANGED <<store, left, writer>> /\ RefreshChecking(FALSE) /\ Up
        /\ writer.by # "us" \/ writer.stage = "appended"
    BY <1>5 DEF CatchUp, MayRefresh
  <2>2. LeftType' /\ WriterType' BY <2>1, EngineParts DEF LeftType, WriterType
  <2>3. ~(writer'.stage = "replaced" /\ writer'.by = "us") BY <2>1
  <2>4. Up' BY <1>1 DEF Up
  <2> QED BY <1>5, <2>1, <2>2, <2>3, <2>4, RefreshEngine
<1>6. ASSUME step'.claim = NoClaim,
             \/ ObserveSnapshot \/ ObserveWal \/ ObserveIntent \/ StartStep \/ Resume
             \/ OpenSnapshot \/ ReadChain \/ BaseRead \/ ReadSegment \/ Due \/ NotDue \/ Retain
      PROVE  EngineInv'
  <2>1. UNCHANGED outside /\ Up
    BY <1>6 DEF ObserveSnapshot, ObserveWal, ObserveIntent, StartStep, Resume, OpenSnapshot,
       ReadChain, BaseRead, ReadSegment, Due, NotDue, Retain, Up
  <2>2. UNCHANGED <<store, left, writer, engine>> BY <2>1 DEF outside
  <2>3. LeftType' BY <2>2, EngineParts DEF LeftType
  <2> QED BY <1>1, <1>6, <2>1, <2>2, <2>3, QuietEngine DEF Up
<1>7. ASSUME step'.claim = NoClaim,
             PutSnapshot \/ PutSegment \/ PutManifest \/ PutLatest \/ DeleteManifest \/ DeleteObjects
      PROVE  EngineInv'
  <2>1. UNCHANGED local /\ Up
    BY <1>7 DEF PutSnapshot, PutSegment, PutManifest, PutLatest, DeleteManifest, DeleteObjects, Up
  <2>2. UNCHANGED left \/ Fault("bucket")
    BY <1>7 DEF PutSnapshot, PutSegment, PutManifest, PutLatest, DeleteManifest, DeleteObjects,
       Answered, Fails, Conflict
  <2>3. LeftType' BY <2>2, EngineParts, FaultLeft DEF LeftType
  <2>4. UNCHANGED <<store, writer, engine>> BY <2>1 DEF local
  <2> QED BY <1>1, <1>7, <2>1, <2>3, <2>4, QuietEngine DEF Up
<1> QED BY <1>1, <1>2, <1>3, <1>4, <1>5, <1>6, <1>7 DEF Working

LEMMA NextIInv == IInv /\ [Next]_vars => IInv'
<1> SUFFICES ASSUME IInv, [Next]_vars PROVE IInv' OBVIOUS
<1>1. Shape /\ PointInv /\ EngineInv /\ EngineType BY DEF IInv, EngineInv
<1>2. ASSUME NEW p \in Processes, Lock(p) \/ Writing(p) \/ SnapshotFails(p) \/ Kill(p) PROVE IInv'
  <2>1. UNCHANGED <<worker, bucket>> \/ (Down /\ UNCHANGED bucket)
    <3>1. CASE Kill(p) BY <3>1 DEF Kill
    <3>2. CASE Lock(p) BY <3>2 DEF Lock
    <3>3. CASE SnapshotFails(p) BY <3>3 DEF SnapshotFails
    <3>4. CASE Writing(p)
      BY <3>4 DEF Writing, AppendFrame, EndScope, BeginSnapshot, WriteSnapshot, ReplaceWal, EndSnapshot
    <3> QED BY <1>2, <3>1, <3>2, <3>3, <3>4
  <2>2. Shape' /\ PointInv' BY <1>1, <2>1, StorePoint
  <2>3. EngineInv'
    BY <1>1, <1>2, LockEngine, AppendEngine, EndScopeEngine, BeginEngine, WriteEngine, ReplaceEngine,
       EndSnapshotEngine, SnapshotFailsEngine, KillEngine DEF Writing
  <2> QED BY <2>2, <2>3 DEF IInv
<1>3. CASE PowerLoss
  <2>1. Shape' /\ PointInv' BY <1>1, <1>3, StorePoint DEF PowerLoss
  <2> QED BY <1>1, <1>3, <2>1, PowerEngine DEF IInv
<1>4. CASE Boot BY <1>1, <1>4, StorePoint, BootEngine DEF IInv
<1>5. CASE Refresh
  <2>1. /\ UNCHANGED <<store, left, writer, worker, bucket>> /\ RefreshChecking(FALSE) /\ Up
        /\ writer.by # "us" \/ writer.stage = "appended"
    BY <1>5 DEF Refresh, MayRefresh
  <2>2. Shape' /\ PointInv' BY <1>1, <2>1, StorePoint
  <2>3. LeftType' /\ WriterType' /\ step' = step
    BY <1>1, <2>1, EngineParts DEF LeftType, WriterType, worker
  <2>4. ~(writer'.stage = "replaced" /\ writer'.by = "us") /\ Up' BY <2>1, <2>3 DEF Up
  <2>5. EngineInv' BY <1>1, <2>1, <2>3, <2>4, RefreshEngine
  <2> QED BY <2>2, <2>5 DEF IInv
<1>6. CASE Working BY <1>1, <1>6, WorkingPoint, WorkingEngine DEF IInv
<1>7. CASE UNCHANGED vars
  <2>1. UNCHANGED <<snap, wal, intent, floor, left, writer, eng, pos, unvouched, step, job, bucket>>
    BY <1>7 DEF vars, store, engine, worker
  <2>2. Shape' /\ PointInv' BY <1>1, <2>1 DEF Shape, PointInv
  <2>3. EngineType' BY <1>1, <2>1 DEF EngineType
  <2>4. EngineInv' BY <1>1, <2>1, <2>3 DEF EngineInv, Marked, CursorInv, TailInv, ClaimInv, Up
  <2> QED BY <2>2, <2>4 DEF IInv
<1> QED BY <1>2, <1>3, <1>4, <1>5, <1>6, <1>7 DEF Next

\* The invariant holds in every state the store, the engine and the worker reach.
THEOREM Invariance == Spec => []IInv
BY InitIInv, NextIInv, PTL DEF Spec

\* worker.rs, Objects and ordering: whatever fails or crashes between two of the
\* requests of upload_base, ship_segments, write_manifest and apply_retention, a
\* manifest's objects are all in the bucket and LATEST names a manifest.
THEOREM PointsAreComplete == Spec => []PointIsComplete
<1>1. IInv => PointIsComplete
  <2> SUFFICES ASSUME IInv PROVE PointIsComplete OBVIOUS
  <2>1. PointInv BY DEF IInv
  <2>2. ASSUME NEW m \in bucket.mans
        PROVE  /\ m.snap # 0 => \E o \in bucket.snaps : o.num = m.num
               /\ Range(m.segs) \subseteq bucket.segs
    <3>1. Whole(m, bucket) BY <2>1 DEF PointInv
    <3>2. Range(m.segs) \subseteq bucket.segs
      <4> DEFINE r == m.segs
                 S == bucket.segs
      <4>1. r \in Seq(S) BY <3>1 DEF Whole
      <4> HIDE DEF r, S
      <4>2. Range(r) \subseteq S BY <4>1 DEF Range
      <4> QED BY <4>2 DEF r, S
    <3> QED BY <3>1, <3>2 DEF Whole
  <2>3. bucket.latest # None => \E m \in bucket.mans : m.n = bucket.latest BY <2>1 DEF PointInv
  <2> QED BY <2>2, <2>3 DEF PointIsComplete
<1> QED BY <1>1, Invariance, PTL

\* DurableWal::vouch: while the handle's marks are the files' own, what it
\* vouches for has been fsynced in that WAL, and its count is the commits there.
THEOREM VouchedBytesAreDurable == Spec => []VouchedIsDurable
<1>1. IInv => VouchedIsDurable BY DEF IInv, EngineInv, Marked, CursorInv, VouchedIsDurable, Current
<1> QED BY <1>1, Invariance, PTL

-----------------------------------------------------------------------------
(* The store.                                                              *)

\* The commits of the store in their order: the ones before the WAL, the WAL.
Line == SubSeq(snap.state, 1, floor) \o wal.frames

Records == [state : Seq(Nat), frames : Seq(Nat)]

\* s is a beginning of t; the commits of q fall, as the numbers left to give do;
\* f is what q has from place n + 1 on; f is the end of q.
Begins(s, t) == Len(s) =< Len(t) /\ \A i \in 1 .. Len(s) : s[i] = t[i]
Falls(q) == \A i, j \in 1 .. Len(q) : i < j => q[i] > q[j]
At(f, n, q) == n + Len(f) =< Len(q) /\ \A i \in 1 .. Len(f) : f[i] = q[n + i]
Ends(f, q)  == Len(f) =< Len(q) /\ At(f, Len(q) - Len(f), q)

\* The snapshot is the beginning of the line; every commit is there once.
StoreType == snap \in [id : Nat, state : Seq(Nat)] /\ intent \in SUBSET Records
LineInv   == floor =< Len(snap.state) /\ Begins(snap.state, Line)
Falling   == /\ \A i \in 1 .. Len(Line) : Line[i] > left.commits
             /\ Falls(Line)

\* A record of the intent file ends where its snapshot does; the frames of the
\* WAL that the snapshot holds have a record.
RecordInv == \A r \in intent : Ends(r.frames, r.state)
Pending   == [state |-> snap.state, frames |-> SubSeq(wal.frames, 1, Len(snap.state) - floor)]
HeldInv   == Len(snap.state) > floor => Pending \in intent

StageInv ==
    /\ writer.stage = "begun" => [state |-> Line, frames |-> wal.frames] \in intent
    /\ writer.stage = "written" => Len(snap.state) = Len(Line)
    /\ writer.stage = "replaced" => Len(snap.state) = floor
    /\ snap.id = 0 => snap.state = << >>
    /\ "power" \in Faults => Len(snap.state) =< floor + wal.synced

StoreInv == StoreType /\ LineInv /\ Falling /\ RecordInv /\ HeldInv /\ StageInv

\* A snapshot is taken of a WAL on stable storage, where the power may fail.
SyncedSnapshots == "power" \in Faults /\ writer.stage = "begun" => wal.synced = Len(wal.frames)

-----------------------------------------------------------------------------
(* Sequences.                                                              *)

LEMMA SubFacts ==
    ASSUME NEW s \in Seq(Nat), NEW a \in Nat, NEW b \in Nat, b =< Len(s)
    PROVE  /\ SubSeq(s, a + 1, b) \in Seq(Nat)
           /\ a =< b => /\ Len(SubSeq(s, a + 1, b)) = b - a
                        /\ \A i \in 1 .. (b - a) : SubSeq(s, a + 1, b)[i] = s[a + i]
           /\ b =< a => SubSeq(s, a + 1, b) = << >>
<1>0. Len(s) \in Nat OBVIOUS
<1>1. CASE b =< a
  <2>1. a + 1 > b BY <1>1
  <2>2. SubSeq(s, a + 1, b) = << >> BY <2>1, SubSeqEmpty
  <2> QED BY <1>1, <2>2
<1>2. CASE a < b
  <2>1. a + 1 \in 1 .. Len(s) + 1 /\ b \in (a + 1) - 1 .. Len(s) BY <1>0, <1>2
  <2> DEFINE q == SubSeq(s, a + 1, b)
  <2>2. q \in Seq(Nat) /\ Len(q) = b - (a + 1) + 1
    BY <1>0, <1>2
  <2>3. \A i \in 1 .. b - (a + 1) + 1 : q[i] = s[(a + 1) + i - 1]
    BY <1>0, <1>2
  <2>4. b - (a + 1) + 1 = b - a /\ \A i \in Nat : (a + 1) + i - 1 = a + i BY <1>2
  <2> HIDE DEF q
  <2>5. \A i \in 1 .. (b - a) : q[i] = s[a + i] BY <2>3, <2>4
  <2> QED BY <1>2, <2>2, <2>4, <2>5 DEF q
<1> QED BY <1>1, <1>2

LEMMA Element == ASSUME NEW s \in Seq(Nat), NEW i \in 1 .. Len(s) PROVE s[i] \in Nat
OBVIOUS

LEMMA First == ASSUME NEW n \in Nat, n # 0, NEW m \in Nat, n =< m PROVE 1 \in 1 .. n /\ 1 \in 1 .. m
OBVIOUS

LEMMA JoinFacts ==
    ASSUME NEW s \in Seq(Nat), NEW t \in Seq(Nat)
    PROVE  /\ s \o t \in Seq(Nat) /\ Len(s \o t) = Len(s) + Len(t)
           /\ \A i \in 1 .. Len(s) : (s \o t)[i] = s[i]
           /\ \A i \in 1 .. Len(t) : (s \o t)[Len(s) + i] = t[i]
OBVIOUS

\* An order on numbers, and what a sum keeps of it.
LEMMA Reaches == ASSUME NEW a \in Int, NEW b \in Nat, NEW c \in Nat, a =< b, b =< c PROVE a =< c
OBVIOUS

LEMMA Meets == ASSUME NEW a \in Int, NEW b \in Nat, NEW c \in Nat, a =< b, b =< c, a = c PROVE b = c /\ a = b
OBVIOUS

LEMMA Between ==
    ASSUME NEW x \in Nat, NEW y \in Nat, NEW z \in Nat, NEW n \in Nat, NEW u \in Nat, y < z, z =< n, u = z - y
    PROVE  x + y + u =< x + n
<1>1. y + u = z OBVIOUS
<1>2. x + y + u = x + z BY <1>1
<1> QED BY <1>2

LEMMA Cutting ==
    ASSUME NEW s \in Seq(Nat), NEW n \in Nat, n =< Len(s)
    PROVE  SubSeq(s, 1, n) \in Seq(Nat) /\ Len(SubSeq(s, 1, n)) = n /\ \A i \in 1 .. n : SubSeq(s, 1, n)[i] = s[i]
<1>1. 0 + 1 = 1 /\ 0 =< n /\ n - 0 = n /\ \A i \in 1 .. n : 0 + i = i OBVIOUS
<1>2. /\ SubSeq(s, 0 + 1, n) \in Seq(Nat) /\ Len(SubSeq(s, 0 + 1, n)) = n - 0
      /\ \A i \in 1 .. (n - 0) : SubSeq(s, 0 + 1, n)[i] = s[0 + i]
  BY <1>1, SubFacts
<1> QED BY <1>1, <1>2

LEMMA SameSeq ==
    ASSUME NEW s \in Seq(Nat), NEW t \in Seq(Nat), Len(s) = Len(t),
           \A i \in 1 .. Len(s) : s[i] = t[i]
    PROVE  s = t
OBVIOUS

\* IsPrefix, place by place.
LEMMA PrefixIs ==
    ASSUME NEW s \in Seq(Nat), NEW t \in Seq(Nat)
    PROVE  IsPrefix(s, t) <=> Begins(s, t)
<1>0. Len(s) \in Nat /\ Len(t) \in Nat OBVIOUS
<1>1. SubSeq(s, 1, Len(s)) = s OBVIOUS
<1>2. ASSUME Len(s) =< Len(t)
      PROVE  /\ SubSeq(t, 1, Len(s)) \in Seq(Nat) /\ Len(SubSeq(t, 1, Len(s))) = Len(s)
             /\ \A i \in 1 .. Len(s) : SubSeq(t, 1, Len(s))[i] = t[i]
  BY <1>0, <1>2
<1>3. ASSUME IsPrefix(s, t) PROVE Begins(s, t)
  BY <1>0, <1>1, <1>2, <1>3 DEF IsPrefix, Begins
<1>4. ASSUME Begins(s, t) PROVE IsPrefix(s, t)
  <2>1. Len(s) =< Len(t) /\ \A i \in 1 .. Len(s) : s[i] = t[i] BY <1>4 DEF Begins
  <2>2. s = SubSeq(t, 1, Len(s)) BY <1>2, <2>1, SameSeq
  <2> QED BY <1>1, <2>1, <2>2 DEF IsPrefix
<1> QED BY <1>3, <1>4

\* What q has from a place on, a sequence that q begins has too.
LEMMA AtGrows ==
    ASSUME NEW f \in Seq(Nat), NEW n \in Nat, NEW q \in Seq(Nat), NEW r \in Seq(Nat),
           At(f, n, q), Begins(q, r)
    PROVE  At(f, n, r)
<1>1. Len(f) \in Nat /\ Len(q) \in Nat /\ Len(r) \in Nat OBVIOUS
<1>2. n + Len(f) =< Len(r) BY <1>1 DEF At, Begins
<1>3. ASSUME NEW i \in 1 .. Len(f) PROVE f[i] = r[n + i]
  <2>1. n + i \in 1 .. Len(q) BY <1>1 DEF At
  <2> QED BY <2>1 DEF At, Begins
<1> QED BY <1>2, <1>3 DEF At

LEMMA BeginsBoth ==
    ASSUME NEW f \in Seq(Nat), NEW q \in Seq(Nat), NEW r \in Seq(Nat), Begins(f, r), Begins(q, r), Len(f) =< Len(q)
    PROVE  Begins(f, q)
<1>1. Len(f) \in Nat /\ Len(q) \in Nat OBVIOUS
<1>2. ASSUME NEW i \in 1 .. Len(f) PROVE f[i] = q[i]
  <2>1. i \in 1 .. Len(q) BY <1>1
  <2> QED BY <2>1 DEF Begins
<1> QED BY <1>2 DEF Begins

LEMMA BeginsGrows ==
    ASSUME NEW f \in Seq(Nat), NEW q \in Seq(Nat), NEW r \in Seq(Nat), Begins(f, q), Begins(q, r)
    PROVE  Begins(f, r)
<1>1. Len(f) \in Nat /\ Len(q) \in Nat /\ Len(r) \in Nat OBVIOUS
<1> QED BY <1>1 DEF Begins

-----------------------------------------------------------------------------
(* What an open makes of the store.                                        *)

StoreParts == EngineType /\ wal.synced =< Len(wal.frames)

LEMMA LineIs ==
    ASSUME StoreParts, StoreType, floor =< Len(snap.state)
    PROVE  /\ Line \in Seq(Nat) /\ Len(Line) = floor + Len(wal.frames) /\ floor \in Nat
           /\ Len(wal.frames) \in Nat /\ wal.frames \in Seq(Nat) /\ wal.synced \in Nat
           /\ snap.state \in Seq(Nat) /\ Len(snap.state) \in Nat
           /\ \A i \in 1 .. floor : Line[i] = snap.state[i]
           /\ \A i \in 1 .. Len(wal.frames) : Line[floor + i] = wal.frames[i]
<1>1. /\ floor \in Nat /\ wal.frames \in Seq(Nat) /\ Len(wal.frames) \in Nat /\ wal.synced \in Nat
      /\ snap.state \in Seq(Nat) /\ Len(snap.state) \in Nat
  BY DEF StoreParts, EngineType, StoreType
<1> DEFINE s == SubSeq(snap.state, 1, floor)
<1>2. s \in Seq(Nat) /\ Len(s) = floor /\ \A i \in 1 .. floor : s[i] = snap.state[i] BY <1>1
<1> HIDE DEF s
<1>3. /\ s \o wal.frames \in Seq(Nat) /\ Len(s \o wal.frames) = Len(s) + Len(wal.frames)
      /\ \A i \in 1 .. Len(s) : (s \o wal.frames)[i] = s[i]
      /\ \A i \in 1 .. Len(wal.frames) : (s \o wal.frames)[Len(s) + i] = wal.frames[i]
  BY <1>1, <1>2, JoinFacts
<1>4. Line = s \o wal.frames BY DEF Line, s
<1> QED BY <1>1, <1>2, <1>3, <1>4

\* The line L of a snapshot s and a WAL w that begins after its first n commits.
Chain(L, s, w, n) ==
    /\ L \in Seq(Nat) /\ s \in Seq(Nat) /\ w \in Seq(Nat) /\ n \in Nat
    /\ n =< Len(s) /\ Len(L) = n + Len(w) /\ Begins(s, L) /\ At(w, n, L)

\* The snapshot, and after it the WAL up to b.
Joined(s, w, n, b) == s \o SubSeq(w, Len(s) - n + 1, b)

LEMMA Opened ==
    ASSUME NEW L, NEW s, NEW w, NEW n, Chain(L, s, w, n), NEW b \in Nat, b =< Len(w)
    PROVE  /\ Joined(s, w, n, b) \in Seq(Nat) /\ Begins(Joined(s, w, n, b), L)
           /\ Len(Joined(s, w, n, b)) = IF Len(s) > n + b THEN Len(s) ELSE n + b
<1>0. /\ L \in Seq(Nat) /\ s \in Seq(Nat) /\ w \in Seq(Nat) /\ n \in Nat
      /\ n =< Len(s) /\ Len(L) = n + Len(w) /\ Begins(s, L) /\ At(w, n, L)
  BY DEF Chain
<1> DEFINE k == Len(s) - n
           q == Joined(s, w, n, b)
<1>0a. q = s \o SubSeq(w, k + 1, b) BY DEF Joined
<1>0b. k = Len(s) - n OBVIOUS
<1> HIDE DEF k, q
<1>1. Len(s) \in Nat /\ Len(w) \in Nat /\ Len(L) \in Nat /\ k \in Nat BY <1>0, <1>0b
<1>2. Len(s) =< Len(L) /\ \A i \in 1 .. Len(s) : s[i] = L[i] BY <1>0 DEF Begins
<1> DEFINE t == SubSeq(w, k + 1, b)
<1>3. /\ t \in Seq(Nat)
      /\ k =< b => Len(t) = b - k /\ \A i \in 1 .. (b - k) : t[i] = w[k + i]
      /\ b =< k => t = << >>
  BY <1>0, <1>1, SubFacts
<1> HIDE DEF t
<1>4. /\ q \in Seq(Nat) /\ Len(q) = Len(s) + Len(t)
      /\ \A i \in 1 .. Len(s) : q[i] = s[i]
      /\ \A i \in 1 .. Len(t) : q[Len(s) + i] = t[i]
  <2>1. q = s \o t BY <1>0a DEF t
  <2>2. s \in Seq(Nat) /\ t \in Seq(Nat) BY <1>0, <1>3
  <2> QED BY ONLY <2>1, <2>2, JoinFacts
<1>5. CASE b =< k
  <2>1. Len(t) = 0 BY <1>3, <1>5
  <2>2. Len(q) = Len(s) BY <1>1, <1>4, <2>1
  <2>3. ~(Len(s) > n + b) => n + b = Len(s) BY <1>1, <1>0b, <1>0, <1>5
  <2>4. Begins(q, L)
    <3>1. \A i \in 1 .. Len(q) : q[i] = L[i] BY <1>2, <1>4, <2>2
    <3> QED BY <1>2, <2>2, <3>1 DEF Begins
  <2> QED BY <1>4, <2>2, <2>3, <2>4 DEF q
<1>6. CASE k < b
  <2>1. Len(t) = b - k /\ \A i \in 1 .. (b - k) : t[i] = w[k + i] BY <1>1, <1>3, <1>6
  <2>2. Len(q) = n + b /\ ~(Len(s) > n + b) /\ n + b =< Len(L) BY <1>1, <1>0b, <1>0, <1>4, <1>6, <2>1
  <2>3. ASSUME NEW i \in 1 .. (n + b) PROVE q[i] = L[i]
    <3>1. CASE ~(i > Len(s))
      <4>1. i \in 1 .. Len(s) BY <1>1, <3>1
      <4> QED BY <1>2, <1>4, <4>1
    <3>2. CASE i > Len(s)
      <4> DEFINE j == i - Len(s)
      <4>1. j \in 1 .. (b - k) /\ i = Len(s) + j /\ k + j \in 1 .. Len(w) /\ n + (k + j) = i
        BY <1>1, <1>0b, <1>0, <1>6, <3>2
      <4> HIDE DEF j
      <4>2. q[i] = t[j] /\ t[j] = w[k + j] BY <1>4, <2>1, <4>1
      <4>3. w[k + j] = L[n + (k + j)] BY <1>0, <4>1 DEF At
      <4> QED BY <4>1, <4>2, <4>3
    <3> QED BY <3>1, <3>2
  <2>4. Begins(q, L) BY <2>2, <2>3 DEF Begins
  <2> QED BY <1>4, <2>2, <2>4 DEF q
<1> QED BY <1>1, <1>5, <1>6 DEF q

\* A record whose snapshot is this one and whose frames begin the WAL says how
\* many of them the snapshot holds, or names none.
LEMMA Naming ==
    ASSUME NEW L, NEW s, NEW w, NEW n, Chain(L, s, w, n), Falls(L), NEW f \in Seq(Nat), Begins(f, w), Ends(f, s)
    PROVE  Len(f) = 0 \/ Len(f) = Len(s) - n
<1>0. /\ L \in Seq(Nat) /\ s \in Seq(Nat) /\ w \in Seq(Nat) /\ n \in Nat
      /\ Len(L) = n + Len(w) /\ Begins(s, L) /\ At(w, n, L)
  BY DEF Chain
<1>1. Len(s) \in Nat /\ Len(w) \in Nat /\ Len(L) \in Nat /\ Len(f) \in Nat BY <1>0
<1> SUFFICES ASSUME Len(f) # 0 PROVE Len(f) = Len(s) - n
  OBVIOUS
<1>2. Len(f) =< Len(w) BY DEF Begins
<1>3a. 1 \in 1 .. Len(f) /\ 1 \in 1 .. Len(w) BY <1>1, <1>2, First
<1>3. f[1] = w[1] /\ w[1] = L[n + 1] BY <1>0, <1>3a DEF Begins, At
<1> DEFINE c == Len(s) - Len(f)
           a == c + 1
<1>4. f[1] = s[a] BY <1>3a DEF Ends, At
<1>5. a \in 1 .. Len(s) /\ a \in Int BY <1>1, <1>3a DEF Ends
<1> HIDE DEF a
<1>6. Len(s) =< Len(L) /\ s[a] = L[a] BY <1>0, <1>5 DEF Begins
<1>7. a \in 1 .. Len(L) /\ n + 1 \in 1 .. Len(L) BY <1>0, <1>1, <1>2, <1>3a, <1>5, <1>6
<1>8. L[a] \in Nat /\ L[n + 1] = L[a]
  <2>1. L[a] \in Nat BY <1>0, <1>7, Element
  <2> QED BY <1>3, <1>4, <1>6, <2>1
<1>9. ~(a < n + 1) /\ ~(n + 1 < a)
  <2>1. ~(L[a] > L[n + 1]) /\ ~(L[n + 1] > L[a]) BY <1>8
  <2> QED BY <1>7, <2>1 DEF Falls
<1>10. a = n + 1 BY <1>0, <1>5, <1>9
<1> QED BY <1>0, <1>1, <1>10 DEF a

\* The commits on stable storage.
DurableLen == IF Len(snap.state) > floor + wal.synced THEN Len(snap.state) ELSE floor + wal.synced

\* The files, in the terms of the lemmas above.
LEMMA Files ==
    ASSUME StoreParts, StoreInv
    PROVE  /\ Line \in Seq(Nat) /\ Len(Line) = floor + Len(wal.frames) /\ floor \in Nat
           /\ Len(wal.frames) \in Nat /\ wal.frames \in Seq(Nat)
           /\ snap.state \in Seq(Nat) /\ Len(snap.state) \in Nat
           /\ wal.synced \in Nat /\ wal.synced =< Len(wal.frames)
           /\ At(wal.frames, floor, Line) /\ Begins(snap.state, Line)
           /\ floor =< Len(snap.state) /\ Len(snap.state) =< Len(Line)
           /\ Chain(Line, snap.state, wal.frames, floor)
<1>1. floor =< Len(snap.state) /\ Begins(snap.state, Line) /\ StoreType BY DEF StoreInv, LineInv
<1>2. /\ Line \in Seq(Nat) /\ Len(Line) = floor + Len(wal.frames) /\ floor \in Nat
      /\ Len(wal.frames) \in Nat /\ wal.frames \in Seq(Nat) /\ wal.synced \in Nat
      /\ snap.state \in Seq(Nat) /\ Len(snap.state) \in Nat
      /\ \A i \in 1 .. Len(wal.frames) : Line[floor + i] = wal.frames[i]
  BY <1>1, LineIs
<1>3. At(wal.frames, floor, Line) BY <1>2 DEF At
<1>4. Len(snap.state) =< Len(Line) BY <1>1 DEF Begins
<1> QED BY <1>1, <1>2, <1>3, <1>4 DEF StoreParts, Chain

LEMMA HeldIs ==
    ASSUME StoreParts, StoreInv
    PROVE  HeldFrames(snap, wal.frames, intent) = Len(snap.state) - floor
<1>1. /\ Line \in Seq(Nat) /\ Len(Line) = floor + Len(wal.frames) /\ floor \in Nat
      /\ Len(wal.frames) \in Nat /\ wal.frames \in Seq(Nat)
      /\ snap.state \in Seq(Nat) /\ Len(snap.state) \in Nat
      /\ At(wal.frames, floor, Line) /\ Begins(snap.state, Line)
      /\ floor =< Len(snap.state) /\ Len(snap.state) =< Len(Line)
  BY Files
<1> DEFINE k == Len(snap.state) - floor
           T == Standing(snap, wal.frames, intent)
           M == {0} \cup {Len(i.frames) : i \in T}
<1>3. k \in Nat /\ k =< Len(wal.frames) BY <1>1
<1> HIDE DEF k
<1>4. ASSUME NEW r \in T PROVE Len(r.frames) \in Nat /\ (Len(r.frames) = 0 \/ Len(r.frames) = k)
  <2>1. /\ r \in intent /\ r.state = snap.state /\ r.state \in Seq(Nat) /\ r.frames \in Seq(Nat)
        /\ IsPrefix(r.frames, wal.frames)
    BY <1>4 DEF Standing, StoreInv, StoreType, Records
  <2>2. Begins(r.frames, wal.frames) BY <1>1, <2>1, PrefixIs
  <2>3. Ends(r.frames, snap.state)
    BY <2>1 DEF StoreInv, RecordInv
  <2>4. Falls(Line) BY DEF StoreInv, Falling
  <2>5. Len(r.frames) = 0 \/ Len(r.frames) = Len(snap.state) - floor
    <3>1. Chain(Line, snap.state, wal.frames, floor) BY Files
    <3> QED BY <2>1, <2>2, <2>3, <2>4, <3>1, Naming
  <2>6. Len(r.frames) \in Nat BY <2>1
  <2> QED BY <2>5, <2>6 DEF k
<1>5. k \in M
  <2>1. CASE k = 0 BY <2>1
  <2>2. CASE k # 0
    <3>1. Pending \in intent BY <1>1, <1>3, <2>2 DEF StoreInv, HeldInv, k
    <3> DEFINE f == SubSeq(wal.frames, 1, k)
    <3>2. f \in Seq(Nat) /\ Len(f) = k /\ \A i \in 1 .. k : f[i] = wal.frames[i] BY <1>1, <1>3, Cutting
    <3>3. Pending.frames = f /\ Pending.state = snap.state BY DEF Pending, k
    <3> HIDE DEF f
    <3>4. Begins(f, wal.frames) BY <1>1, <1>3, <3>2 DEF Begins
    <3>5. IsPrefix(f, wal.frames) BY <1>1, <3>2, <3>4, PrefixIs
    <3>6. Pending \in T BY <3>1, <3>3, <3>5 DEF Standing
    <3>7. Len(Pending.frames) = k BY <3>2, <3>3
    <3> QED BY <3>6, <3>7
  <2> QED BY <2>1, <2>2
<1>6. \A y \in M : y \in Nat /\ k >= y BY <1>3, <1>4
<1> HIDE DEF M
<1>7. ASSUME NEW x \in M, \A y \in M : x >= y PROVE x = k BY <1>5, <1>6, <1>7
<1>8. Max(M) = k
  <2>1. \E x \in M : \A y \in M : x >= y BY <1>5, <1>6
  <2> DEFINE x == CHOOSE x \in M : \A y \in M : x >= y
  <2>2. x \in M /\ \A y \in M : x >= y BY <2>1
  <2> HIDE DEF x
  <2>3. x = k BY <1>7, <2>2
  <2> QED BY <2>3 DEF Max, x
<1> QED BY <1>8 DEF M, k, HeldFrames

\* The store is the line; what is durable of it, its beginning.
LEMMA StoreIs ==
    ASSUME StoreParts, StoreInv
    PROVE  /\ Store = Line
           /\ Durable \in Seq(Nat) /\ Len(Durable) = DurableLen /\ Begins(Durable, Line)
<1>1. /\ Line \in Seq(Nat) /\ Len(Line) = floor + Len(wal.frames) /\ floor \in Nat
      /\ Len(wal.frames) \in Nat /\ wal.frames \in Seq(Nat)
      /\ snap.state \in Seq(Nat) /\ Len(snap.state) \in Nat
      /\ wal.synced \in Nat /\ wal.synced =< Len(wal.frames)
      /\ At(wal.frames, floor, Line) /\ Begins(snap.state, Line)
      /\ floor =< Len(snap.state) /\ Len(snap.state) =< Len(Line)
  BY Files
<1>2. /\ Durable = Joined(snap.state, wal.frames, floor, wal.synced)
      /\ Store = Joined(snap.state, wal.frames, floor, Len(wal.frames))
  BY HeldIs DEF Durable, Store, Loaded, Joined
<1>3. /\ Durable \in Seq(Nat) /\ Begins(Durable, Line)
      /\ Len(Durable) = IF Len(snap.state) > floor + wal.synced THEN Len(snap.state)
                        ELSE floor + wal.synced
  BY <1>1, <1>2, Files, Opened
<1>4. /\ Store \in Seq(Nat) /\ Begins(Store, Line)
      /\ Len(Store) = IF Len(snap.state) > floor + Len(wal.frames) THEN Len(snap.state)
                      ELSE floor + Len(wal.frames)
  <2>1. Len(wal.frames) =< Len(wal.frames) BY <1>1
  <2>2. Chain(Line, snap.state, wal.frames, floor) BY Files
  <2>3. Len(wal.frames) \in Nat BY <1>1
  <2> DEFINE b == Len(wal.frames)
             q == Joined(snap.state, wal.frames, floor, b)
  <2>4. /\ q \in Seq(Nat) /\ Begins(q, Line)
        /\ Len(q) = IF Len(snap.state) > floor + b THEN Len(snap.state) ELSE floor + b
    <3> HIDE DEF b
    <3> QED BY <2>1, <2>2, <2>3, Opened DEF b
  <2> QED BY <1>2, <2>4
<1>5. Len(Store) = Len(Line) BY <1>1, <1>4
<1>6. Store = Line BY <1>1, <1>4, <1>5, SameSeq DEF Begins
<1> QED BY <1>3, <1>6 DEF DurableLen

-----------------------------------------------------------------------------
(* The steps of the store.                                                 *)

\* There is one line.
LEMMA ChainIs ==
    ASSUME NEW L, NEW s, NEW w, NEW n, Chain(L, s, w, n)
    PROVE  SubSeq(s, 1, n) \o w = L
<1>0. /\ L \in Seq(Nat) /\ s \in Seq(Nat) /\ w \in Seq(Nat) /\ n \in Nat
      /\ n =< Len(s) /\ Len(L) = n + Len(w) /\ Begins(s, L) /\ At(w, n, L)
  BY DEF Chain
<1>1. Len(s) \in Nat /\ Len(w) \in Nat BY <1>0
<1> DEFINE t == SubSeq(s, 1, n)
<1>2. t \in Seq(Nat) /\ Len(t) = n /\ \A i \in 1 .. n : t[i] = s[i] BY <1>0, Cutting
<1> HIDE DEF t
<1> DEFINE q == t \o w
<1>3. /\ q \in Seq(Nat) /\ Len(q) = n + Len(w)
      /\ \A i \in 1 .. n : q[i] = t[i]
      /\ \A i \in 1 .. Len(w) : q[n + i] = w[i]
  <2>1. /\ q \in Seq(Nat) /\ Len(q) = Len(t) + Len(w)
        /\ \A i \in 1 .. Len(t) : q[i] = t[i]
        /\ \A i \in 1 .. Len(w) : q[Len(t) + i] = w[i]
    BY <1>0, <1>2, JoinFacts
  <2> HIDE DEF q
  <2> QED BY <1>2, <2>1
<1> HIDE DEF q
<1>4. ASSUME NEW i \in 1 .. Len(q) PROVE q[i] = L[i]
  <2>1. CASE ~(i > n)
    <3>1. i \in 1 .. n /\ i \in 1 .. Len(s) BY <1>0, <1>1, <1>3, <2>1
    <3> QED BY <1>0, <1>2, <1>3, <3>1 DEF Begins
  <2>2. CASE i > n
    <3> DEFINE j == i - n
    <3>1. j \in 1 .. Len(w) /\ i = n + j BY <1>0, <1>1, <1>3, <2>2
    <3> HIDE DEF j
    <3>2. q[n + j] = w[j] BY <1>3, <3>1
    <3>3. w[j] = L[n + j] BY <1>0, <3>1 DEF At
    <3> QED BY <3>1, <3>2, <3>3
  <2> QED BY <2>1, <2>2
<1>5. q = L BY <1>0, <1>3, <1>4, SameSeq
<1> QED BY <1>5 DEF q, t

LEMMA AppendFacts ==
    ASSUME NEW s \in Seq(Nat), NEW c \in Nat
    PROVE  /\ Append(s, c) \in Seq(Nat) /\ Len(Append(s, c)) = Len(s) + 1
           /\ Append(s, c)[Len(s) + 1] = c
           /\ \A i \in 1 .. Len(s) : Append(s, c)[i] = s[i]
OBVIOUS

LEMMA ChainAppend ==
    ASSUME NEW L, NEW s, NEW w, NEW n, Chain(L, s, w, n), NEW c \in Nat
    PROVE  Chain(Append(L, c), s, Append(w, c), n)
<1>0. /\ L \in Seq(Nat) /\ s \in Seq(Nat) /\ w \in Seq(Nat) /\ n \in Nat
      /\ n =< Len(s) /\ Len(L) = n + Len(w) /\ Begins(s, L) /\ At(w, n, L)
  BY DEF Chain
<1>1. Len(s) \in Nat /\ Len(w) \in Nat /\ Len(L) \in Nat BY <1>0
<1> DEFINE K == Append(L, c)
           v == Append(w, c)
<1>2. K \in Seq(Nat) /\ Len(K) = Len(L) + 1 /\ K[Len(L) + 1] = c /\ \A i \in 1 .. Len(L) : K[i] = L[i]
  BY <1>0, AppendFacts
<1>3. v \in Seq(Nat) /\ Len(v) = Len(w) + 1 /\ v[Len(w) + 1] = c /\ \A i \in 1 .. Len(w) : v[i] = w[i]
  BY <1>0, AppendFacts
<1> HIDE DEF K, v
<1>4. Begins(s, K)
  <2>1. Len(s) =< Len(K) BY <1>0, <1>1, <1>2 DEF Begins
  <2>2. ASSUME NEW i \in 1 .. Len(s) PROVE s[i] = K[i]
    <3>1. i \in 1 .. Len(L) BY <1>0, <1>1 DEF Begins
    <3> QED BY <1>0, <1>2, <3>1 DEF Begins
  <2> QED BY <2>1, <2>2 DEF Begins
<1>5. At(v, n, K)
  <2>1. n + Len(v) =< Len(K) BY <1>0, <1>1, <1>2, <1>3
  <2>2. ASSUME NEW i \in 1 .. Len(v) PROVE v[i] = K[n + i]
    <3>1. CASE i = Len(w) + 1
      <4>1. n + i = Len(L) + 1 BY <1>0, <1>1, <3>1
      <4> QED BY <1>2, <1>3, <3>1, <4>1
    <3>2. CASE i # Len(w) + 1
      <4>1. i \in 1 .. Len(w) /\ n + i \in 1 .. Len(L) BY <1>0, <1>1, <1>3, <3>2
      <4> QED BY <1>0, <1>2, <1>3, <4>1 DEF At
    <3> QED BY <3>1, <3>2
  <2> QED BY <2>1, <2>2 DEF At
<1>6. Len(K) = n + Len(v) BY <1>0, <1>1, <1>2, <1>3
<1>7. Chain(K, s, v, n) BY <1>0, <1>2, <1>3, <1>4, <1>5, <1>6 DEF Chain
<1> QED BY <1>7 DEF K, v

LEMMA ChainWrite ==
    ASSUME NEW L, NEW s, NEW w, NEW n, Chain(L, s, w, n)
    PROVE  Chain(L, L, w, n)
<1>0. /\ L \in Seq(Nat) /\ s \in Seq(Nat) /\ w \in Seq(Nat) /\ n \in Nat
      /\ Len(L) = n + Len(w) /\ At(w, n, L)
  BY DEF Chain
<1>1. Begins(L, L) BY <1>0 DEF Begins
<1>2. n =< Len(L) BY <1>0
<1> QED BY <1>0, <1>1, <1>2 DEF Chain

LEMMA ChainReplace ==
    ASSUME NEW L, NEW s, NEW w, NEW n, Chain(L, s, w, n), Len(s) = Len(L)
    PROVE  s = L /\ Chain(L, L, << >>, Len(L))
<1>0. L \in Seq(Nat) /\ s \in Seq(Nat) /\ Len(L) \in Nat /\ Begins(s, L) BY DEF Chain
<1>1. s = L BY <1>0, SameSeq DEF Begins
<1>2. << >> \in Seq(Nat) /\ Len(<< >>) = 0 OBVIOUS
<1>3. At(<< >>, Len(L), L) BY <1>0, <1>2 DEF At
<1>4. Begins(L, L) BY <1>0 DEF Begins
<1> QED BY <1>0, <1>1, <1>2, <1>3, <1>4 DEF Chain

LEMMA ChainCut ==
    ASSUME NEW L, NEW s, NEW w, NEW n, Chain(L, s, w, n), NEW k \in Nat, k =< Len(w), Len(s) =< n + k
    PROVE  /\ Chain(SubSeq(L, 1, n + k), s, SubSeq(w, 1, k), n)
           /\ Len(SubSeq(L, 1, n + k)) = n + k /\ Begins(SubSeq(L, 1, n + k), L)
<1>0. /\ L \in Seq(Nat) /\ s \in Seq(Nat) /\ w \in Seq(Nat) /\ n \in Nat
      /\ n =< Len(s) /\ Len(L) = n + Len(w) /\ Begins(s, L) /\ At(w, n, L)
  BY DEF Chain
<1>1. Len(s) \in Nat /\ Len(w) \in Nat /\ Len(L) \in Nat BY <1>0
<1> DEFINE m == n + k
           K == SubSeq(L, 1, m)
           v == SubSeq(w, 1, k)
<1>2. m \in Nat /\ m =< Len(L) BY <1>0, <1>1
<1> HIDE DEF m
<1>3. K \in Seq(Nat) /\ Len(K) = m /\ \A i \in 1 .. m : K[i] = L[i] BY <1>0, <1>2, Cutting
<1>4. v \in Seq(Nat) /\ Len(v) = k /\ \A i \in 1 .. k : v[i] = w[i] BY <1>0, Cutting
<1> HIDE DEF K, v
<1>5. Begins(s, K)
  <2>1. Len(s) =< m BY DEF m
  <2>2. ASSUME NEW i \in 1 .. Len(s) PROVE s[i] = K[i]
    <3>1. i \in 1 .. m BY <1>1, <1>2, <2>1
    <3> QED BY <1>0, <1>3, <3>1 DEF Begins
  <2> QED BY <1>3, <2>1, <2>2 DEF Begins
<1>6. At(v, n, K)
  <2>1. n + Len(v) =< Len(K) BY <1>0, <1>3, <1>4 DEF m
  <2>2. ASSUME NEW i \in 1 .. Len(v) PROVE v[i] = K[n + i]
    <3>1. i \in 1 .. k /\ i \in 1 .. Len(w) /\ n + i \in 1 .. m BY <1>0, <1>1, <1>4 DEF m
    <3>2. w[i] = L[n + i] BY <1>0, <3>1 DEF At
    <3> QED BY <1>3, <1>4, <3>1, <3>2
  <2> QED BY <2>1, <2>2 DEF At
<1>7. Begins(K, L) BY <1>2, <1>3 DEF Begins
<1>8. Len(K) = n + Len(v) BY <1>3, <1>4 DEF m
<1>9. Chain(K, s, v, n) BY <1>0, <1>3, <1>4, <1>5, <1>6, <1>8 DEF Chain
<1> QED BY <1>3, <1>7, <1>9 DEF K, v, m

\* A step to the line L, which has what was durable, keeps what was durable.
LEMMA StoreStep ==
    ASSUME StoreParts, StoreInv, StoreParts', StoreType',
           NEW L, Chain(L, snap'.state, wal'.frames, floor'),
           Falls(L), \A i \in 1 .. Len(L) : L[i] > left'.commits,
           Begins(Line, L) \/ Begins(L, Line)
    PROVE  /\ Line' = L /\ LineInv' /\ Falling'
           /\ RecordInv' /\ HeldInv' /\ StageInv' /\ DurableLen =< DurableLen' =>
                 StoreInv' /\ Begins(Durable, Durable')
<1>1. Line' = L
  <2>1. SubSeq(snap'.state, 1, floor') \o wal'.frames = L BY ChainIs
  <2> QED BY <2>1 DEF Line
<1>2. LineInv' BY <1>1 DEF Chain, LineInv
<1>3. Falling' BY <1>1 DEF Falling
<1>4. ASSUME RecordInv', HeldInv', StageInv', DurableLen =< DurableLen'
      PROVE  StoreInv' /\ Begins(Durable, Durable')
  <2>1. StoreInv' BY <1>2, <1>3, <1>4 DEF StoreInv
  <2>2. Durable \in Seq(Nat) /\ Len(Durable) = DurableLen /\ Begins(Durable, Line) BY StoreIs
  <2>3. Durable' \in Seq(Nat) /\ Len(Durable') = DurableLen' /\ Begins(Durable', L)
    <3>1. (StoreParts /\ StoreInv)' => (Durable \in Seq(Nat) /\ Len(Durable) = DurableLen /\ Begins(Durable, Line))'
      BY StoreIs, PTL
    <3> QED BY <1>1, <2>1, <3>1
  <2>4. Len(Durable) \in Nat /\ Len(Durable') \in Nat /\ Len(Line) \in Nat /\ Len(L) \in Nat
    BY <2>2, <2>3, Files DEF Chain
  <2>5. ASSUME NEW i \in 1 .. Len(Durable) PROVE Durable[i] = Durable'[i]
    <3>1. i \in 1 .. Len(Durable') BY <1>4, <2>2, <2>3, <2>4
    <3>2. Durable[i] = Line[i] /\ Durable'[i] = L[i] /\ i \in 1 .. Len(Line) /\ i \in 1 .. Len(L)
      BY <2>2, <2>3, <2>4, <3>1 DEF Begins
    <3> QED BY <3>2 DEF Begins
  <2>6. Begins(Durable, Durable') BY <1>4, <2>2, <2>3, <2>5 DEF Begins
  <2> QED BY <2>1, <2>6
<1> QED BY <1>1, <1>2, <1>3, <1>4

\* The records that stand have the one of the frames the snapshot holds.
LEMMA PendingStands ==
    ASSUME StoreParts, StoreInv, Len(snap.state) > floor
    PROVE  Pending \in Standing(snap, wal.frames, intent)
<1>1. /\ floor \in Nat /\ Len(wal.frames) \in Nat /\ wal.frames \in Seq(Nat) /\ Len(snap.state) \in Nat
      /\ Len(Line) = floor + Len(wal.frames) /\ Len(snap.state) =< Len(Line)
  BY Files
<1>2. Pending \in intent BY DEF StoreInv, HeldInv
<1> DEFINE k == Len(snap.state) - floor
           f == SubSeq(wal.frames, 1, k)
<1>3. k \in Nat /\ k =< Len(wal.frames) BY <1>1
<1>4. Pending.frames = f /\ Pending.state = snap.state BY DEF Pending
<1> HIDE DEF k
<1>5. f \in Seq(Nat) /\ Len(f) = k /\ \A i \in 1 .. k : f[i] = wal.frames[i] BY <1>1, <1>3
<1> HIDE DEF f
<1>6. Begins(f, wal.frames) BY <1>3, <1>5 DEF Begins
<1>7. IsPrefix(f, wal.frames) BY <1>1, <1>5, <1>6, PrefixIs
<1> QED BY <1>2, <1>4, <1>7 DEF Standing

\* What a step of the store leaves to show; and the steps that leave the line.
Kept == StoreInv' /\ Begins(Durable, Durable')

LEMMA SameLine ==
    ASSUME StoreParts, StoreInv, StoreParts', snap' = snap, wal'.frames = wal.frames, floor' = floor,
           left'.commits = left.commits, intent' \in SUBSET intent,
           Standing(snap, wal.frames, intent) \subseteq intent' \/ Len(snap.state) = floor,
           wal.synced =< wal'.synced,
           writer'.stage \in {"begun", "written", "replaced"} => writer'.stage = writer.stage /\ intent' = intent
    PROVE  Kept
<1>1. StoreType /\ LineInv /\ Falling /\ RecordInv /\ HeldInv /\ StageInv BY DEF StoreInv
<1>2. StoreType' BY <1>1 DEF StoreType
<1>3. Chain(Line, snap'.state, wal'.frames, floor') BY Files
<1>4. Begins(Line, Line) BY Files DEF Begins
<1>5. Falls(Line) /\ \A i \in 1 .. Len(Line) : Line[i] > left'.commits BY <1>1 DEF Falling
<1>6. RecordInv' BY <1>1 DEF RecordInv
<1>7. Pending' = Pending BY DEF Pending
<1>8. HeldInv'
  <2>1. ASSUME Len(snap.state) > floor PROVE Pending \in intent'
    <3>1. Len(snap.state) # floor BY <2>1, Files
    <3> QED BY <2>1, <3>1, PendingStands
  <2> QED BY <1>7, <2>1 DEF HeldInv
<1>9. Line' = Line BY DEF Line
<1>10. StageInv'
  <2>1. "power" \in Faults => Len(snap.state) =< floor + wal'.synced
    <3>1. wal.synced \in Nat /\ wal'.synced \in Nat /\ floor \in Nat /\ Len(snap.state) \in Nat
      BY Files DEF StoreParts, EngineType
    <3>2. "power" \in Faults => Len(snap.state) =< floor + wal.synced BY <1>1 DEF StageInv
    <3> QED BY <3>1, <3>2
  <2>2. writer'.stage = "begun" => [state |-> Line, frames |-> wal.frames] \in intent'
    BY <1>1 DEF StageInv
  <2>3. writer'.stage = "written" => Len(snap.state) = Len(Line) BY <1>1 DEF StageInv
  <2>4. writer'.stage = "replaced" => Len(snap.state) = floor BY <1>1 DEF StageInv
  <2>5. snap.id = 0 => snap.state = << >> BY <1>1 DEF StageInv
  <2> QED BY <1>9, <2>1, <2>2, <2>3, <2>4, <2>5 DEF StageInv
<1>11. DurableLen =< DurableLen'
  <2>1. wal.synced \in Nat /\ wal'.synced \in Nat /\ floor \in Nat /\ Len(snap.state) \in Nat
    BY Files DEF StoreParts, EngineType
  <2> QED BY <2>1 DEF DurableLen
<1> QED BY <1>2, <1>3, <1>4, <1>5, <1>6, <1>8, <1>10, <1>11, StoreStep DEF Kept

LEMMA AppendStore ==
    ASSUME StoreParts, StoreInv, StoreParts', NEW p, AppendFrame(p)
    PROVE  Kept
<1>1. StoreType /\ LineInv /\ Falling /\ RecordInv /\ HeldInv /\ StageInv BY DEF StoreInv
<1>2. /\ snap' = snap /\ floor' = floor /\ left'.commits = left.commits - 1 /\ left.commits \in Nat
      /\ wal'.frames = Append(wal.frames, left.commits) /\ wal'.synced = wal.synced
      /\ writer'.stage = "appended"
      /\ Standing(snap, wal.frames, intent) \subseteq intent' /\ intent' \subseteq intent
  <2>1. Standing(snap, wal.frames, intent) \subseteq intent BY DEF Standing
  <2>2. wal \in [id : {0, 1}, frames : Seq(Nat), synced : Nat]
        /\ left \in [strict : BOOLEAN, commits : Nat, snapshots : Nat, faults : Nat]
        /\ writer \in [by : {"us", "peer", "none"}, stage : Stages]
    BY DEF StoreParts, EngineType
  <2> QED BY <2>1, <2>2 DEF AppendFrame, Settle
<1>3. StoreType' BY <1>1, <1>2 DEF StoreType
<1> DEFINE c == left.commits
           L == Append(Line, c)
<1>4. Chain(L, snap'.state, wal'.frames, floor')
  <2>1. Chain(Line, snap.state, wal.frames, floor) BY Files
  <2> QED BY <1>2, <2>1, ChainAppend
<1>5. /\ L \in Seq(Nat) /\ Len(L) = Len(Line) + 1 /\ L[Len(Line) + 1] = c
      /\ \A i \in 1 .. Len(Line) : L[i] = Line[i]
  BY <1>2, Files, AppendFacts
<1>6. Len(Line) \in Nat /\ Line \in Seq(Nat) BY Files
<1> HIDE DEF L
<1>7. Begins(Line, L) BY <1>5, <1>6 DEF Begins
<1>8. \A i \in 1 .. Len(Line) : Line[i] > c /\ Line[i] \in Nat BY <1>1, <1>6, Element DEF Falling
<1>9. ASSUME NEW i \in 1 .. Len(L) PROVE L[i] > left'.commits
  <2>1. CASE i = Len(Line) + 1 BY <1>2, <1>5, <2>1
  <2>2. CASE i # Len(Line) + 1
    <3>1. i \in 1 .. Len(Line) BY <1>5, <1>6, <2>2
    <3>2. L[i] > c /\ L[i] \in Nat BY <1>5, <1>8, <3>1
    <3> QED BY <1>2, <3>2
  <2> QED BY <2>1, <2>2
<1>10. ASSUME NEW i \in 1 .. Len(L), NEW j \in 1 .. Len(L), i < j PROVE L[i] > L[j]
  <2>1. i \in 1 .. Len(Line) BY <1>5, <1>6, <1>10
  <2>2. CASE j = Len(Line) + 1 BY <1>5, <1>8, <2>1, <2>2
  <2>3. CASE j # Len(Line) + 1
    <3>1. j \in 1 .. Len(Line) BY <1>5, <1>6, <2>3
    <3>2. Line[i] > Line[j] BY <1>1, <1>10, <2>1, <3>1 DEF Falling, Falls
    <3> QED BY <1>5, <2>1, <3>1, <3>2
  <2> QED BY <2>2, <2>3
<1>11. Falls(L) BY <1>10 DEF Falls
<1>12. RecordInv' BY <1>1, <1>2 DEF RecordInv
<1>13. HeldInv'
  <2> SUFFICES ASSUME Len(snap.state) > floor PROVE Pending' \in intent'
    BY <1>2 DEF HeldInv
  <2>1. Pending \in intent' BY <1>2, PendingStands
  <2> DEFINE k == Len(snap.state) - floor
             w == wal.frames
  <2>2. k \in Nat /\ k =< Len(w) /\ w \in Seq(Nat) /\ Len(w) \in Nat
    <3>1. /\ floor \in Nat /\ Len(snap.state) \in Nat /\ wal.frames \in Seq(Nat) /\ Len(wal.frames) \in Nat
          /\ Len(Line) = floor + Len(wal.frames) /\ Len(snap.state) =< Len(Line)
      BY Files
    <3> QED BY <3>1
  <2> HIDE DEF k, w
  <2>3. Append(w, c) \in Seq(Nat) /\ Len(Append(w, c)) = Len(w) + 1
        /\ \A i \in 1 .. Len(w) : Append(w, c)[i] = w[i]
    BY <1>2, <2>2, AppendFacts
  <2>4. SubSeq(w, 1, k) \in Seq(Nat) /\ Len(SubSeq(w, 1, k)) = k /\ \A i \in 1 .. k : SubSeq(w, 1, k)[i] = w[i]
    BY <2>2
  <2> DEFINE v == Append(w, c)
  <2>5. v \in Seq(Nat) /\ k =< Len(v) /\ Len(v) \in Nat BY <2>2, <2>3
  <2>6. \A i \in 1 .. k : v[i] = w[i] BY <2>2, <2>3
  <2> HIDE DEF v
  <2>7. SubSeq(v, 1, k) \in Seq(Nat) /\ Len(SubSeq(v, 1, k)) = k /\ \A i \in 1 .. k : SubSeq(v, 1, k)[i] = v[i]
    BY <2>2, <2>5
  <2>8. SubSeq(v, 1, k) = SubSeq(w, 1, k) BY <2>4, <2>6, <2>7, SameSeq
  <2> QED BY <1>2, <2>1, <2>8 DEF Pending, v, w, k
<1>14. StageInv' BY <1>1, <1>2 DEF StageInv
<1>15. DurableLen' = DurableLen /\ DurableLen \in Nat BY <1>2, Files DEF DurableLen
<1>16. DurableLen =< DurableLen' BY <1>15
<1> QED BY <1>3, <1>4, <1>7, <1>9, <1>11, <1>12, <1>13, <1>14, <1>16, StoreStep DEF Kept

\* The types that the record updates below need.
LEMMA StoreTypes ==
    ASSUME StoreParts, StoreInv
    PROVE  /\ wal \in Wals /\ LeftType /\ WriterType /\ floor \in Nat /\ snap.id \in Nat
           /\ snap \in [id : Nat, state : Seq(Nat)] /\ wal.synced =< Len(wal.frames)
BY DEF StoreParts, EngineType, StoreInv, StoreType, Wals, LeftType, WriterType

LEMMA EndScopeStore ==
    ASSUME StoreParts, StoreInv, StoreParts', NEW p, EndScope(p)
    PROVE  Kept
<1>1. wal \in Wals /\ wal.synced =< Len(wal.frames) /\ Len(wal.frames) \in Nat BY StoreTypes, Files
<1>2. /\ snap' = snap /\ wal'.frames = wal.frames /\ floor' = floor /\ left' = left /\ intent' = intent
      /\ wal.synced =< wal'.synced /\ writer' = Free
  BY <1>1 DEF EndScope, Wals
<1>3. writer'.stage \notin {"begun", "written", "replaced"} BY <1>2 DEF Free
<1>4. Standing(snap, wal.frames, intent) \subseteq intent' BY <1>2 DEF Standing
<1> QED BY <1>2, <1>3, <1>4, SameLine

LEMMA FsyncStore ==
    ASSUME StoreParts, StoreInv, StoreParts', FsyncWal
    PROVE  Kept
<1>1. /\ wal \in Wals /\ wal.synced =< Len(wal.frames) /\ Len(wal.frames) \in Nat /\ LeftType
      /\ wal.synced \in Nat
  BY StoreTypes, Files
<1>2. /\ snap' = snap /\ floor' = floor /\ intent' = intent /\ writer' = writer
      /\ wal'.frames = wal.frames /\ wal.synced =< wal'.synced
  BY <1>1 DEF FsyncWal, Wals
<1>3. left'.commits = left.commits BY <1>1 DEF FsyncWal, Fault, LeftType
<1>4. Standing(snap, wal.frames, intent) \subseteq intent' BY <1>2 DEF Standing
<1> QED BY <1>2, <1>3, <1>4, SameLine

\* A step that leaves the files, and a writer as it is or gives its lock back.
LEMMA QuietStore ==
    ASSUME StoreParts, StoreInv, StoreParts', store' = store, left'.commits = left.commits,
           writer' = writer \/ writer' = Free \/ writer'.stage = "locked"
    PROVE  Kept
<1>1. snap' = snap /\ wal' = wal /\ floor' = floor /\ intent' = intent BY DEF store
<1>2. wal.synced =< wal'.synced BY <1>1, Files
<1>3. writer' = Free => writer'.stage = "none" BY DEF Free
<1>4. Standing(snap, wal.frames, intent) \subseteq intent' BY <1>1 DEF Standing
<1> QED BY <1>1, <1>2, <1>3, <1>4, SameLine

LEMMA BeginStore ==
    ASSUME StoreParts, StoreInv, StoreParts', NEW p, BeginSnapshot(p)
    PROVE  Kept
<1>1. StoreType /\ LineInv /\ Falling /\ RecordInv /\ HeldInv /\ StageInv BY DEF StoreInv
<1>2. Store = Line BY StoreIs
<1> DEFINE r == [state |-> Line, frames |-> wal.frames]
<1>3. /\ snap' = snap /\ floor' = floor /\ wal' = wal /\ left'.commits = left.commits
      /\ writer'.stage = "begun"
      /\ intent' = {r} \cup Standing(snap, wal.frames, intent)
  BY <1>2, StoreTypes DEF BeginSnapshot, LeftType, WriterType
<1>4. /\ Line \in Seq(Nat) /\ wal.frames \in Seq(Nat) /\ At(wal.frames, floor, Line)
      /\ Len(Line) = floor + Len(wal.frames) /\ floor \in Nat /\ Len(wal.frames) \in Nat
      /\ Len(snap.state) \in Nat /\ wal.synced \in Nat
  BY Files
<1>5. Ends(wal.frames, Line)
  <2>1. Len(Line) - Len(wal.frames) = floor /\ Len(wal.frames) =< Len(Line) BY <1>4
  <2> QED BY <1>4, <2>1 DEF Ends
<1>6. r \in Records /\ Ends(r.frames, r.state) BY <1>4, <1>5 DEF Records
<1> HIDE DEF r
<1>7. Standing(snap, wal.frames, intent) \subseteq intent BY DEF Standing
<1>8. StoreType' BY <1>1, <1>3, <1>6, <1>7 DEF StoreType
<1>9. RecordInv' BY <1>1, <1>3, <1>6, <1>7 DEF RecordInv
<1>10. HeldInv'
  <2> SUFFICES ASSUME Len(snap.state) > floor PROVE Pending' \in intent'
    BY <1>3 DEF HeldInv
  <2> QED BY <1>3, PendingStands DEF Pending
<1>11. Line' = Line BY <1>3 DEF Line
<1>12. StageInv' BY <1>1, <1>3, <1>11 DEF StageInv, r
<1>13. DurableLen =< DurableLen' BY <1>3, <1>4 DEF DurableLen
<1>14. Chain(Line, snap'.state, wal'.frames, floor') BY <1>3, Files
<1>15. Begins(Line, Line) BY <1>4 DEF Begins
<1>16. Falls(Line) /\ \A i \in 1 .. Len(Line) : Line[i] > left'.commits BY <1>1, <1>3 DEF Falling
<1> QED BY <1>8, <1>9, <1>10, <1>12, <1>13, <1>14, <1>15, <1>16, StoreStep DEF Kept

\* The snapshot is written, of a WAL that is all on stable storage where the
\* power may fail.
LEMMA WriteStore ==
    ASSUME StoreParts, StoreInv, StoreParts', SyncedSnapshots, NEW p, WriteSnapshot(p)
    PROVE  Kept
<1>1. StoreType /\ LineInv /\ Falling /\ RecordInv /\ HeldInv /\ StageInv BY DEF StoreInv
<1>2. Store = Line BY StoreIs
<1>3. /\ snap' = [id |-> snap.id + 1, state |-> Line] /\ floor' = floor /\ wal' = wal /\ left' = left
      /\ writer.stage = "begun" /\ writer'.stage = "written" /\ intent' = intent
  BY <1>2, StoreTypes DEF WriteSnapshot, WriterType
<1>4. /\ Line \in Seq(Nat) /\ wal.frames \in Seq(Nat) /\ Len(Line) \in Nat
      /\ Len(Line) = floor + Len(wal.frames) /\ floor \in Nat /\ Len(wal.frames) \in Nat
      /\ Len(snap.state) \in Nat /\ Len(snap.state) =< Len(Line)
      /\ wal.synced \in Nat /\ wal.synced =< Len(wal.frames) /\ snap.id \in Nat
  BY Files, StoreTypes
<1>5. StoreType' BY <1>1, <1>3, <1>4 DEF StoreType
<1>6. Chain(Line, snap'.state, wal'.frames, floor')
  <2>1. Chain(Line, snap.state, wal.frames, floor) BY Files
  <2> QED BY <1>3, <2>1, ChainWrite
<1>7. Begins(Line, Line) BY <1>4 DEF Begins
<1>8. Falls(Line) /\ \A i \in 1 .. Len(Line) : Line[i] > left'.commits BY <1>1, <1>3 DEF Falling
<1>9. Line' = Line BY <1>5, <1>6, <1>7, <1>8, StoreStep
<1>10. RecordInv' BY <1>1, <1>3 DEF RecordInv
<1>11. HeldInv'
  <2>1. Pending' = [state |-> Line, frames |-> wal.frames]
    <3>1. Len(Line) - floor = Len(wal.frames) BY <1>4
    <3>2. SubSeq(wal.frames, 1, Len(wal.frames)) = wal.frames BY <1>4
    <3> QED BY <1>3, <3>1, <3>2 DEF Pending
  <2> QED BY <1>1, <1>3, <2>1 DEF HeldInv, StageInv
<1>12. StageInv'
  <2>1. "power" \in Faults => Len(Line) =< floor + wal.synced BY <1>3, <1>4 DEF SyncedSnapshots
  <2>2. snap'.id # 0 /\ snap'.state = Line BY <1>3, <1>4
  <2> QED BY <1>3, <1>9, <2>1, <2>2 DEF StageInv
<1>13. DurableLen =< DurableLen'
  <2>1. \A a, b, c \in Nat : a =< b => (IF a > c THEN a ELSE c) =< (IF b > c THEN b ELSE c) OBVIOUS
  <2>2. floor + wal.synced \in Nat BY <1>4
  <2>3. Len(snap'.state) = Len(Line) BY <1>3
  <2>4. DurableLen' = IF Len(Line) > floor + wal.synced THEN Len(Line) ELSE floor + wal.synced
    BY <1>3, <2>3 DEF DurableLen
  <2>5. DurableLen = IF Len(snap.state) > floor + wal.synced THEN Len(snap.state) ELSE floor + wal.synced
    BY DEF DurableLen
  <2> DEFINE a == Len(snap.state)
             b == Len(Line)
             c == floor + wal.synced
  <2>6. a \in Nat /\ b \in Nat /\ c \in Nat /\ a =< b BY <1>4, <2>2
  <2>7. DurableLen = (IF a > c THEN a ELSE c) /\ DurableLen' = (IF b > c THEN b ELSE c) BY <2>4, <2>5
  <2> HIDE DEF a, b, c
  <2> QED BY <2>1, <2>6, <2>7
<1> QED BY <1>5, <1>6, <1>7, <1>8, <1>10, <1>11, <1>12, <1>13, StoreStep DEF Kept

LEMMA ReplaceStore ==
    ASSUME StoreParts, StoreInv, StoreParts', NEW p, ReplaceWal(p)
    PROVE  Kept
<1>1. StoreType /\ LineInv /\ Falling /\ RecordInv /\ HeldInv /\ StageInv BY DEF StoreInv
<1>2. /\ Line \in Seq(Nat) /\ wal.frames \in Seq(Nat) /\ Len(Line) \in Nat
      /\ Len(Line) = floor + Len(wal.frames) /\ floor \in Nat /\ Len(wal.frames) \in Nat
      /\ Len(snap.state) \in Nat /\ wal.synced \in Nat /\ wal.synced =< Len(wal.frames)
      /\ Chain(Line, snap.state, wal.frames, floor)
  BY Files
<1>3. /\ snap' = snap /\ intent' = intent /\ left' = left /\ floor' = Len(Line)
      /\ wal'.frames = << >> /\ wal'.synced = 0
      /\ writer.stage = "written" /\ writer'.stage = "replaced"
  BY <1>2, StoreTypes DEF ReplaceWal, Total, WriterType
<1>4. Len(snap.state) = Len(Line) BY <1>1, <1>3 DEF StageInv
<1>5. snap.state = Line /\ Chain(Line, snap'.state, wal'.frames, floor')
  BY <1>2, <1>3, <1>4, ChainReplace
<1>6. Begins(Line, Line) BY <1>2 DEF Begins
<1>7. Falls(Line) /\ \A i \in 1 .. Len(Line) : Line[i] > left'.commits BY <1>1, <1>3 DEF Falling
<1>8. StoreType' /\ RecordInv' BY <1>1, <1>3 DEF StoreType, RecordInv
<1>9. HeldInv' BY <1>2, <1>3, <1>4 DEF HeldInv
<1>10. StageInv' BY <1>1, <1>2, <1>3, <1>4 DEF StageInv
<1>11. DurableLen =< DurableLen' BY <1>2, <1>3, <1>4 DEF DurableLen
<1> QED BY <1>5, <1>6, <1>7, <1>8, <1>9, <1>10, <1>11, StoreStep DEF Kept

LEMMA EndSnapshotStore ==
    ASSUME StoreParts, StoreInv, StoreParts', NEW p, EndSnapshot(p)
    PROVE  Kept
<1>1. /\ snap' = snap /\ wal' = wal /\ floor' = floor /\ left' = left /\ intent' = {}
      /\ writer' = Free /\ writer.stage = "replaced"
  BY DEF EndSnapshot
<1>2. Len(snap.state) = floor BY <1>1 DEF StoreInv, StageInv
<1>3. writer'.stage = "none" BY <1>1 DEF Free
<1>4. wal.synced =< wal'.synced BY <1>1, Files
<1> QED BY <1>1, <1>2, <1>3, <1>4, SameLine

LEMMA PowerStore ==
    ASSUME StoreParts, StoreInv, StoreParts', PowerLoss
    PROVE  Kept
<1>1. StoreType /\ LineInv /\ Falling /\ RecordInv /\ HeldInv /\ StageInv BY DEF StoreInv
<1>2. /\ Line \in Seq(Nat) /\ wal.frames \in Seq(Nat) /\ Len(Line) \in Nat
      /\ Len(Line) = floor + Len(wal.frames) /\ floor \in Nat /\ Len(wal.frames) \in Nat
      /\ snap.state \in Seq(Nat) /\ floor =< Len(snap.state)
      /\ Len(snap.state) \in Nat /\ wal.synced \in Nat /\ wal.synced =< Len(wal.frames)
      /\ Chain(Line, snap.state, wal.frames, floor)
  BY Files
<1>3. PICK k \in wal.synced .. Len(wal.frames) :
         wal' = [wal EXCEPT !.frames = SubSeq(@, 1, k), !.synced = k]
  BY DEF PowerLoss
<1>4. k \in Nat /\ wal.synced =< k /\ k =< Len(wal.frames) BY <1>2, <1>3
<1>5. /\ snap' = snap /\ intent' = intent /\ floor' = floor /\ left'.commits = left.commits
      /\ wal'.frames = SubSeq(wal.frames, 1, k) /\ wal'.synced = k /\ writer'.stage = "none"
      /\ "power" \in Faults
  BY <1>3, StoreTypes DEF PowerLoss, Fault, LeftType, Wals, Free
<1>6. Len(snap.state) =< floor + wal.synced BY <1>1, <1>5 DEF StageInv
<1>7. Len(snap.state) =< floor + k BY <1>2, <1>4, <1>6
<1> DEFINE L == SubSeq(Line, 1, floor + k)
<1>8. Chain(L, snap'.state, wal'.frames, floor') /\ Len(L) = floor + k /\ Begins(L, Line)
  <2>1. /\ Chain(SubSeq(Line, 1, floor + k), snap.state, SubSeq(wal.frames, 1, k), floor)
        /\ Len(SubSeq(Line, 1, floor + k)) = floor + k /\ Begins(SubSeq(Line, 1, floor + k), Line)
    BY <1>2, <1>4, <1>7, ChainCut
  <2> QED BY <1>5, <2>1
<1> HIDE DEF L
<1>9. Falls(L) /\ \A i \in 1 .. Len(L) : L[i] > left'.commits
  <2>1. Len(L) \in Nat /\ Len(L) =< Len(Line) BY <1>2, <1>4, <1>8
  <2>2. \A i \in 1 .. Len(L) : i \in 1 .. Len(Line) /\ L[i] = Line[i] BY <1>2, <1>8, <2>1 DEF Begins
  <2>3. Falls(L)
    <3> SUFFICES ASSUME NEW i \in 1 .. Len(L), NEW j \in 1 .. Len(L), i < j PROVE L[i] > L[j]
      BY DEF Falls
    <3> QED BY <1>1, <2>2 DEF Falling, Falls
  <2> QED BY <1>1, <1>5, <2>2, <2>3 DEF Falling
<1>10. StoreType' /\ RecordInv' BY <1>1, <1>5 DEF StoreType, RecordInv
<1>11. HeldInv'
  <2> SUFFICES ASSUME Len(snap.state) > floor PROVE Pending' \in intent
    BY <1>5 DEF HeldInv
  <2>1. Pending \in intent BY <1>1 DEF HeldInv
  <2> DEFINE h == Len(snap.state) - floor
             w == wal.frames
             v == SubSeq(w, 1, k)
  <2>2. h \in Nat /\ h =< k BY <1>2, <1>4, <1>7
  <2>3. Pending = [state |-> snap.state, frames |-> SubSeq(w, 1, h)]
        /\ Pending' = [state |-> snap.state, frames |-> SubSeq(v, 1, h)]
    BY <1>5 DEF Pending
  <2>4. w \in Seq(Nat) /\ Len(w) \in Nat /\ k =< Len(w) BY <1>2, <1>4
  <2> HIDE DEF h, w
  <2>5. v \in Seq(Nat) /\ Len(v) = k /\ \A i \in 1 .. k : v[i] = w[i] BY <1>4, <2>4
  <2> HIDE DEF v
  <2>6. SubSeq(w, 1, h) \in Seq(Nat) /\ Len(SubSeq(w, 1, h)) = h
        /\ \A i \in 1 .. h : SubSeq(w, 1, h)[i] = w[i]
    BY <1>4, <2>2, <2>4
  <2>7. SubSeq(v, 1, h) \in Seq(Nat) /\ Len(SubSeq(v, 1, h)) = h
        /\ \A i \in 1 .. h : SubSeq(v, 1, h)[i] = v[i]
    BY <1>4, <2>2, <2>5
  <2>8. \A i \in 1 .. h : i \in 1 .. k BY <1>4, <2>2
  <2>9. SubSeq(v, 1, h) = SubSeq(w, 1, h) BY <2>5, <2>6, <2>7, <2>8, SameSeq
  <2> QED BY <2>1, <2>3, <2>9
<1>12. StageInv' BY <1>1, <1>5, <1>7 DEF StageInv
<1>13. DurableLen =< DurableLen' BY <1>2, <1>4, <1>5, <1>6 DEF DurableLen
<1> QED BY <1>8, <1>9, <1>10, <1>11, <1>12, <1>13, StoreStep DEF Kept

\* How the files move under the worker: snapshots follow each other, a WAL is
\* replaced after its snapshot only, and a snapshot makes the line durable.
Moved ==
    /\ snap.id =< snap'.id
    /\ snap'.id = snap.id => snap' = snap
    /\ snap'.id # snap.id => Begins(Line, Durable')
    /\ snap' = snap /\ Len(snap.state) = floor => floor' = floor
    /\ snap' = snap /\ wal'.id = wal.id => wal.synced =< wal'.synced
    /\ snap' = snap /\ wal'.id # wal.id => writer.stage = "written"
    /\ snap' = snap /\ writer'.stage = "written" => wal'.id = wal.id /\ writer.stage = "written"
    /\ Begins(Line, Line') \/ PowerLoss

\* A step with the same snapshot, WAL and floor, and a WAL no shorter.
LEMMA StillMoved ==
    ASSUME StoreParts, StoreInv, snap' = snap, wal'.id = wal.id, floor' = floor,
           wal.synced =< wal'.synced, Begins(Line, Line') \/ PowerLoss,
           writer'.stage = "written" => writer.stage = "written"
    PROVE  Moved
<1>1. snap.id =< snap'.id BY StoreTypes
<1> QED BY <1>1 DEF Moved

LEMMA DurableFacts ==
    StoreParts /\ StoreInv => /\ Durable \in Seq(Nat) /\ Len(Durable) = DurableLen /\ Begins(Durable, Line)
                              /\ Len(snap.state) \in Nat /\ floor + wal.synced \in Nat
BY StoreIs, Files

LEMMA WritingMoved ==
    ASSUME StoreParts, StoreInv, StoreParts', SyncedSnapshots, NEW p, Writing(p)
    PROVE  Kept /\ Moved
<1>1. /\ wal \in Wals /\ LeftType /\ WriterType /\ wal.synced =< Len(wal.frames) /\ Line \in Seq(Nat)
      /\ Len(Line) \in Nat /\ wal.synced \in Nat /\ Len(wal.frames) \in Nat /\ snap.id \in Nat /\ floor \in Nat
  BY StoreTypes, Files
<1>2. Begins(Line, Line) /\ wal.synced =< wal.synced BY <1>1 DEF Begins
<1>3. CASE AppendFrame(p)
  <2>1. Kept BY <1>3, AppendStore
  <2>2. /\ snap' = snap /\ floor' = floor /\ wal'.id = wal.id /\ wal'.synced = wal.synced
        /\ wal'.frames = Append(wal.frames, left.commits) /\ writer'.stage = "appended"
    BY <1>1, <1>3 DEF AppendFrame, Wals, WriterType
  <2>3. Begins(Line, Line')
    <3> DEFINE c == left.commits
               L == Append(Line, c)
    <3>1. c \in Nat BY <1>1 DEF LeftType
    <3>2. Chain(Line, snap.state, wal.frames, floor) BY Files
    <3>3. Chain(L, snap.state, Append(wal.frames, c), floor) BY <3>1, <3>2, ChainAppend
    <3>4. SubSeq(snap.state, 1, floor) \o Append(wal.frames, c) = L BY <3>3, ChainIs
    <3>5. Line' = L BY <2>2, <3>4 DEF Line
    <3>6. Len(L) = Len(Line) + 1 /\ \A i \in 1 .. Len(Line) : L[i] = Line[i] BY <1>1, <3>1, AppendFacts
    <3>7. Len(Line) =< Len(L) BY <1>1, <3>6
    <3> QED BY <3>5, <3>6, <3>7 DEF Begins
  <2> QED BY <1>2, <2>1, <2>2, <2>3, StillMoved
<1>4. CASE EndScope(p)
  <2>1. Kept BY <1>4, EndScopeStore
  <2>2. /\ snap' = snap /\ floor' = floor /\ wal'.id = wal.id /\ wal.synced =< wal'.synced
        /\ wal'.frames = wal.frames /\ writer'.stage = "none"
    BY <1>1, <1>4 DEF EndScope, Wals, Free
  <2>3. Line' = Line BY <2>2 DEF Line
  <2> QED BY <1>2, <2>1, <2>2, <2>3, StillMoved
<1>5. CASE BeginSnapshot(p)
  <2>1. Kept BY <1>5, BeginStore
  <2>2. snap' = snap /\ floor' = floor /\ wal' = wal /\ writer'.stage = "begun"
    BY <1>1, <1>5 DEF BeginSnapshot, WriterType
  <2>3. Line' = Line BY <2>2 DEF Line
  <2> QED BY <1>2, <2>1, <2>2, <2>3, StillMoved
<1>6. CASE EndSnapshot(p)
  <2>1. Kept BY <1>6, EndSnapshotStore
  <2>2. snap' = snap /\ floor' = floor /\ wal' = wal /\ writer'.stage = "none"
    BY <1>1, <1>6 DEF EndSnapshot, Free
  <2>3. Line' = Line BY <2>2 DEF Line
  <2> QED BY <1>2, <2>1, <2>2, <2>3, StillMoved
<1>7. CASE WriteSnapshot(p)
  <2>1. Kept BY <1>7, WriteStore
  <2>2. Store = Line BY StoreIs
  <2>3. /\ snap' = [id |-> snap.id + 1, state |-> Line] /\ floor' = floor /\ wal' = wal
        /\ writer'.stage = "written"
    BY <1>1, <1>7, <2>2 DEF WriteSnapshot, WriterType
  <2>4. Line' = Line
    <3>1. Chain(Line, snap.state, wal.frames, floor) BY Files
    <3>2. Chain(Line, Line, wal.frames, floor) BY <3>1, ChainWrite
    <3>3. SubSeq(Line, 1, floor) \o wal.frames = Line BY <3>2, ChainIs
    <3> QED BY <2>3, <3>3 DEF Line
  <2>5. Begins(Line, Durable')
    <3>1. StoreInv' BY <2>1 DEF Kept
    <3>2. (StoreParts /\ StoreInv)' =>
            (/\ Durable \in Seq(Nat) /\ Len(Durable) = DurableLen /\ Begins(Durable, Line)
             /\ Len(snap.state) \in Nat /\ floor + wal.synced \in Nat)'
      BY DurableFacts, PTL
    <3>3. /\ Len(Durable') = DurableLen' /\ Begins(Durable', Line)
          /\ Len(snap'.state) \in Nat /\ floor' + wal'.synced \in Nat
      BY <2>4, <3>1, <3>2
    <3>4. Len(Line) =< Len(Durable') BY <2>3, <3>3 DEF DurableLen
    <3>5. Len(Durable') =< Len(Line) BY <3>3 DEF Begins
    <3>6. Len(Durable') \in Nat BY <3>3 DEF DurableLen
    <3>7. Len(Durable') = Len(Line) BY <1>1, <3>4, <3>5, <3>6
    <3> QED BY <1>1, <3>3, <3>7 DEF Begins
  <2>6. snap'.id = snap.id + 1 /\ snap' # snap /\ snap.id =< snap'.id /\ snap'.id # snap.id BY <1>1, <2>3
  <2> QED BY <1>2, <2>1, <2>4, <2>5, <2>6 DEF Moved
<1>8. CASE ReplaceWal(p)
  <2>1. Kept BY <1>8, ReplaceStore
  <2>2. /\ snap' = snap /\ wal'.id = 1 - wal.id /\ wal'.frames = << >> /\ floor' = floor + Len(wal.frames)
        /\ writer.stage = "written" /\ writer'.stage = "replaced"
    BY <1>1, <1>8 DEF ReplaceWal, Total, WriterType
  <2>3. wal'.id # wal.id BY <1>1, <2>2 DEF Wals
  <2>4. Len(snap.state) = Len(Line) /\ Len(Line) = floor + Len(wal.frames) BY <2>2, Files DEF StoreInv, StageInv
  <2>5. Line' = Line
    <3>1. Chain(Line, snap.state, wal.frames, floor) BY Files
    <3>2. snap.state = Line /\ Chain(Line, Line, << >>, Len(Line)) BY <2>4, <3>1, ChainReplace
    <3>3. SubSeq(Line, 1, Len(Line)) \o << >> = Line BY <3>2, ChainIs
    <3> QED BY <2>2, <2>4, <3>2, <3>3 DEF Line
  <2>6. snap.id =< snap'.id BY <1>1, <2>2
  <2> QED BY <1>2, <2>1, <2>2, <2>3, <2>4, <2>5, <2>6 DEF Moved
<1> QED BY <1>3, <1>4, <1>5, <1>6, <1>7, <1>8 DEF Writing

\* A step that leaves the files and at most gives the lock to a writer.
LEMMA QuietMoved ==
    ASSUME StoreParts, StoreInv, StoreParts', store' = store, left'.commits = left.commits,
           writer' = writer \/ writer' = Free \/ writer'.stage = "locked"
    PROVE  Kept /\ Moved /\ Durable' = Durable
<1>1. snap' = snap /\ wal' = wal /\ floor' = floor /\ intent' = intent BY DEF store
<1>2. Line' = Line /\ Durable' = Durable BY <1>1 DEF Line, Durable
<1>3. Begins(Line, Line) /\ wal.synced =< wal'.synced BY <1>1, Files DEF Begins
<1>4. writer'.stage = "written" => writer.stage = "written" BY DEF Free
<1> QED BY <1>1, <1>2, <1>3, <1>4, QuietStore, StillMoved

LEMMA PowerMoved ==
    ASSUME StoreParts, StoreInv, StoreParts', PowerLoss
    PROVE  Kept /\ Moved
<1>1. Kept BY PowerStore
<1>2. wal \in Wals /\ wal.synced \in Nat /\ Len(wal.frames) \in Nat BY StoreTypes, Files
<1>3. PICK k \in wal.synced .. Len(wal.frames) :
         wal' = [wal EXCEPT !.frames = SubSeq(@, 1, k), !.synced = k]
  BY DEF PowerLoss
<1>4. snap' = snap /\ floor' = floor /\ wal'.id = wal.id /\ wal.synced =< wal'.synced /\ writer'.stage = "none"
  BY <1>2, <1>3 DEF PowerLoss, Wals, Free
<1> QED BY <1>1, <1>4, StillMoved

LEMMA FsyncMoved ==
    ASSUME StoreParts, StoreInv, StoreParts', FsyncWal
    PROVE  Kept /\ Moved
<1>1. Kept BY FsyncStore
<1>2. /\ wal \in Wals /\ wal.synced =< Len(wal.frames) /\ Len(wal.frames) \in Nat
      /\ wal.synced \in Nat
  BY StoreTypes, Files
<1>3. /\ snap' = snap /\ floor' = floor /\ writer' = writer
      /\ wal'.frames = wal.frames /\ wal.synced =< wal'.synced /\ wal'.id = wal.id
  BY <1>2 DEF FsyncWal, Wals
<1>4. Line' = Line /\ Begins(Line, Line)
  <2>1. Line' = Line BY <1>3 DEF Line
  <2> QED BY <2>1, Files DEF Begins
<1> QED BY <1>1, <1>3, <1>4, StillMoved

-----------------------------------------------------------------------------
(* Induction over the natural numbers, by a least counterexample.          *)

Smaller == {ss \in Nat \X Nat : ss[1] < ss[2]}

\* A set of numbers that is not empty has a least element.
LEMMA LeastOf ==
    ASSUME NEW T \in SUBSET Nat, T # {}
    PROVE  \E x \in T : \A y \in T : x <= y
<1>1. Smaller = OpToRel(<, Nat) BY DEF Smaller, OpToRel
<1>2. IsWellFoundedOn(Smaller, Nat) BY <1>1, NatLessThanWellFounded
<1>3. PICK x \in T : \A y \in T : ~ (<<y, x>> \in Smaller) BY <1>2, WFMin
<1>4. ASSUME NEW y \in T, y < x PROVE FALSE
  <2>1. <<y, x>> \in Smaller BY <1>4 DEF Smaller
  <2> QED BY <1>3, <2>1
<1> QED BY <1>4

\* A set that holds 0, and with each number the next one, holds every number.
LEMMA Induction ==
    ASSUME NEW S \in SUBSET Nat, 0 \in S, \A n \in Nat : n \in S => n + 1 \in S
    PROVE  \A n \in Nat : n \in S
<1> DEFINE T == Nat \ S
<1>1. SUFFICES ASSUME T # {} PROVE FALSE OBVIOUS
<1>2. PICK x \in T : \A y \in T : x <= y BY <1>1, LeastOf
<1>3. x \in Nat /\ x # 0 OBVIOUS
<1>4. x - 1 \in Nat /\ x - 1 \notin T BY <1>2, <1>3
<1>5. (x - 1) + 1 \in S BY <1>4
<1> QED BY <1>2, <1>3, <1>5

\* A set of integers with a bound has a largest element.
LEMMA Largest ==
    ASSUME NEW S \in SUBSET Int, NEW a \in S, NEW b \in Int, \A x \in S : x =< b
    PROVE  Max(S) \in S /\ \A x \in S : x =< Max(S)
<1> DEFINE T == {n \in Nat : \E x \in S : n = b - x}
<1>1. b - a \in T OBVIOUS
<1>2. PICK n \in T : \A y \in T : n <= y
  <2>1. T \in SUBSET Nat /\ T # {} BY <1>1
  <2> HIDE DEF T
  <2> QED BY <2>1, LeastOf
<1>3. PICK m \in S : n = b - m OBVIOUS
<1>4. ASSUME NEW x \in S PROVE m >= x
  <2>1. b - x \in T OBVIOUS
  <2>2. n =< b - x BY <1>2, <2>1
  <2>3. n \in Int /\ m \in Int /\ x \in Int OBVIOUS
  <2> HIDE DEF T
  <2> QED BY <1>3, <2>2, <2>3
<1> HIDE DEF T
<1> DEFINE z == CHOOSE z \in S : \A y \in S : z >= y
<1>5. z \in S /\ \A y \in S : z >= y BY <1>4
<1>6. Max(S) = z BY DEF Max
<1> HIDE DEF z
<1>7. ASSUME NEW x \in S PROVE x =< z
  <2>1. z >= x /\ z \in Int /\ x \in Int BY <1>5
  <2> QED BY <2>1
<1> QED BY <1>5, <1>6, <1>7

-----------------------------------------------------------------------------
(* Shipped, the frames of the segments one after the other.                *)

Flattens(g, q) == g = [i \in 1 .. Len(q) |-> IF i = 1 THEN q[i] ELSE g[i - 1] \o q[i]]

LEMMA FlattensStep ==
    ASSUME NEW q \in Seq(Seq(Nat)), NEW g, Flattens(g, q), Len(q) # 0
    PROVE  /\ g[1] = q[1]
           /\ \A n \in Nat : n # 0 /\ n + 1 =< Len(q) => g[n + 1] = g[n] \o q[n + 1]
<1>0. Len(q) \in Nat OBVIOUS
<1>1. 1 \in 1 .. Len(q) BY <1>0
<1>2. g[1] = q[1] BY <1>1 DEF Flattens
<1>3. ASSUME NEW n \in Nat, n # 0, n + 1 =< Len(q) PROVE g[n + 1] = g[n] \o q[n + 1]
  <2>1. n + 1 \in 1 .. Len(q) /\ n + 1 # 1 /\ (n + 1) - 1 = n BY <1>0, <1>3
  <2> QED BY <2>1 DEF Flattens
<1> QED BY <1>2, <1>3

LEMMA FlattensType ==
    ASSUME NEW q \in Seq(Seq(Nat)), NEW g, Flattens(g, q), Len(q) # 0
    PROVE  \A n \in Nat : n # 0 /\ n =< Len(q) => g[n] \in Seq(Nat)
<1> DEFINE S == {n \in Nat : n # 0 /\ n =< Len(q) => g[n] \in Seq(Nat)}
<1>0. Len(q) \in Nat OBVIOUS
<1>1. 0 \in S OBVIOUS
<1>2. ASSUME NEW n \in Nat, n \in S PROVE n + 1 \in S
  <2>1. SUFFICES ASSUME n + 1 =< Len(q) PROVE g[n + 1] \in Seq(Nat) OBVIOUS
  <2>2. n + 1 \in 1 .. Len(q) BY <1>0, <2>1
  <2>3. q[n + 1] \in Seq(Nat) BY <2>2
  <2>4. CASE n = 0
    <3>1. n + 1 = 1 BY <2>4
    <3>2. g[1] = q[1] BY FlattensStep
    <3> QED BY <2>3, <3>1, <3>2
  <2>5. CASE n # 0
    <3>1. g[n] \in Seq(Nat) BY <1>0, <1>2, <2>1, <2>5
    <3>2. g[n] \o q[n + 1] \in Seq(Nat) BY <2>3, <3>1
    <3> QED BY <2>1, <2>5, <3>2, FlattensStep
  <2> QED BY <2>4, <2>5
<1>3. S \in SUBSET Nat OBVIOUS
<1> HIDE DEF S
<1>4. \A n \in Nat : n \in S BY <1>1, <1>2, <1>3, Induction
<1> QED BY <1>4 DEF S

LEMMA FlattensExists == ASSUME NEW q \in Seq(Seq(Nat)) PROVE \E g : Flattens(g, q)
<1> DEFINE S == {n \in Nat : \A t \in Seq(Seq(Nat)) : Len(t) = n => \E g : Flattens(g, t)}
<1>1. 0 \in S
  <2>1. SUFFICES ASSUME NEW t \in Seq(Seq(Nat)), Len(t) = 0 PROVE \E g : Flattens(g, t) OBVIOUS
  <2> DEFINE g == [n \in {} |-> << >>]
             h == [i \in 1 .. Len(t) |-> IF i = 1 THEN t[i] ELSE g[i - 1] \o t[i]]
  <2>2. 1 .. Len(t) = {} BY <2>1
  <2>3. g = h BY <2>2
  <2> QED BY <2>3 DEF Flattens
<1>2. ASSUME NEW n \in Nat, n \in S PROVE n + 1 \in S
  <2>1. SUFFICES ASSUME NEW t \in Seq(Seq(Nat)), Len(t) = n + 1 PROVE \E g : Flattens(g, t) OBVIOUS
  <2> DEFINE u == SubSeq(t, 1, n)
  <2>2. u \in Seq(Seq(Nat)) /\ Len(u) = n /\ \A i \in 1 .. n : u[i] = t[i] BY <2>1
  <2>3. PICK g : Flattens(g, u) BY <1>2, <2>2
  <2> HIDE DEF u
  <2>0. n # 0 => /\ g[1] = u[1]
                 /\ \A m \in Nat : m # 0 /\ m + 1 =< Len(u) => g[m + 1] = g[m] \o u[m + 1]
    <3>1. u \in Seq(Seq(Nat)) /\ (n # 0 => Len(u) # 0) BY <2>2
    <3> QED BY ONLY <2>3, <3>1, FlattensStep
  <2> DEFINE h == [i \in 1 .. (n + 1) |-> IF i =< n THEN g[i] ELSE IF i = 1 THEN t[i] ELSE g[n] \o t[i]]
             k == [i \in 1 .. Len(t) |-> IF i = 1 THEN t[i] ELSE h[i - 1] \o t[i]]
  <2>4. ASSUME NEW i \in 1 .. (n + 1) PROVE h[i] = k[i]
    <3>1. CASE i =< n /\ i = 1
      <4>1. 1 \in 1 .. n /\ n # 0 BY <3>1
      <4>2. g[1] = u[1] /\ u[1] = t[1] BY <2>0, <2>2, <4>1
      <4>3. h[i] = g[1] BY <3>1
      <4>4. i \in 1 .. Len(t) BY <2>1
      <4>5. k[i] = t[1] BY <3>1, <4>4
      <4> HIDE DEF h, k
      <4> QED BY <4>2, <4>3, <4>5
    <3>2. CASE i =< n /\ i # 1
      <4> DEFINE j == i - 1
      <4>1. j \in Nat /\ j # 0 /\ j + 1 = i /\ i \in 1 .. n /\ j \in 1 .. (n + 1) /\ j =< n BY <3>2
      <4>2. j + 1 =< Len(u) /\ Len(u) # 0 BY <2>2, <4>1
      <4> HIDE DEF j
      <4>3. g[j + 1] = g[j] \o u[j + 1]
        <5>1. n # 0 BY <4>1
        <5> QED BY <2>0, <4>1, <4>2, <5>1
      <4>4. h[i] = g[i] /\ h[j] = g[j] /\ u[i] = t[i] BY <2>2, <3>2, <4>1
      <4>5. k[i] = h[j] \o t[i] BY <2>1, <3>2 DEF j
      <4> HIDE DEF h, k
      <4> QED BY <4>1, <4>3, <4>4, <4>5
    <3>3. CASE ~(i =< n)
      <4>1. i = n + 1 BY <3>3
      <4>2. CASE i = 1 BY <2>1, <3>3, <4>2
      <4>3. CASE i # 1
        <5>1. n \in 1 .. (n + 1) /\ n =< n /\ i - 1 = n BY <4>1, <4>3
        <5>2. h[n] = g[n] BY <5>1
        <5>3. h[i] = g[n] \o t[i] BY <3>3, <4>3
        <5>4. k[i] = h[n] \o t[i] BY <2>1, <4>3, <5>1
        <5> HIDE DEF h, k
        <5> QED BY <5>2, <5>3, <5>4
      <4> QED BY <4>2, <4>3
    <3> QED BY <3>1, <3>2, <3>3
  <2>5. h = k
    <3>1. k = [i \in 1 .. (n + 1) |-> IF i = 1 THEN t[i] ELSE h[i - 1] \o t[i]] BY <2>1
    <3>2. DOMAIN h = 1 .. (n + 1) /\ DOMAIN k = 1 .. (n + 1) BY <3>1
    <3>3. h = [i \in DOMAIN h |-> h[i]] /\ k = [i \in DOMAIN k |-> k[i]] OBVIOUS
    <3> HIDE DEF h, k
    <3> QED BY <2>4, <3>2, <3>3
  <2>6. Flattens(h, t) BY <2>5 DEF Flattens
  <2> QED BY <2>6
<1>3. S \in SUBSET Nat OBVIOUS
<1> HIDE DEF S
<1>4. \A n \in Nat : n \in S BY <1>1, <1>2, <1>3, Induction
<1>5. Len(q) \in S BY <1>4
<1> QED BY <1>5 DEF S

LEMMA FlattenIs ==
    ASSUME NEW q \in Seq(Seq(Nat)), Len(q) # 0
    PROVE  \E g : Flattens(g, q) /\ FlattenSeq(q) = g[Len(q)]
<1> DEFINE g == CHOOSE g : Flattens(g, q)
<1>1. Flattens(g, q) BY FlattensExists
<1>2. FlattenSeq(q) = g[Len(q)] BY DEF FlattenSeq, Flattens
<1> QED BY <1>1, <1>2

LEMMA FlattenEmpty == FlattenSeq(<< >>) = << >>
BY DEF FlattenSeq

LEMMA FlattenType == ASSUME NEW q \in Seq(Seq(Nat)) PROVE FlattenSeq(q) \in Seq(Nat)
<1>0. Len(q) \in Nat OBVIOUS
<1>1. CASE Len(q) = 0
  <2>1. q = << >> BY <1>1
  <2>2. << >> \in Seq(Nat) OBVIOUS
  <2> QED BY <2>1, <2>2, FlattenEmpty
<1>2. CASE Len(q) # 0
  <2>1. PICK g : Flattens(g, q) /\ FlattenSeq(q) = g[Len(q)] BY <1>2, FlattenIs
  <2>2. Len(q) =< Len(q) BY <1>0
  <2> QED BY <1>0, <1>2, <2>1, <2>2, FlattensType
<1> QED BY <1>1, <1>2

LEMMA FlattensAgree ==
    ASSUME NEW q \in Seq(Seq(Nat)), NEW t \in Seq(Seq(Nat)), NEW g, NEW h, Flattens(g, q), Flattens(h, t),
           Len(q) # 0, Len(q) =< Len(t), \A i \in 1 .. Len(q) : q[i] = t[i]
    PROVE  g[Len(q)] = h[Len(q)]
<1> DEFINE S == {n \in Nat : n # 0 /\ n =< Len(q) => g[n] = h[n]}
<1>0. Len(q) \in Nat /\ Len(t) \in Nat /\ Len(t) # 0
  <2>1. Len(q) \in Nat /\ Len(t) \in Nat OBVIOUS
  <2> QED BY <2>1
<1>1. 0 \in S OBVIOUS
<1>6. g[1] = q[1] /\ \A n \in Nat : n # 0 /\ n + 1 =< Len(q) => g[n + 1] = g[n] \o q[n + 1] BY FlattensStep
<1>7. h[1] = t[1] /\ \A n \in Nat : n # 0 /\ n + 1 =< Len(t) => h[n + 1] = h[n] \o t[n + 1] BY <1>0, FlattensStep
<1>2. ASSUME NEW n \in Nat, n \in S PROVE n + 1 \in S
  <2>1. SUFFICES ASSUME n + 1 =< Len(q) PROVE g[n + 1] = h[n + 1] OBVIOUS
  <2>2. n + 1 \in 1 .. Len(q) /\ n + 1 =< Len(t) BY <1>0, <2>1
  <2>3. q[n + 1] = t[n + 1] BY <2>2
  <2>4. CASE n = 0
    <3>1. n + 1 = 1 BY <2>4
    <3> QED BY <1>6, <1>7, <2>3, <3>1
  <2>5. CASE n # 0
    <3>1. g[n] = h[n] BY <1>0, <1>2, <2>1, <2>5
    <3>2. g[n + 1] = g[n] \o q[n + 1] BY <1>6, <2>1, <2>5
    <3>3. h[n + 1] = h[n] \o t[n + 1] BY <1>7, <2>2, <2>5
    <3> QED BY <2>3, <3>1, <3>2, <3>3
  <2> QED BY <2>4, <2>5
<1>3. S \in SUBSET Nat OBVIOUS
<1> HIDE DEF S
<1>4. \A n \in Nat : n \in S BY <1>1, <1>2, <1>3, Induction
<1>5. Len(q) =< Len(q) BY <1>0
<1> QED BY <1>0, <1>4, <1>5 DEF S

LEMMA FlattenAppend ==
    ASSUME NEW q \in Seq(Seq(Nat)), NEW x \in Seq(Nat)
    PROVE  FlattenSeq(Append(q, x)) = FlattenSeq(q) \o x
<1> DEFINE t == Append(q, x)
<1>1. /\ t \in Seq(Seq(Nat)) /\ Len(q) \in Nat /\ Len(t) = Len(q) + 1 /\ t[Len(q) + 1] = x
      /\ \A i \in 1 .. Len(q) : q[i] = t[i]
  OBVIOUS
<1> HIDE DEF t
<1>2. Len(t) # 0 /\ Len(q) =< Len(t) BY <1>1
<1>3. PICK h : Flattens(h, t) /\ FlattenSeq(t) = h[Len(t)] BY <1>1, <1>2, FlattenIs
<1>4. CASE Len(q) = 0
  <2>1. q = << >> /\ Len(t) = 1 /\ t[1] = x BY <1>1, <1>4
  <2>2. h[1] = t[1] BY <1>1, <1>2, <1>3, FlattensStep
  <2>3. << >> \o x = x OBVIOUS
  <2> QED BY <1>3, <2>1, <2>2, <2>3, FlattenEmpty DEF t
<1>5. CASE Len(q) # 0
  <2>1. PICK g : Flattens(g, q) /\ FlattenSeq(q) = g[Len(q)] BY <1>5, FlattenIs
  <2>2. g[Len(q)] = h[Len(q)] BY <1>1, <1>2, <1>3, <1>5, <2>1, FlattensAgree
  <2>3. Len(q) + 1 =< Len(t) BY <1>1
  <2>4. h[Len(q) + 1] = h[Len(q)] \o t[Len(q) + 1] BY <1>1, <1>2, <1>3, <1>5, <2>3, FlattensStep
  <2> QED BY <1>1, <1>3, <2>1, <2>2, <2>4 DEF t
<1> QED BY <1>4, <1>5

\* The segments of a generation, and what they ship.
Pieces(segs) ==
    /\ Len(segs) \in Nat /\ DOMAIN segs = 1 .. Len(segs)
    /\ \A i \in 1 .. Len(segs) : segs[i].frames \in Seq(Nat)

LEMMA PiecesIn ==
    ASSUME NEW S, \A o \in S : o.frames \in Seq(Nat), NEW segs \in Seq(S)
    PROVE  Pieces(segs)
<1>1. Len(segs) \in Nat /\ DOMAIN segs = 1 .. Len(segs) OBVIOUS
<1>2. \A i \in 1 .. Len(segs) : segs[i] \in S OBVIOUS
<1> QED BY <1>1, <1>2 DEF Pieces

LEMMA ShippedType == ASSUME NEW segs, Pieces(segs) PROVE Shipped(segs) \in Seq(Nat)
<1> DEFINE q == [i \in DOMAIN segs |-> segs[i].frames]
<1>1. q \in Seq(Seq(Nat)) BY DEF Pieces
<1>2. Shipped(segs) = FlattenSeq(q) BY DEF Shipped
<1> HIDE DEF q
<1> QED BY <1>1, <1>2, FlattenType

LEMMA ShippedNone == Shipped(<< >>) = << >>
<1>1. [i \in DOMAIN << >> |-> << >>[i].frames] = << >> OBVIOUS
<1> QED BY <1>1, FlattenEmpty DEF Shipped

LEMMA ShippedAppend ==
    ASSUME NEW S, NEW segs \in Seq(S), Pieces(segs), NEW s, s.frames \in Seq(Nat)
    PROVE  Shipped(Append(segs, s)) = Shipped(segs) \o s.frames
<1> DEFINE q == [i \in DOMAIN segs |-> segs[i].frames]
           t == Append(segs, s)
           r == [i \in DOMAIN t |-> t[i].frames]
<1>1. q \in Seq(Seq(Nat)) /\ Len(q) = Len(segs) /\ Len(q) \in Nat BY DEF Pieces
<1>2. /\ Len(t) = Len(segs) + 1 /\ DOMAIN t = 1 .. Len(segs) + 1 /\ t[Len(segs) + 1] = s
      /\ \A i \in 1 .. Len(segs) : t[i] = segs[i]
  OBVIOUS
<1> DEFINE x == s.frames
           u == Append(q, x)
<1>3. u \in Seq(Seq(Nat)) /\ Len(u) = Len(q) + 1 /\ u[Len(q) + 1] = x /\ \A i \in 1 .. Len(q) : u[i] = q[i]
  <2> HIDE DEF q, x
  <2>1. x \in Seq(Nat) BY DEF x
  <2> QED BY <1>1, <2>1
<1>4. \A i \in 1 .. Len(segs) : q[i] = segs[i].frames BY DEF Pieces
<1>5. DOMAIN r = 1 .. Len(segs) + 1 /\ \A i \in 1 .. Len(segs) + 1 : r[i] = t[i].frames BY <1>2
<1>6. DOMAIN u = 1 .. Len(segs) + 1 BY <1>1, <1>3
<1>7. r = u
  <2>1. r = [i \in DOMAIN r |-> r[i]] OBVIOUS
  <2>2. u = [i \in DOMAIN u |-> u[i]] BY <1>3
  <2> HIDE DEF r, u, q, t
  <2>3. ASSUME NEW i \in 1 .. Len(segs) + 1 PROVE r[i] = u[i]
    <3>1. CASE i = Len(segs) + 1 BY <1>1, <1>2, <1>3, <1>5, <3>1 DEF x
    <3>2. CASE i # Len(segs) + 1
      <4>1. i \in 1 .. Len(segs) BY <1>1, <3>2
      <4> QED BY <1>1, <1>2, <1>3, <1>4, <1>5, <4>1
    <3> QED BY <3>1, <3>2
  <2> QED BY <1>5, <1>6, <2>1, <2>2, <2>3
<1>8. Shipped(t) = FlattenSeq(r) /\ Shipped(segs) = FlattenSeq(q) BY DEF Shipped
<1>9. x \in Seq(Nat) OBVIOUS
<1> HIDE DEF q, r, u, x
<1>10. FlattenSeq(u) = FlattenSeq(q) \o x BY <1>1, <1>9, FlattenAppend DEF u
<1> QED BY <1>7, <1>8, <1>10 DEF x

-----------------------------------------------------------------------------
(* What a restore point gives back.                                        *)

\* The objects in the bucket that are of the generation of g, a manifest or a
\* generation, are parts of the durable history d, each at its place.
Holds(g, b, d) ==
    /\ g.floor \in Nat /\ (g.snap = 0 => g.floor = 0)
    /\ \A o \in b.snaps : o.num = g.num => Len(o.snap.state) = g.floor /\ Begins(o.snap.state, d)
    /\ \A o \in b.segs : o.num = g.num => At(o.frames, g.floor + o.start, d)
    /\ At(Shipped(g.segs), g.floor, d)

ObjectType(b) ==
    /\ \A o \in b.snaps : o.num \in Int /\ o.snap.state \in Seq(Nat)
    /\ \A o \in b.segs : o.num \in Int /\ o.start \in Nat /\ o.frames \in Seq(Nat)
    /\ \A m \in b.mans : m.num \in Int
    /\ IsFiniteSet(b.segs)

LEMMA JoinAt ==
    ASSUME NEW s \in Seq(Nat), NEW t \in Seq(Nat), NEW q \in Seq(Nat), NEW n \in Nat,
           At(s, n, q), At(t, n + Len(s), q)
    PROVE  At(s \o t, n, q)
<1>0. Len(s) \in Nat /\ Len(t) \in Nat /\ Len(q) \in Nat OBVIOUS
<1> DEFINE r == s \o t
<1>1. /\ r \in Seq(Nat) /\ Len(r) = Len(s) + Len(t)
      /\ \A i \in 1 .. Len(s) : r[i] = s[i]
      /\ \A i \in 1 .. Len(t) : r[Len(s) + i] = t[i]
  BY JoinFacts
<1> HIDE DEF r
<1>2. n + Len(r) =< Len(q) BY <1>0, <1>1 DEF At
<1>3. ASSUME NEW i \in 1 .. Len(r) PROVE r[i] = q[n + i]
  <2>1. CASE ~(i > Len(s))
    <3>1. i \in 1 .. Len(s) BY <1>0, <1>1, <2>1
    <3> QED BY <1>1, <3>1 DEF At
  <2>2. CASE i > Len(s)
    <3> DEFINE j == i - Len(s)
    <3>1. j \in 1 .. Len(t) /\ i = Len(s) + j /\ (n + Len(s)) + j = n + i BY <1>0, <1>1, <2>2
    <3> HIDE DEF j
    <3>2. r[i] = t[j] BY <1>1, <3>1
    <3>3. t[j] = q[(n + Len(s)) + j] BY <3>1 DEF At
    <3> QED BY <3>1, <3>2, <3>3
  <2> QED BY <2>1, <2>2
<1>4. At(r, n, q) BY <1>2, <1>3 DEF At
<1> QED BY <1>4 DEF r

LEMMA BeginsIsAt ==
    ASSUME NEW s \in Seq(Nat), NEW q \in Seq(Nat)
    PROVE  Begins(s, q) <=> At(s, 0, q)
<1>0. Len(s) \in Nat /\ Len(q) \in Nat OBVIOUS
<1>1. \A i \in 1 .. Len(s) : 0 + i = i BY <1>0
<1>2. 0 + Len(s) = Len(s) BY <1>0
<1> QED BY <1>1, <1>2 DEF Begins, At

LEMMA JoinBegins ==
    ASSUME NEW s \in Seq(Nat), NEW t \in Seq(Nat), NEW q \in Seq(Nat), Begins(s, q), At(t, Len(s), q)
    PROVE  Begins(s \o t, q)
<1>1. At(s, 0, q) BY BeginsIsAt
<1>2. 0 + Len(s) = Len(s) OBVIOUS
<1>3. At(s \o t, 0, q)
  <2>1. At(t, 0 + Len(s), q) BY <1>2
  <2> QED BY <1>1, <2>1, JoinAt
<1>4. s \o t \in Seq(Nat) OBVIOUS
<1> QED BY <1>3, <1>4, BeginsIsAt

\* The directory a restore makes of a manifest, and of the frames after it.
LEMMA RestoredIs ==
    ASSUME Durable \in Seq(Nat), ObjectType(bucket), NEW m, Whole(m, bucket), Holds(m, bucket, Durable),
           NEW more \in Seq(Nat), At(more, m.floor + Len(Shipped(m.segs)), Durable)
    PROVE  /\ Restored(m, more) \in Seq(Nat) /\ Begins(Restored(m, more), Durable)
           /\ Len(Restored(m, more)) = m.floor + Len(Shipped(m.segs)) + Len(more)
<1>1. m.floor \in Nat BY DEF Holds
<1> DEFINE f == Shipped(m.segs)
           b == Base(m).state
<1>2. f \in Seq(Nat) /\ At(f, m.floor, Durable) /\ Len(f) \in Nat
  <2>1. \A o \in bucket.segs : o.frames \in Seq(Nat) BY DEF ObjectType
  <2>2. m.segs \in Seq(bucket.segs) BY DEF Whole
  <2>3. Pieces(m.segs) BY <2>1, <2>2, PiecesIn
  <2>4. f \in Seq(Nat) BY <2>3, ShippedType
  <2> QED BY <2>4 DEF Holds
<1>3. b \in Seq(Nat) /\ Len(b) = m.floor /\ Begins(b, Durable)
  <2>1. CASE m.snap = 0
    <3>1. b = << >> BY <2>1 DEF Base, NoSnap
    <3>2. m.floor = 0 BY <2>1 DEF Holds
    <3>3. << >> \in Seq(Nat) /\ Len(<< >>) = 0 OBVIOUS
    <3>4. Begins(<< >>, Durable) BY <3>3 DEF Begins
    <3> QED BY <3>1, <3>2, <3>3, <3>4
  <2>2. CASE m.snap # 0
    <3> DEFINE o == CHOOSE o \in {x \in bucket.snaps : x.num = m.num} : TRUE
    <3>1. o \in bucket.snaps /\ o.num = m.num BY <2>2 DEF Whole
    <3>2. b = o.snap.state BY <2>2 DEF Base
    <3> HIDE DEF o, b
    <3> QED BY <3>1, <3>2 DEF Holds, ObjectType
  <2> QED BY <2>1, <2>2
<1> HIDE DEF f, b
<1>4. HeldFrames(Base(m), f \o more, {}) = 0
  <2>1. Standing(Base(m), f \o more, {}) = {} BY DEF Standing
  <2>2. {0} \cup {Len(i.frames) : i \in {}} = {0} OBVIOUS
  <2>3. Max({0}) = 0
    <3>1. \A x \in {0} : x = 0 OBVIOUS
    <3>2. \E x \in {0} : \A y \in {0} : x >= y OBVIOUS
    <3> QED BY <3>1, <3>2 DEF Max
  <2> QED BY <2>1, <2>2, <2>3 DEF HeldFrames
<1> DEFINE w == f \o more
<1>5. w \in Seq(Nat) /\ Len(w) = Len(f) + Len(more) BY <1>2, JoinFacts
<1>6. At(w, m.floor, Durable)
  <2>1. At(more, m.floor + Len(f), Durable) BY DEF f
  <2> QED BY <1>1, <1>2, <2>1, JoinAt
<1>7. Restored(m, more) = b \o SubSeq(w, 1, Len(w))
  <2>1. 0 + 1 = 1 OBVIOUS
  <2> QED BY <1>4, <2>1 DEF Restored, Loaded, b, f
<1> HIDE DEF w
<1>8. SubSeq(w, 1, Len(w)) = w BY <1>5
<1>9. b \o w \in Seq(Nat) /\ Len(b \o w) = m.floor + Len(w)
  <2>1. b \o w \in Seq(Nat) /\ Len(b \o w) = Len(b) + Len(w) BY <1>3, <1>5, JoinFacts
  <2> QED BY <1>3, <2>1
<1>10. Begins(b \o w, Durable) BY <1>3, <1>5, <1>6, JoinBegins
<1>11. Len(b \o w) = m.floor + Len(f) + Len(more) BY <1>1, <1>2, <1>5, <1>9
<1> QED BY <1>7, <1>8, <1>9, <1>10, <1>11 DEF f

\* A beginning is told by its length.
LEMMA BeginningIs ==
    ASSUME NEW s \in Seq(Nat), NEW q \in Seq(Nat), Begins(s, q) PROVE s = SubSeq(q, 1, Len(s))
<1>0. Len(s) \in Nat /\ Len(q) \in Nat /\ Len(s) =< Len(q) BY DEF Begins
<1> DEFINE n == Len(s)
<1>1. n \in Nat /\ n =< Len(q) BY <1>0
<1> HIDE DEF n
<1> DEFINE t == SubSeq(q, 1, n)
<1>2. t \in Seq(Nat) /\ Len(t) = n /\ \A i \in 1 .. n : t[i] = q[i] BY <1>1, Cutting
<1> HIDE DEF t
<1>3. \A i \in 1 .. Len(s) : s[i] = t[i] BY <1>2 DEF n, Begins
<1>4. s = t BY <1>2, <1>3, SameSeq DEF n
<1> QED BY <1>4 DEF t, n

\* A restore point is the durable history up to its number.
LEMMA PointIs ==
    ASSUME Durable \in Seq(Nat), ObjectType(bucket), NEW m, Whole(m, bucket), Holds(m, bucket, Durable),
           m.n = m.floor + Len(Shipped(m.segs))
    PROVE  /\ Restored(m, << >>) = SubSeq(Durable, 1, m.n) /\ m.n \in Nat /\ m.n =< Len(Durable)
<1>0. /\ << >> \in Seq(Nat) /\ Len(<< >>) = 0 OBVIOUS
<1>1. m.floor \in Nat /\ At(Shipped(m.segs), m.floor, Durable) BY DEF Holds
<1>2. Len(Shipped(m.segs)) \in Nat
  <2>1. \A o \in bucket.segs : o.frames \in Seq(Nat) BY DEF ObjectType
  <2>2. m.segs \in Seq(bucket.segs) BY DEF Whole
  <2>3. Pieces(m.segs) BY <2>1, <2>2, PiecesIn
  <2>4. Shipped(m.segs) \in Seq(Nat) BY <2>3, ShippedType
  <2> QED BY <2>4
<1>3. At(<< >>, m.floor + Len(Shipped(m.segs)), Durable)
  <2> DEFINE k == m.floor + Len(Shipped(m.segs))
  <2>1. k =< Len(Durable) /\ k \in Nat BY <1>1, <1>2 DEF At
  <2> HIDE DEF k
  <2>2. k + Len(<< >>) =< Len(Durable) BY <1>0, <2>1
  <2>3. At(<< >>, k, Durable) BY <1>0, <2>2 DEF At
  <2> QED BY <2>3 DEF k
<1> DEFINE r == Restored(m, << >>)
<1>4. r \in Seq(Nat) /\ Begins(r, Durable) /\ Len(r) = m.floor + Len(Shipped(m.segs)) + 0
  BY <1>0, <1>3, RestoredIs
<1> HIDE DEF r
<1>5. Len(r) = m.n BY <1>1, <1>2, <1>4
<1>6. r = SubSeq(Durable, 1, Len(r)) BY <1>4, BeginningIs
<1>7. m.n \in Nat /\ m.n =< Len(Durable) BY <1>4, <1>5 DEF Begins
<1> QED BY <1>5, <1>6, <1>7 DEF r

-----------------------------------------------------------------------------
(* tail_segments.                                                          *)

Runs(g, n, a) == g = [k \in 0 .. n |-> IF k = 0 THEN a ELSE TakeNext(g[k - 1])]

LEMMA RunsStep ==
    ASSUME NEW n \in Nat, NEW a, NEW g, Runs(g, n, a)
    PROVE  g[0] = a /\ \A k \in Nat : k + 1 =< n => g[k + 1] = TakeNext(g[k])
<1>1. g[0] = a
  <2>1. 0 \in 0 .. n OBVIOUS
  <2> QED BY <2>1 DEF Runs
<1>2. ASSUME NEW k \in Nat, k + 1 =< n PROVE g[k + 1] = TakeNext(g[k])
  <2>1. k + 1 \in 0 .. n /\ k + 1 # 0 /\ (k + 1) - 1 = k BY <1>2
  <2> QED BY <2>1 DEF Runs
<1> QED BY <1>1, <1>2

LEMMA RunsExists == ASSUME NEW a PROVE \A n \in Nat : \E g : Runs(g, n, a)
<1> DEFINE S == {n \in Nat : \E g : Runs(g, n, a)}
<1>1. 0 \in S
  <2> DEFINE g == [k \in 0 .. 0 |-> a]
             h == [k \in 0 .. 0 |-> IF k = 0 THEN a ELSE TakeNext(g[k - 1])]
  <2>1. \A k \in 0 .. 0 : k = 0 OBVIOUS
  <2>2. g = h BY <2>1
  <2>3. Runs(g, 0, a) BY <2>2 DEF Runs
  <2> QED BY <2>3
<1>2. ASSUME NEW n \in Nat, n \in S PROVE n + 1 \in S
  <2>1. PICK g : Runs(g, n, a) BY <1>2
  <2> DEFINE h == [k \in 0 .. (n + 1) |-> IF k =< n THEN g[k] ELSE TakeNext(g[n])]
             w == [k \in 0 .. (n + 1) |-> IF k = 0 THEN a ELSE TakeNext(h[k - 1])]
  <2>2. ASSUME NEW k \in 0 .. (n + 1) PROVE h[k] = w[k]
    <3>1. CASE k = 0
      <4>1. g[0] = a BY <2>1, RunsStep
      <4> QED BY <3>1, <4>1
    <3>2. CASE k # 0 /\ k =< n
      <4> DEFINE j == k - 1
      <4>1. j \in Nat /\ j + 1 = k /\ j + 1 =< n /\ j \in 0 .. (n + 1) /\ j =< n BY <3>2
      <4>2. w[k] = TakeNext(h[j]) BY <3>2
      <4> HIDE DEF j
      <4>3. g[j + 1] = TakeNext(g[j]) BY <2>1, <4>1, RunsStep
      <4>4. h[k] = g[k] /\ h[j] = g[j] BY <3>2, <4>1
      <4> QED BY <4>1, <4>2, <4>3, <4>4
    <3>3. CASE ~(k =< n)
      <4>1. k = n + 1 /\ k - 1 = n /\ k # 0 /\ n \in 0 .. (n + 1) /\ n =< n BY <3>3
      <4>2. h[n] = g[n] /\ h[k] = TakeNext(g[n]) /\ w[k] = TakeNext(h[n]) BY <3>3, <4>1
      <4> QED BY <4>2
    <3> QED BY <3>1, <3>2, <3>3
  <2>3. h = w BY <2>2
  <2>4. Runs(h, n + 1, a) BY <2>3 DEF Runs
  <2> QED BY <2>4
<1>3. S \in SUBSET Nat OBVIOUS
<1> HIDE DEF S
<1>4. \A n \in Nat : n \in S BY <1>1, <1>2, <1>3, Induction
<1> QED BY <1>4 DEF S

\* What has been taken follows what was there, and so does the next segment.
Taken(t, m, e, later) ==
    /\ t.frames \in Seq(Nat) /\ t.end = e + Len(t.frames) /\ t.rest \subseteq later
    /\ At(t.frames, m.floor + e, Durable)

LEMMA TakeNextKeeps ==
    ASSUME Durable \in Seq(Nat), ObjectType(bucket), NEW m, Holds(m, bucket, Durable), NEW e \in Nat,
           NEW later, later \subseteq {o \in bucket.segs : o.num = m.num},
           NEW t, Fields(t, {"end", "frames", "rest"}), Taken(t, m, e, later)
    PROVE  Fields(TakeNext(t), {"end", "frames", "rest"}) /\ Taken(TakeNext(t), m, e, later)
<1> DEFINE next == {x \in t.rest : x.start = t.end /\ \A o \in t.rest \ {x} : KeyBefore(x, o)}
           s == CHOOSE x \in next : TRUE
           q == [end |-> t.end + Len(s.frames), frames |-> t.frames \o s.frames, rest |-> t.rest \ {s}]
<1>0. TakeNext(t) = IF next = {} THEN [t EXCEPT !.rest = {}] ELSE q BY DEF TakeNext
<1>1. CASE next = {}
  <2> DEFINE r == [t EXCEPT !.rest = {}]
  <2>1. Fields(r, {"end", "frames", "rest"}) /\ r.end = t.end /\ r.frames = t.frames /\ r.rest = {}
    BY DEF Fields
  <2>2. TakeNext(t) = r BY <1>0, <1>1
  <2> HIDE DEF r
  <2> QED BY <2>1, <2>2 DEF Taken
<1>2. CASE next # {}
  <2>1. s \in next BY <1>2
  <2>2. s \in t.rest /\ s.start = t.end BY <2>1
  <2>3. /\ Fields(q, {"end", "frames", "rest"})
        /\ q.end = t.end + Len(s.frames) /\ q.frames = t.frames \o s.frames /\ q.rest = t.rest \ {s}
    BY DEF Fields
  <2>4. TakeNext(t) = q BY <1>0, <1>2
  <2> HIDE DEF s, q, next
  <2>5. s \in bucket.segs /\ s.num = m.num BY <2>2 DEF Taken
  <2>6. s.frames \in Seq(Nat) /\ s.start \in Nat BY <2>5 DEF ObjectType
  <2>7. At(s.frames, m.floor + s.start, Durable) /\ m.floor \in Nat BY <2>5 DEF Holds
  <2>8. t.frames \in Seq(Nat) /\ t.end = e + Len(t.frames) /\ At(t.frames, m.floor + e, Durable)
    BY DEF Taken
  <2> DEFINE a == t.frames
             b == s.frames
             n == m.floor + e
  <2>9. a \in Seq(Nat) /\ b \in Seq(Nat) /\ n \in Nat /\ At(a, n, Durable) /\ Len(a) \in Nat /\ Len(b) \in Nat
    BY <2>6, <2>7, <2>8
  <2>10. m.floor + s.start = n + Len(a) BY <2>2, <2>7, <2>8, <2>9
  <2>11. At(b, n + Len(a), Durable) BY <2>7, <2>10
  <2> HIDE DEF a, b, n
  <2>12. At(a \o b, n, Durable) BY <2>9, <2>11, JoinAt
  <2>13. a \o b \in Seq(Nat) /\ Len(a \o b) = Len(a) + Len(b) BY <2>9, JoinFacts
  <2>14. q.frames = a \o b /\ q.end = (e + Len(a)) + Len(b) BY <2>3, <2>8 DEF a, b
  <2>15. q.end = e + Len(q.frames) BY <2>9, <2>13, <2>14
  <2>16. q.rest \subseteq later BY <2>3 DEF Taken
  <2>17. At(q.frames, m.floor + e, Durable) BY <2>12, <2>14 DEF n
  <2> QED BY <2>3, <2>4, <2>13, <2>14, <2>15, <2>16, <2>17 DEF Taken
<1> QED BY <1>1, <1>2

LEMMA TailIs ==
    ASSUME Durable \in Seq(Nat), ObjectType(bucket), NEW m, Whole(m, bucket), Holds(m, bucket, Durable)
    PROVE  TailOf(m) \in Seq(Nat) /\ At(TailOf(m), m.floor + Len(Shipped(m.segs)), Durable)
<1> DEFINE e == Len(Shipped(m.segs))
           later == {s \in bucket.segs : s.num = m.num /\ s.start >= e}
           n == Cardinality(later)
           a == [end |-> e, frames |-> << >>, rest |-> later]
           F == {"end", "frames", "rest"}
<1>1. e \in Nat
  <2>1. \A o \in bucket.segs : o.frames \in Seq(Nat) BY DEF ObjectType
  <2>2. m.segs \in Seq(bucket.segs) BY DEF Whole
  <2>3. Pieces(m.segs) BY <2>1, <2>2, PiecesIn
  <2>4. Shipped(m.segs) \in Seq(Nat) BY <2>3, ShippedType
  <2> QED BY <2>4
<1>2. later \subseteq {o \in bucket.segs : o.num = m.num} OBVIOUS
<1>3. n \in Nat
  <2>1. IsFiniteSet(bucket.segs) BY DEF ObjectType
  <2>2. later \subseteq bucket.segs OBVIOUS
  <2> HIDE DEF later
  <2>3. IsFiniteSet(later) BY <2>1, <2>2, FS_Subset
  <2> QED BY <2>3, FS_CardinalityType
<1> DEFINE g == CHOOSE g : Runs(g, n, a)
<1>4. TailOf(m) = g[n].frames BY DEF TailOf, Runs
<1>5. Runs(g, n, a)
  <2> HIDE DEF n, a
  <2> QED BY <1>3, RunsExists
<1>6. Fields(a, F) /\ Taken(a, m, e, later)
  <2>1. Fields(a, F) /\ a.end = e /\ a.frames = << >> /\ a.rest = later BY DEF Fields
  <2>2. << >> \in Seq(Nat) /\ Len(<< >>) = 0 OBVIOUS
  <2>3. At(<< >>, m.floor + e, Durable)
    <3>1. m.floor \in Nat /\ m.floor + e =< Len(Durable) BY DEF Holds, At
    <3> DEFINE k == m.floor + e
    <3>2. k \in Nat /\ k + Len(<< >>) =< Len(Durable) BY <1>1, <2>2, <3>1
    <3> HIDE DEF k
    <3>3. At(<< >>, k, Durable) BY <2>2, <3>2 DEF At
    <3> QED BY <3>3 DEF k
  <2> HIDE DEF a
  <2>4. a.end = e + Len(a.frames) BY <1>1, <2>1, <2>2
  <2> QED BY <2>1, <2>2, <2>3, <2>4 DEF Taken
<1> HIDE DEF g, a, n, later, e, F
<1> DEFINE S == {k \in Nat : k =< n => Fields(g[k], F) /\ Taken(g[k], m, e, later)}
<1>7. 0 \in S
  <2>1. g[0] = a BY <1>3, <1>5, RunsStep
  <2> QED BY <1>6, <2>1
<1>8. ASSUME NEW k \in Nat, k \in S PROVE k + 1 \in S
  <2> SUFFICES ASSUME k + 1 =< n PROVE Fields(g[k + 1], F) /\ Taken(g[k + 1], m, e, later) OBVIOUS
  <2>1. Fields(g[k], F) /\ Taken(g[k], m, e, later) BY <1>3, <1>8
  <2>2. g[k + 1] = TakeNext(g[k]) BY <1>3, <1>5, RunsStep
  <2>3. Fields(TakeNext(g[k]), F) /\ Taken(TakeNext(g[k]), m, e, later)
    BY <1>1, <1>2, <2>1, TakeNextKeeps DEF F
  <2> QED BY <2>2, <2>3
<1>9. S \in SUBSET Nat OBVIOUS
<1>10. n =< n BY <1>3
<1> HIDE DEF S
<1>11. \A k \in Nat : k \in S BY <1>7, <1>8, <1>9, Induction
<1>12. Taken(g[n], m, e, later) BY <1>3, <1>10, <1>11 DEF S
<1> QED BY <1>4, <1>12 DEF Taken, e

-----------------------------------------------------------------------------
(* What the worker has read, against the files as they are now.            *)

\* The files, and the store they make.
View == [snap |-> snap, wal |-> wal, floor |-> floor, stage |-> writer.stage,
         durable |-> Durable, line |-> Line]

Viewed(v) ==
    /\ v.snap \in [id : Nat, state : Seq(Nat)] /\ v.wal \in Wals /\ v.floor \in Nat
    /\ v.durable \in Seq(Nat) /\ v.line \in Seq(Nat)
    /\ v.snap.id = 0 => v.snap.state = << >>

\* Moved, of two views.
Moves(v, w) ==
    /\ v.snap.id =< w.snap.id
    /\ w.snap.id = v.snap.id => w.snap = v.snap
    /\ w.snap.id # v.snap.id => Begins(v.line, w.durable)
    /\ w.snap = v.snap /\ Len(v.snap.state) = v.floor => w.floor = v.floor
    /\ w.snap = v.snap /\ w.wal.id = v.wal.id => v.wal.synced =< w.wal.synced
    /\ w.snap = v.snap /\ w.wal.id # v.wal.id => v.stage = "written"
    /\ w.snap = v.snap /\ w.stage = "written" => w.wal.id = v.wal.id /\ v.stage = "written"
    /\ Begins(v.line, w.line)
    /\ Begins(v.durable, w.durable)

Looks == [snapshot : Int, wal : Int, len : Nat, intent : BOOLEAN]
LookPcs == {"lookSnapshot", "lookWal", "lookIntent"}

\* No snapshot of which the WAL still has frames: what a look at the intent
\* file shows that finds it empty, for the snapshot d.
Settled(d, v) == d.snapshot = v.snap.id => Len(v.snap.state) = v.floor

\* What the engine answered, while its snapshot and WAL are the files' own.
PosOK(p, v) ==
    /\ p \in Positions /\ p.snapshot =< v.snap.id
    /\ p.snapshot = v.snap.id /\ p.wal = v.wal.id => p.len =< v.wal.synced
    /\ p.snapshot = v.snap.id /\ v.stage = "written" => p.wal = v.wal.id

LookOf(s, v) ==
    /\ s.look \in Looks /\ s.disk \in Looks /\ s.before \in Positions
    /\ s.look.snapshot =< v.snap.id /\ s.disk.snapshot =< v.snap.id
    /\ Settled(s.disk, v) /\ PosOK(s.pos, v)
    /\ s.pc \notin LookPcs /\ ~s.look.intent => Settled(s.look, v)

\* The second look of a read shows, or will show, that the snapshot changed.
Shown(s, v) ==
    /\ v.snap.id > s.disk.snapshot
    /\ s.pc = "lookSnapshot" \/ s.look.snapshot > s.disk.snapshot

\* upload_base has read the snapshot and the floor, and looks again.
ToBase(s) == s.then \in {<<"unvouched", "baseRead">>, <<"baseRead">>} \/ s.pc = "baseRead"

ReadOf(s, v) ==
    /\ s.snap \in [id : Nat, state : Seq(Nat)] /\ s.snap.id =< v.snap.id
    /\ s.snap.id = v.snap.id => s.snap = v.snap
    /\ s.snap.id = 0 => s.snap = NoSnap
    /\ Begins(s.snap.state, v.durable)
    /\ s.floor \in Nat /\ s.frames \in Seq(Nat)

BaseOf(s, v) ==
    /\ s.pc \in {"openSnapshot", "readChain", "putSnapshot"} \/ ToBase(s) =>
          s.before.snapshot = s.disk.snapshot
    /\ ToBase(s) /\ s.snap.id = s.disk.snapshot => s.floor = Len(s.snap.state) \/ Shown(s, v)
    /\ s.pc = "putSnapshot" => s.floor = Len(s.snap.state) /\ s.snap.id = s.disk.snapshot

\* The frames read for a segment of the generation g, if any, are in q at their place.
Segment(s, g, q) == s.frames # << >> => At(s.frames, g.floor + Len(Shipped(g.segs)), q)

\* read_new_segment read a WAL that had taken the place of the one looked at;
\* the second look shows it, or will.
Switched(s, g, v) ==
    /\ v.snap.id = s.disk.snapshot /\ v.wal.id # s.disk.wal /\ v.stage # "written"
    /\ Segment(s, g, v.line)
    /\ s.pc \in {"lookSnapshot", "lookWal"} \/ s.look.wal # s.disk.wal

ToSegment(s) == s.then \in {<<"unvouched", "segmentRead">>, <<"segmentRead">>} \/ s.pc = "segmentRead"

SegmentOf(s, g, v) ==
    /\ s.pc = "readSegment" => g.key = Key(s.pos) /\ Follows(s.pos, s.disk)
    /\ ToSegment(s) => /\ g.key # << >> /\ s.disk.snapshot = g.snap
                       /\ Segment(s, g, v.durable) \/ Shown(s, v) \/ Switched(s, g, v)
    /\ s.pc = "putSegment" => s.frames # << >> /\ Segment(s, g, v.durable)

\* The generation the worker extends begins with the snapshot it is named for.
Keyed(g, v) ==
    /\ g.floor \in Nat /\ g.snap \in Nat /\ g.num \in Int /\ Pieces(g.segs)
    /\ g.key # << >> => /\ g.key[2] = g.snap /\ g.snap =< v.snap.id
                        /\ g.snap = v.snap.id => g.floor = v.floor /\ Len(v.snap.state) = v.floor

\* Only a look and a question have something to return to.
Still(s) == s.pc \notin LookPcs \cup {"unvouched", "fsync", "position"} => s.then = << >>

Work(s, g, v) == Still(s) /\ LookOf(s, v) /\ ReadOf(s, v) /\ BaseOf(s, v) /\ SegmentOf(s, g, v)

\* The files move on.
LEMMA WorkMoves ==
    ASSUME NEW s, NEW g, NEW v, NEW w, Viewed(v), Viewed(w), Moves(v, w), Work(s, g, v), Keyed(g, v)
    PROVE  Work(s, g, w) /\ Keyed(g, w)
<1>1. /\ v.snap.id \in Nat /\ w.snap.id \in Nat /\ v.floor \in Nat /\ w.floor \in Nat
      /\ v.snap.state \in Seq(Nat) /\ w.snap.state \in Seq(Nat)
      /\ v.wal.synced \in Nat /\ w.wal.synced \in Nat
      /\ v.durable \in Seq(Nat) /\ v.line \in Seq(Nat) /\ w.durable \in Seq(Nat) /\ w.line \in Seq(Nat)
  BY DEF Viewed, Wals
<1>2. /\ v.snap.id =< w.snap.id
      /\ w.snap.id = v.snap.id => w.snap = v.snap
      /\ Begins(v.line, w.line) /\ Begins(v.durable, w.durable)
  BY DEF Moves
<1>3. ASSUME NEW d, d.snapshot \in Int, d.snapshot =< v.snap.id, Settled(d, v) PROVE Settled(d, w)
  <2> SUFFICES ASSUME d.snapshot = w.snap.id PROVE Len(w.snap.state) = w.floor
    BY DEF Settled
  <2>1. v.snap.id = w.snap.id BY <1>1, <1>2, <1>3, Meets
  <2>2. Len(v.snap.state) = v.floor BY <1>3, <2>1 DEF Settled
  <2> QED BY <1>2, <2>1, <2>2 DEF Moves
<1>4. LookOf(s, w)
  <2>1. /\ s.look \in Looks /\ s.disk \in Looks /\ s.before \in Positions
        /\ s.look.snapshot =< v.snap.id /\ s.disk.snapshot =< v.snap.id
        /\ Settled(s.disk, v) /\ PosOK(s.pos, v)
        /\ s.pc \notin LookPcs /\ ~s.look.intent => Settled(s.look, v)
    BY DEF Work, LookOf
  <2>2. s.look.snapshot \in Int /\ s.disk.snapshot \in Int BY <2>1 DEF Looks
  <2>3. s.look.snapshot =< w.snap.id /\ s.disk.snapshot =< w.snap.id
    <3>1. s.look.snapshot =< w.snap.id BY <1>1, <1>2, <2>1, <2>2, Reaches
    <3>2. s.disk.snapshot =< w.snap.id BY <1>1, <1>2, <2>1, <2>2, Reaches
    <3> QED BY <3>1, <3>2
  <2>4. Settled(s.disk, w) BY <1>3, <2>1, <2>2
  <2>5. s.pc \notin LookPcs /\ ~s.look.intent => Settled(s.look, w) BY <1>3, <2>1, <2>2
  <2>6. PosOK(s.pos, w)
    <3> DEFINE p == s.pos
    <3>1. /\ p \in Positions /\ p.snapshot =< v.snap.id
          /\ p.snapshot = v.snap.id /\ p.wal = v.wal.id => p.len =< v.wal.synced
          /\ p.snapshot = v.snap.id /\ v.stage = "written" => p.wal = v.wal.id
      BY <2>1 DEF PosOK
    <3>2. p.snapshot \in Int /\ p.len \in Nat BY <3>1 DEF Positions
    <3> HIDE DEF p
    <3>3. p.snapshot =< w.snap.id BY <1>1, <1>2, <3>1, <3>2, Reaches
    <3>4. ASSUME p.snapshot = w.snap.id PROVE w.snap = v.snap /\ p.snapshot = v.snap.id
      <4>1. v.snap.id = w.snap.id BY <1>1, <1>2, <3>1, <3>2, <3>4, Meets
      <4> QED BY <1>2, <3>4, <4>1
    <3>5. ASSUME p.snapshot = w.snap.id, p.wal = w.wal.id PROVE p.len =< w.wal.synced
      <4>1. CASE w.wal.id = v.wal.id
        <5>1. p.len =< v.wal.synced /\ v.wal.synced =< w.wal.synced BY <3>1, <3>4, <3>5, <4>1 DEF Moves
        <5>2. p.len \in Int /\ v.wal.synced \in Nat /\ w.wal.synced \in Nat BY <1>1, <3>2
        <5> QED BY ONLY <5>1, <5>2, Reaches
      <4>2. CASE w.wal.id # v.wal.id
        <5>1. v.stage = "written" BY <3>4, <3>5, <4>2 DEF Moves
        <5> QED BY <3>1, <3>4, <3>5, <4>2, <5>1
      <4> QED BY <4>1, <4>2
    <3>6. ASSUME p.snapshot = w.snap.id, w.stage = "written" PROVE p.wal = w.wal.id
      BY <3>1, <3>4, <3>6 DEF Moves
    <3>7. PosOK(p, w) BY <3>1, <3>3, <3>5, <3>6 DEF PosOK
    <3> QED BY <3>7 DEF p
  <2> QED BY <2>1, <2>3, <2>4, <2>5, <2>6 DEF LookOf
<1>5. ReadOf(s, w)
  <2>1. /\ s.snap \in [id : Nat, state : Seq(Nat)] /\ s.snap.id =< v.snap.id
        /\ s.snap.id = v.snap.id => s.snap = v.snap
        /\ s.snap.id = 0 => s.snap = NoSnap
        /\ Begins(s.snap.state, v.durable)
        /\ s.floor \in Nat /\ s.frames \in Seq(Nat)
    BY DEF Work, ReadOf
  <2>2. s.snap.id \in Nat /\ s.snap.state \in Seq(Nat) BY <2>1
  <2> DEFINE a == s.snap.id
             b == v.snap.id
             c == w.snap.id
  <2>6. a \in Int /\ b \in Nat /\ c \in Nat /\ a =< b /\ b =< c BY <1>1, <1>2, <2>1, <2>2
  <2> HIDE DEF a, b, c
  <2>7. a =< c /\ (a = c => b = c) BY <2>6, Reaches, Meets
  <2>3. s.snap.id =< w.snap.id BY <2>7 DEF a, c
  <2>4. ASSUME s.snap.id = w.snap.id PROVE s.snap = w.snap
    <3>1. v.snap.id = w.snap.id BY <2>4, <2>7 DEF a, b, c
    <3> QED BY <1>2, <2>1, <2>4, <3>1
  <2>5. Begins(s.snap.state, w.durable) BY <1>1, <1>2, <2>1, <2>2, BeginsGrows
  <2> QED BY <2>1, <2>3, <2>4, <2>5 DEF ReadOf
<1>6. s.disk.snapshot \in Int BY DEF Work, LookOf, Looks
<1>7. Shown(s, v) => Shown(s, w)
  <2>0. \A a \in Int, b, c \in Nat : b > a /\ b =< c => c > a OBVIOUS
  <2>1. v.snap.id > s.disk.snapshot => w.snap.id > s.disk.snapshot BY <1>1, <1>2, <1>6, <2>0
  <2> QED BY <2>1 DEF Shown
<1>8. BaseOf(s, w) BY <1>7 DEF Work, BaseOf
<1>9. Segment(s, g, v.durable) => Segment(s, g, w.durable)
  <2>1. s.frames \in Seq(Nat) BY DEF Work, ReadOf
  <2>2. g.floor + Len(Shipped(g.segs)) \in Nat
    <3>1. g.floor \in Nat /\ Shipped(g.segs) \in Seq(Nat) BY ShippedType DEF Keyed
    <3> QED BY <3>1
  <2> QED BY <1>1, <1>2, <2>1, <2>2, AtGrows DEF Segment
<1>10. Switched(s, g, v) => Switched(s, g, w) \/ Segment(s, g, w.durable)
  <2> SUFFICES ASSUME Switched(s, g, v) PROVE Switched(s, g, w) \/ Segment(s, g, w.durable) OBVIOUS
  <2>1. s.frames \in Seq(Nat) BY DEF Work, ReadOf
  <2> DEFINE n == g.floor + Len(Shipped(g.segs))
  <2>2. n \in Nat
    <3>1. g.floor \in Nat /\ Shipped(g.segs) \in Seq(Nat) BY ShippedType DEF Keyed
    <3> QED BY <3>1
  <2>0. CASE s.frames = << >> BY <2>0 DEF Segment
  <2> SUFFICES ASSUME s.frames # << >> PROVE Switched(s, g, w) \/ Segment(s, g, w.durable) BY <2>0
  <2>3. At(s.frames, n, v.line) BY DEF Switched, Segment
  <2> HIDE DEF n
  <2>4. CASE w.snap.id # v.snap.id
    <3>1. Begins(v.line, w.durable) BY <2>4 DEF Moves
    <3>2. At(s.frames, n, w.durable) BY <1>1, <2>1, <2>2, <2>3, <3>1, AtGrows
    <3> QED BY <3>2 DEF Segment, n
  <2>5. CASE w.snap.id = v.snap.id
    <3>1. w.snap = v.snap BY <1>2, <2>5
    <3>2. w.wal.id = v.wal.id /\ w.stage # "written" BY <3>1 DEF Moves, Switched
    <3>3. At(s.frames, n, w.line) BY <1>1, <1>2, <2>1, <2>2, <2>3, AtGrows
    <3>4. Segment(s, g, w.line) BY <3>3 DEF Segment, n
    <3> QED BY <3>1, <3>2, <3>4 DEF Switched
  <2> QED BY <2>4, <2>5
<1>11. SegmentOf(s, g, w) BY <1>7, <1>9, <1>10 DEF Work, SegmentOf
<1>12. Keyed(g, w)
  <2> SUFFICES ASSUME g.key # << >>
               PROVE  /\ g.key[2] = g.snap /\ g.snap =< w.snap.id
                      /\ g.snap = w.snap.id => g.floor = w.floor /\ Len(w.snap.state) = w.floor
    BY DEF Keyed
  <2>1. /\ g.key[2] = g.snap /\ g.snap =< v.snap.id /\ g.snap \in Nat
        /\ g.snap = v.snap.id => g.floor = v.floor /\ Len(v.snap.state) = v.floor
    BY DEF Keyed
  <2> DEFINE a == g.snap
             b == v.snap.id
             c == w.snap.id
  <2>4. a \in Int /\ b \in Nat /\ c \in Nat /\ a =< b /\ b =< c BY <1>1, <1>2, <2>1
  <2> HIDE DEF a, b, c
  <2>5. a =< c /\ (a = c => a = b) BY <2>4, Reaches, Meets
  <2>2. g.snap =< w.snap.id BY <2>5 DEF a, c
  <2>3. ASSUME g.snap = w.snap.id PROVE g.floor = w.floor /\ Len(w.snap.state) = w.floor
    <3>1. g.snap = v.snap.id BY <2>3, <2>5 DEF a, b, c
    <3>2. w.snap = v.snap BY <1>2, <2>3, <3>1
    <3> QED BY <2>1, <3>1, <3>2 DEF Moves
  <2> QED BY <2>1, <2>2, <2>3
<1> QED BY <1>4, <1>5, <1>8, <1>11, <1>12 DEF Work

-----------------------------------------------------------------------------
(* The worker's own steps, over files that stand still.                    *)

\* The labels and the returns that no part of Work but LookOf and ReadOf is about.
Neutral(s) ==
    /\ s.pc \notin {"openSnapshot", "readChain", "baseRead", "putSnapshot", "readSegment",
                    "segmentRead", "putSegment"}
    /\ s.then \notin {<<"unvouched", "baseRead">>, <<"baseRead">>, <<"unvouched", "segmentRead">>,
                      <<"segmentRead">>}

LEMMA Thens ==
    /\ << >> \notin {<<"unvouched", "baseRead">>, <<"baseRead">>, <<"unvouched", "segmentRead">>,
                     <<"segmentRead">>}
    /\ \A next \in {"positioned", "decide", "resume", "observed", "caughtUp", "ship"} :
          <<next>> \notin {<<"unvouched", "baseRead">>, <<"baseRead">>, <<"unvouched", "segmentRead">>,
                           <<"segmentRead">>}
    /\ <<"unvouched", "ship">> \notin {<<"unvouched", "baseRead">>, <<"baseRead">>,
                                       <<"unvouched", "segmentRead">>, <<"segmentRead">>}
    /\ <<"unvouched", "baseRead">> \notin {<<"unvouched", "segmentRead">>, <<"segmentRead">>}
    /\ <<"unvouched", "segmentRead">> \notin {<<"unvouched", "baseRead">>, <<"baseRead">>}
<1>1. \A a, b : Len(<< >>) = 0 /\ Len(<<a>>) = 1 /\ Len(<<a, b>>) = 2 OBVIOUS
<1>2. \A a, b : a # b => <<a>> # <<b>> OBVIOUS
<1>3. \A a, b, c : b # c => <<a, b>> # <<a, c>> OBVIOUS
<1>4. \A a, b, c : <<a>> # << >> /\ <<a, b>> # << >> /\ <<a, b>> # <<c>> BY <1>1
<1> QED BY <1>2, <1>3, <1>4

LEMMA NeutralWork ==
    ASSUME NEW s, NEW g, NEW v, Neutral(s), Still(s), LookOf(s, v), ReadOf(s, v)
    PROVE  Work(s, g, v)
<1>1. ~ToBase(s) /\ ~ToSegment(s) BY DEF Neutral, ToBase, ToSegment
<1> QED BY <1>1 DEF Neutral, Work, BaseOf, SegmentOf

\* What a step that begins anew has read.
LEMMA Nothing ==
    ASSUME NEW v, Viewed(v)
    PROVE  /\ PosOK(NoPos, v) /\ NoLook \in Looks /\ NoPos \in Positions /\ Settled(NoLook, v)
           /\ NoLook.snapshot =< v.snap.id /\ NoSnap.id =< v.snap.id
           /\ NoSnap \in [id : Nat, state : Seq(Nat)]
           /\ NoSnap.id = v.snap.id => NoSnap = v.snap
           /\ Begins(NoSnap.state, v.durable) /\ << >> \in Seq(Nat)
<1>1. /\ v.snap \in [id : Nat, state : Seq(Nat)] /\ v.snap.id \in Nat /\ v.durable \in Seq(Nat)
      /\ v.snap.id = 0 => v.snap.state = << >>
  BY DEF Viewed
<1>2. NoPos \in Positions /\ NoPos.snapshot = -1 BY DEF NoPos, Positions, None
<1>3. NoLook \in Looks /\ NoLook.snapshot = -1 BY DEF NoLook, Looks, None
<1>4. PosOK(NoPos, v) BY <1>1, <1>2 DEF PosOK
<1>5. NoSnap \in [id : Nat, state : Seq(Nat)] /\ NoSnap.id = 0 /\ NoSnap.state = << >> BY DEF NoSnap
<1>6. NoSnap.id = v.snap.id => NoSnap = v.snap
  <2>1. \A a, b : a \in [id : Nat, state : Seq(Nat)] /\ b \in [id : Nat, state : Seq(Nat)]
                    /\ a.id = b.id /\ a.state = b.state => a = b
    OBVIOUS
  <2> QED BY <1>1, <1>5, <2>1
<1>7. Begins(<< >>, v.durable)
  <2>1. Len(<< >>) = 0 /\ Len(v.durable) \in Nat BY <1>1
  <2> QED BY <2>1 DEF Begins
<1> QED BY <1>1, <1>2, <1>3, <1>4, <1>5, <1>6, <1>7 DEF Settled

LEMMA Anew ==
    ASSUME NEW v, Viewed(v), NEW s, s.look = NoLook, s.disk = NoLook, s.before = NoPos, s.pos = NoPos,
           s.snap = NoSnap, s.floor = 0, s.frames \in Seq(Nat)
    PROVE  LookOf(s, v) /\ ReadOf(s, v)
BY Nothing DEF LookOf, ReadOf

NoStepFacts(s) ==
    /\ s.look = NoLook /\ s.disk = NoLook /\ s.before = NoPos /\ s.pos = NoPos
    /\ s.snap = NoSnap /\ s.floor = 0

LEMMA SetFrames ==
    ASSUME NEW r, Fields(r, StepFields), NEW y, NEW q, q = [r EXCEPT !.frames = y]
    PROVE  Fields(q, StepFields) /\ q.frames = y /\ \A f \in StepFields \ {"frames"} : q[f] = r[f]
<1>1. "frames" \in StepFields BY DEF StepFields
<1> QED BY <1>1, SetField

LEMMA NoStepIs ==
    /\ NoStepFacts(NoStep) /\ NoStep.frames = << >> /\ NoStep.then = << >>
    /\ \A x : LET q == [NoStep EXCEPT !.base = x] IN
                NoStepFacts(q) /\ q.frames = << >> /\ q.then = << >> /\ q.pc = "idle" /\ Fields(q, StepFields)
    /\ LET q == [NoStep EXCEPT !.pc = "down"] IN
                NoStepFacts(q) /\ q.frames = << >> /\ q.then = << >> /\ q.pc = "down"
<1>1. NoStepFacts(NoStep) /\ NoStep.frames = << >> /\ NoStep.then = << >> /\ NoStep.pc = "idle"
  BY DEF NoStep, NoStepFacts
<1>2. Fields(NoStep, StepFields) BY StepRecords
<1>3. ASSUME NEW x PROVE LET q == [NoStep EXCEPT !.base = x] IN
                NoStepFacts(q) /\ q.frames = << >> /\ q.then = << >> /\ q.pc = "idle" /\ Fields(q, StepFields)
  <2> DEFINE q == [NoStep EXCEPT !.base = x]
  <2>1. Fields(q, StepFields) /\ \A f \in StepFields \ {"base"} : q[f] = NoStep[f]
    BY <1>2, SetField DEF StepFields
  <2> HIDE DEF q
  <2>2. NoStepFacts(q) /\ q.frames = << >> /\ q.then = << >> /\ q.pc = "idle"
    BY <1>1, <2>1 DEF StepFields, NoStepFacts
  <2> QED BY <2>1, <2>2 DEF q
<1>5. LET q == [NoStep EXCEPT !.pc = "down"] IN
                NoStepFacts(q) /\ q.frames = << >> /\ q.then = << >> /\ q.pc = "down"
  <2> DEFINE q == [NoStep EXCEPT !.pc = "down"]
  <2>1. q.pc = "down" /\ \A f \in StepFields \ {"pc"} : q[f] = NoStep[f]
    BY <1>2, SetField DEF StepFields
  <2> HIDE DEF q
  <2>2. NoStepFacts(q) /\ q.frames = << >> /\ q.then = << >>
    BY <1>1, <2>1 DEF StepFields, NoStepFacts
  <2> QED BY <2>1, <2>2 DEF q
<1> QED BY <1>1, <1>3, <1>5

\* The step ends; it goes on with nothing read.
LEMMA WorkNone ==
    ASSUME NEW v, Viewed(v), NEW g
    PROVE  /\ Work(NoStep, g, v) /\ Work([NoStep EXCEPT !.pc = "down"], g, v)
           /\ \A x : /\ Work(To([NoStep EXCEPT !.base = x], "shipped"), g, v)
                     /\ Work(Looking([NoStep EXCEPT !.base = x], <<"unvouched", "ship">>), g, v)
<1>1. \A s : NoStepFacts(s) /\ s.frames = << >> => LookOf(s, v) /\ ReadOf(s, v)
  BY Anew, Nothing DEF NoStepFacts
<1>2. \A s : s.then = << >> /\ s.pc \in {"idle", "down", "shipped"} => Neutral(s) /\ Still(s)
  BY Thens DEF Neutral, Still
<1>3. Work(NoStep, g, v) BY <1>1, <1>2, NoStepIs, StepRecords, NeutralWork
<1>4. Work([NoStep EXCEPT !.pc = "down"], g, v) BY <1>1, <1>2, NoStepIs, NeutralWork
<1>5. ASSUME NEW x
      PROVE  /\ Work(To([NoStep EXCEPT !.base = x], "shipped"), g, v)
             /\ Work(Looking([NoStep EXCEPT !.base = x], <<"unvouched", "ship">>), g, v)
  <2> DEFINE r == [NoStep EXCEPT !.base = x]
             q == To(r, "shipped")
             u == Looking(r, <<"unvouched", "ship">>)
  <2>1. NoStepFacts(r) /\ r.frames = << >> /\ r.then = << >> /\ Fields(r, StepFields) BY NoStepIs
  <2> HIDE DEF r
  <2>2. Fields(q, StepFields) /\ q.pc = "shipped" /\ \A f \in StepFields \ {"pc"} : q[f] = r[f]
    BY <2>1, ToFacts
  <2>3. /\ Fields(u, StepFields) /\ u.pc = "lookSnapshot" /\ u.then = <<"unvouched", "ship">>
        /\ \A f \in StepFields \ {"pc", "then", "look", "pos"} : u[f] = r[f]
    BY <2>1, LookingFacts
  <2>4. u.look = NoLook /\ u.pos = NoPos BY <2>1 DEF Looking, Fields, StepFields
  <2> HIDE DEF q, u
  <2>5. NoStepFacts(q) /\ q.frames = << >> /\ q.then = << >> BY <2>1, <2>2 DEF NoStepFacts, StepFields
  <2>6. Work(q, g, v) BY <1>1, <1>2, <2>2, <2>5, NeutralWork
  <2>7. NoStepFacts(u) /\ u.frames = << >> BY <2>1, <2>3, <2>4 DEF NoStepFacts, StepFields
  <2>8. Neutral(u) /\ Still(u) BY <2>3, Thens DEF Neutral, Still, LookPcs
  <2>9. Work(u, g, v) BY <1>1, <2>7, <2>8, NeutralWork
  <2> QED BY <2>6, <2>9 DEF q, u, r
<1> QED BY <1>3, <1>4, <1>5

\* What two steps agree on; what a new look has.
SameReads(q, s) ==
    /\ q.disk = s.disk /\ q.before = s.before /\ q.snap = s.snap /\ q.floor = s.floor /\ q.frames = s.frames

LEMMA LookingIs ==
    ASSUME NEW s, Fields(s, StepFields), NEW next, NEW q, q = Looking(s, next)
    PROVE  /\ q.pc = "lookSnapshot" /\ q.then = next /\ q.look = NoLook /\ q.pos = NoPos /\ SameReads(q, s)
           /\ Still(q)
<1>1. /\ q.pc = "lookSnapshot" /\ q.then = next
      /\ \A f \in StepFields \ {"pc", "then", "look", "pos"} : q[f] = s[f]
  BY LookingFacts
<1>2. q.look = NoLook /\ q.pos = NoPos BY DEF Looking, Fields, StepFields
<1> QED BY <1>1, <1>2 DEF SameReads, StepFields, Still, LookPcs

LEMMA AskingIs ==
    ASSUME NEW s, Fields(s, StepFields), NEW next, NEW q, q = Asking(s, next)
    PROVE  /\ q.pc = "unvouched" /\ q.then = <<next>> /\ q.look = s.look /\ q.pos = NoPos /\ SameReads(q, s)
           /\ Still(q)
<1>1. /\ q.pc = "unvouched" /\ q.then = <<next>>
      /\ \A f \in StepFields \ {"pc", "then", "pos"} : q[f] = s[f]
  BY AskingFacts
<1>2. q.pos = NoPos BY DEF Asking, Fields, StepFields
<1> QED BY <1>1, <1>2 DEF SameReads, StepFields, Still, LookPcs

LEMMA ToIs ==
    ASSUME NEW s, Fields(s, StepFields), NEW label, NEW q, q = To(s, label)
    PROVE  q.pc = label /\ q.then = s.then /\ q.look = s.look /\ q.pos = s.pos /\ SameReads(q, s)
BY ToFacts DEF SameReads, StepFields

LEMMA LookNew ==
    ASSUME NEW v, Viewed(v), NEW s, LookOf(s, v), ReadOf(s, v), NEW q, SameReads(q, s),
           q.pos = NoPos, q.look = NoLook, q.pc \in LookPcs
    PROVE  LookOf(q, v) /\ ReadOf(q, v)
BY Nothing DEF LookOf, ReadOf, SameReads

LEMMA LookSame ==
    ASSUME NEW v, Viewed(v), NEW s, LookOf(s, v), ReadOf(s, v), NEW q, SameReads(q, s),
           q.pos = NoPos \/ PosOK(q.pos, v), q.look = s.look, s.pc \notin LookPcs
    PROVE  LookOf(q, v) /\ ReadOf(q, v)
BY Nothing DEF LookOf, ReadOf, SameReads

\* A field that what was read depends on is set.
LEMMA SetDisk ==
    ASSUME NEW s, Fields(s, StepFields), NEW x, NEW q, q = [s EXCEPT !.disk = x]
    PROVE  /\ Fields(q, StepFields) /\ q.disk = x /\ q.pc = s.pc /\ q.then = s.then /\ q.look = s.look
           /\ q.pos = s.pos /\ q.before = s.before /\ q.snap = s.snap /\ q.floor = s.floor /\ q.frames = s.frames
<1>1. "disk" \in StepFields BY DEF StepFields
<1>2. Fields(q, StepFields) /\ q.disk = x /\ \A f \in StepFields \ {"disk"} : q[f] = s[f] BY <1>1, SetField
<1> QED BY <1>2 DEF StepFields

LEMMA SetBefore ==
    ASSUME NEW s, Fields(s, StepFields), NEW x, NEW q, q = [s EXCEPT !.before = x]
    PROVE  /\ Fields(q, StepFields) /\ q.before = x /\ q.pc = s.pc /\ q.then = s.then /\ q.look = s.look
           /\ q.pos = s.pos /\ q.disk = s.disk /\ q.snap = s.snap /\ q.floor = s.floor /\ q.frames = s.frames
<1>1. "before" \in StepFields BY DEF StepFields
<1>2. Fields(q, StepFields) /\ q.before = x /\ \A f \in StepFields \ {"before"} : q[f] = s[f] BY <1>1, SetField
<1> QED BY <1>2 DEF StepFields

\* The step goes by the look it just had.
LEMMA DiskIsLook ==
    ASSUME NEW v, NEW s, LookOf(s, v), ReadOf(s, v), s.pc \notin LookPcs, ~s.look.intent,
           NEW q, q.disk = s.look, q.pc = s.pc, q.look = s.look,
           q.pos = s.pos, q.before = s.before, q.snap = s.snap, q.floor = s.floor, q.frames = s.frames
    PROVE  LookOf(q, v) /\ ReadOf(q, v)
BY DEF LookOf, ReadOf

\* run_once and ship_segments decide; on is the step as a look or a question returns.
On(s, v) == /\ Viewed(v) /\ Fields(s, StepFields) /\ Work(s, job.gen, v)
            /\ s.pc \in {"observed", "positioned", "caughtUp", "decide", "ship", "segmentRead"}

LEMMA OnIs ==
    ASSUME NEW s, NEW v, On(s, v)
    PROVE  /\ s.then = << >> /\ LookOf(s, v) /\ ReadOf(s, v) /\ s.pc \notin LookPcs
           /\ s.pc \notin {"unvouched", "fsync", "position"}
<1>1. /\ s.pc \notin LookPcs /\ s.pc \notin {"unvouched", "fsync", "position"} BY DEF On, LookPcs
<1> QED BY <1>1 DEF On, Work, Still

LEMMA AskingWork ==
    ASSUME NEW v, NEW s, On(s, v), ~s.look.intent, NEW next \in {"positioned", "decide"}
    PROVE  Work(Asking([s EXCEPT !.disk = s.look], next), job.gen, v)
<1> DEFINE r == [s EXCEPT !.disk = s.look]
           q == Asking(r, next)
<1>0. Viewed(v) /\ Fields(s, StepFields) BY DEF On
<1>1. /\ Fields(r, StepFields) /\ r.disk = s.look /\ r.pc = s.pc /\ r.then = s.then /\ r.look = s.look
      /\ r.pos = s.pos /\ r.before = s.before /\ r.snap = s.snap /\ r.floor = s.floor /\ r.frames = s.frames
  BY <1>0, SetDisk
<1> HIDE DEF r
<1>2. LookOf(r, v) /\ ReadOf(r, v) /\ r.pc \notin LookPcs BY <1>1, OnIs, DiskIsLook
<1>3. /\ q.pc = "unvouched" /\ q.then = <<next>> /\ q.look = r.look /\ q.pos = NoPos /\ SameReads(q, r) /\ Still(q)
  BY <1>1, AskingIs
<1> HIDE DEF q
<1>4. LookOf(q, v) /\ ReadOf(q, v) BY <1>0, <1>2, <1>3, LookSame
<1>5. Neutral(q) BY <1>3, Thens DEF Neutral
<1>6. Work(q, job.gen, v) BY <1>3, <1>4, <1>5, NeutralWork
<1> QED BY <1>6 DEF q, r

LEMMA LookingWork ==
    ASSUME NEW v, Viewed(v), NEW s, Fields(s, StepFields), Work(s, job.gen, v), NEW g,
           NEW next \in {<<"observed">>, <<"caughtUp">>, <<"unvouched", "ship">>}
    PROVE  Work(Looking(s, next), g, v)
<1> DEFINE q == Looking(s, next)
<1>1. /\ q.pc = "lookSnapshot" /\ q.then = next /\ q.look = NoLook /\ q.pos = NoPos /\ SameReads(q, s) /\ Still(q)
  BY LookingIs
<1> HIDE DEF q
<1>2. LookOf(q, v) /\ ReadOf(q, v) BY <1>1, LookNew DEF LookPcs, Work
<1>3. Neutral(q) BY <1>1, Thens DEF Neutral
<1>4. Work(q, g, v) BY <1>1, <1>2, <1>3, NeutralWork
<1> QED BY <1>4 DEF q

LEMMA DoneWork == ASSUME NEW s, NEW v, On(s, v) PROVE Work(Done, job.gen, v) /\ Work(AllShipped(s), job.gen, v)
BY WorkNone DEF Done, AllShipped, On

LEMMA DecidedWork == ASSUME NEW s, NEW v, On(s, v) PROVE Work(Decided(s), job.gen, v)
<1>0. Viewed(v) /\ Fields(s, StepFields) /\ Work(s, job.gen, v) BY DEF On
<1>1. Work(Looking(s, <<"unvouched", "ship">>), job.gen, v) BY <1>0, LookingWork
<1>2. ASSUME Follows(s.pos, s.disk) PROVE Work(To([s EXCEPT !.before = s.pos], "openSnapshot"), job.gen, v)
  <2> DEFINE r == [s EXCEPT !.before = s.pos]
             q == To(r, "openSnapshot")
  <2>1. /\ Fields(r, StepFields) /\ r.before = s.pos /\ r.pc = s.pc /\ r.then = s.then /\ r.look = s.look
        /\ r.pos = s.pos /\ r.disk = s.disk /\ r.snap = s.snap /\ r.floor = s.floor /\ r.frames = s.frames
    BY <1>0, SetBefore
  <2> HIDE DEF r
  <2>2. q.pc = "openSnapshot" /\ q.then = r.then /\ q.look = r.look /\ q.pos = r.pos /\ SameReads(q, r)
    BY <2>1, ToIs
  <2> HIDE DEF q
  <2>3. LookOf(q, v) /\ ReadOf(q, v)
    BY <2>1, <2>2, OnIs DEF LookOf, ReadOf, SameReads, PosOK
  <2>4. q.then = << >> /\ Still(q) BY <2>1, <2>2, OnIs DEF Still
  <2>5. ~ToBase(q) /\ ~ToSegment(q) BY <2>2, <2>4, Thens DEF ToBase, ToSegment
  <2>6. q.before.snapshot = q.disk.snapshot BY <1>2, <2>1, <2>2 DEF SameReads, Follows
  <2>7. BaseOf(q, v) /\ SegmentOf(q, job.gen, v) BY <2>2, <2>5, <2>6 DEF BaseOf, SegmentOf
  <2>8. Work(q, job.gen, v) BY <2>3, <2>4, <2>7 DEF Work
  <2> QED BY <2>8 DEF q, r
<1> QED BY <1>1, <1>2, DoneWork DEF Decided

LEMMA PositionedWork == ASSUME NEW s, NEW v, On(s, v) PROVE Work(Positioned(s), job.gen, v)
<1>0. Viewed(v) /\ Fields(s, StepFields) BY DEF On
<1>1. Work(To(s, "catchUp"), job.gen, v)
  <2> DEFINE q == To(s, "catchUp")
  <2>1. q.pc = "catchUp" /\ q.then = s.then /\ q.look = s.look /\ q.pos = s.pos /\ SameReads(q, s)
    BY <1>0, ToIs
  <2> HIDE DEF q
  <2>2. PosOK(s.pos, v) BY OnIs DEF LookOf
  <2>3. LookOf(q, v) /\ ReadOf(q, v) BY <1>0, <2>1, <2>2, OnIs, LookSame
  <2>4. Neutral(q) /\ Still(q) BY <2>1, OnIs, Thens DEF Neutral, Still
  <2>5. Work(q, job.gen, v) BY <2>3, <2>4, NeutralWork
  <2> QED BY <2>5 DEF q
<1> QED BY <1>1, DecidedWork DEF Positioned

LEMMA ShipWork == ASSUME NEW s, NEW v, On(s, v) PROVE Work(Ship(s), job.gen, v)
<1>0. Viewed(v) /\ Fields(s, StepFields) BY DEF On
<1>1. ASSUME ~s.look.intent, Follows(s.pos, s.look), job.gen.key = Key(s.pos)
      PROVE  Work(To([s EXCEPT !.disk = s.look], "readSegment"), job.gen, v)
  <2> DEFINE r == [s EXCEPT !.disk = s.look]
             q == To(r, "readSegment")
  <2>1. /\ Fields(r, StepFields) /\ r.disk = s.look /\ r.pc = s.pc /\ r.then = s.then /\ r.look = s.look
        /\ r.pos = s.pos /\ r.before = s.before /\ r.snap = s.snap /\ r.floor = s.floor /\ r.frames = s.frames
    BY <1>0, SetDisk
  <2> HIDE DEF r
  <2>2. LookOf(r, v) /\ ReadOf(r, v) /\ r.pc \notin LookPcs BY <1>1, <2>1, OnIs, DiskIsLook
  <2>3. q.pc = "readSegment" /\ q.then = r.then /\ q.look = r.look /\ q.pos = r.pos /\ SameReads(q, r)
    BY <2>1, ToIs
  <2> HIDE DEF q
  <2>4. PosOK(r.pos, v) BY <2>2 DEF LookOf
  <2>5. LookOf(q, v) /\ ReadOf(q, v) BY <1>0, <2>2, <2>3, <2>4, LookSame
  <2>6. q.then = << >> /\ Still(q) BY <2>1, <2>3, OnIs DEF Still
  <2>7. ~ToBase(q) /\ ~ToSegment(q) BY <2>3, <2>6, Thens DEF ToBase, ToSegment
  <2>8. job.gen.key = Key(q.pos) /\ Follows(q.pos, q.disk) BY <1>1, <2>1, <2>3 DEF SameReads
  <2>9. BaseOf(q, v) /\ SegmentOf(q, job.gen, v) BY <2>3, <2>7, <2>8 DEF BaseOf, SegmentOf
  <2>10. Work(q, job.gen, v) BY <2>5, <2>6, <2>9 DEF Work
  <2> QED BY <2>10 DEF q, r
<1> QED BY <1>1, DoneWork DEF Ship

LEMMA NoStepWith ==
    ASSUME NEW r, NoStepFacts(r), r.then = << >>, Fields(r, StepFields), NEW y, NEW q, q = [r EXCEPT !.frames = y]
    PROVE  NoStepFacts(q) /\ q.frames = y /\ q.then = << >> /\ Fields(q, StepFields)
<1>1. Fields(q, StepFields) /\ q.frames = y /\ \A f \in StepFields \ {"frames"} : q[f] = r[f]
  BY SetFrames
<1> QED BY <1>1 DEF StepFields, NoStepFacts

\* The second look has shown nothing: the frames are the generation's next ones.
LEMMA SegmentReadWork ==
    ASSUME NEW s, NEW v, On(s, v), s.pc = "segmentRead" PROVE Work(SegmentRead(s), job.gen, v)
<1>0. Viewed(v) /\ Fields(s, StepFields) /\ Work(s, job.gen, v) BY DEF On
<1>1. ASSUME UnchangedUntil(s.disk, s.look), s.frames # << >>
      PROVE  Work(To([NoStep EXCEPT !.base = s.base, !.frames = s.frames], "putSegment"), job.gen, v)
  <2> DEFINE b == [NoStep EXCEPT !.base = s.base]
             r == [b EXCEPT !.frames = s.frames]
             q == To(r, "putSegment")
  <2>0. NoStepFacts(b) /\ b.then = << >> /\ Fields(b, StepFields) BY NoStepIs
  <2> HIDE DEF b
  <2>1. NoStepFacts(r) /\ r.frames = s.frames /\ r.then = << >> /\ Fields(r, StepFields) BY <2>0, NoStepWith
  <2> HIDE DEF r
  <2>2. q.pc = "putSegment" /\ q.then = r.then /\ q.look = r.look /\ q.pos = r.pos /\ SameReads(q, r)
    BY <2>1, ToIs
  <2> HIDE DEF q
  <2>3. s.frames \in Seq(Nat) BY OnIs DEF ReadOf
  <2>4. LookOf(q, v) /\ ReadOf(q, v)
    <3>1. /\ q.look = NoLook /\ q.disk = NoLook /\ q.before = NoPos /\ q.pos = NoPos
          /\ q.snap = NoSnap /\ q.floor = 0 /\ q.frames = s.frames
      BY <2>1, <2>2 DEF NoStepFacts, SameReads
    <3> QED BY <1>0, <2>3, <3>1, Anew
  <2>5. q.then = << >> /\ Still(q) BY <2>1, <2>2 DEF Still
  <2>6. ~ToBase(q) /\ ~ToSegment(q) BY <2>2, <2>5, Thens DEF ToBase, ToSegment
  <2>7. s.look.snapshot = s.disk.snapshot /\ s.look.wal = s.disk.wal BY <1>1 DEF UnchangedUntil
  <2>8. s.disk.snapshot \in Int BY OnIs DEF LookOf, Looks
  <2>9. ~Shown(s, v) BY <2>7, <2>8 DEF Shown
  <2>10. ~Switched(s, job.gen, v) BY <2>7 DEF Switched
  <2>11. Segment(s, job.gen, v.durable) BY <1>0, <2>9, <2>10 DEF Work, SegmentOf, ToSegment
  <2>12. q.frames = s.frames BY <2>1, <2>2 DEF SameReads
  <2>13. Segment(q, job.gen, v.durable) /\ q.frames # << >> BY <1>1, <2>11, <2>12 DEF Segment
  <2>14. BaseOf(q, v) /\ SegmentOf(q, job.gen, v) BY <2>2, <2>6, <2>13 DEF BaseOf, SegmentOf
  <2>15. Work(q, job.gen, v) BY <2>4, <2>5, <2>14 DEF Work
  <2> QED BY <2>15 DEF q, r, b
<1> QED BY <1>1, DoneWork DEF SegmentRead

LEMMA MoreThens ==
    /\ <<"baseRead">> \notin {<<"unvouched", "segmentRead">>, <<"segmentRead">>}
    /\ <<"segmentRead">> \notin {<<"unvouched", "baseRead">>, <<"baseRead">>}
<1>1. \A a, b : Len(<<a>>) = 1 /\ Len(<<a, b>>) = 2 OBVIOUS
<1>2. \A a, b : a # b => <<a>> # <<b>> OBVIOUS
<1> QED BY <1>1, <1>2

\* A look or a question returns.
LEMMA ReturnWork ==
    ASSUME NEW v, Viewed(v), NEW s, Fields(s, StepFields), s.then \in LookThens \cup AskThens,
           s.pc \in {"lookIntent", "position"}, LookOf([s EXCEPT !.pc = "returned"], v), Work(s, job.gen, v)
    PROVE  Work(Return(s), job.gen, v)
<1> DEFINE on == [s EXCEPT !.pc = Head(s.then), !.then = Tail(s.then)]
<1>1. /\ Fields(on, StepFields) /\ on.pc = Head(s.then) /\ on.then = Tail(s.then)
      /\ \A f \in StepFields \ {"pc", "then"} : on[f] = s[f]
  BY DEF Fields, StepFields
<1>2. Return(s) = CASE on.pc = "observed"    -> Observed(on)
                    [] on.pc = "positioned"  -> Positioned(on)
                    [] on.pc = "caughtUp"    -> CaughtUp(on)
                    [] on.pc = "decide"      -> Decided(on)
                    [] on.pc = "ship"        -> Ship(on)
                    [] on.pc = "segmentRead" -> SegmentRead(on)
                    [] OTHER -> on
  BY DEF Return
<1> HIDE DEF on
<1>3. on.look = s.look /\ on.pos = s.pos /\ SameReads(on, s) BY <1>1 DEF SameReads, StepFields
<1>4. \/ on.pc \in {"observed", "caughtUp", "positioned", "decide", "resume", "ship"} /\ on.then = << >>
             /\ s.then \in {<<"observed">>, <<"caughtUp">>, <<"positioned">>, <<"decide">>, <<"resume">>, <<"ship">>}
      \/ on.pc = "unvouched" /\ on.then = <<"ship">> /\ s.then = <<"unvouched", "ship">>
      \/ on.pc = "baseRead" /\ on.then = << >> /\ s.then = <<"baseRead">>
      \/ on.pc = "unvouched" /\ on.then = <<"baseRead">> /\ s.then = <<"unvouched", "baseRead">>
      \/ on.pc = "segmentRead" /\ on.then = << >> /\ s.then = <<"segmentRead">>
      \/ on.pc = "unvouched" /\ on.then = <<"segmentRead">> /\ s.then = <<"unvouched", "segmentRead">>
  <2>1. \A a, b : /\ Head(<<a>>) = a /\ Head(<<a, b>>) = a /\ Tail(<<a, b>>) = <<b>> /\ Tail(<<a>>) = << >>
    OBVIOUS
  <2>2. CASE s.then \in {<<"observed">>, <<"caughtUp">>, <<"positioned">>, <<"decide">>, <<"resume">>, <<"ship">>}
    <3>1. PICK a \in {"observed", "caughtUp", "positioned", "decide", "resume", "ship"} : s.then = <<a>> BY <2>2
    <3>2. on.pc = a /\ on.then = << >> BY <1>1, <2>1, <3>1
    <3> QED BY <2>2, <3>2
  <2>3. CASE s.then \in {<<"baseRead">>, <<"segmentRead">>}
    <3>1. PICK a \in {"baseRead", "segmentRead"} : s.then = <<a>> BY <2>3
    <3>2. on.pc = a /\ on.then = << >> BY <1>1, <2>1, <3>1
    <3> QED BY <3>1, <3>2
  <2>4. CASE s.then \in {<<"unvouched", "ship">>, <<"unvouched", "baseRead">>, <<"unvouched", "segmentRead">>}
    <3>1. PICK a \in {"ship", "baseRead", "segmentRead"} : s.then = <<"unvouched", a>> BY <2>4
    <3>2. on.pc = "unvouched" /\ on.then = <<a>> BY <1>1, <2>1, <3>1
    <3> QED BY <3>1, <3>2
  <2> QED BY <2>2, <2>3, <2>4 DEF LookThens, AskThens
<1>5. LookOf(on, v) /\ ReadOf(on, v) /\ on.pc \notin LookPcs
  <2>1. on.pc \notin LookPcs BY <1>4 DEF LookPcs
  <2> DEFINE r == [s EXCEPT !.pc = "returned"]
  <2>2. r.pc = "returned" /\ \A f \in StepFields \ {"pc"} : r[f] = s[f] BY DEF Fields, StepFields
  <2>3. LookOf(r, v) OBVIOUS
  <2> HIDE DEF r
  <2>4. r.look = s.look /\ r.pos = s.pos /\ SameReads(r, s) BY <2>2 DEF SameReads, StepFields
  <2>5. LookOf(on, v) BY <1>3, <2>1, <2>2, <2>3, <2>4 DEF LookOf, SameReads, LookPcs
  <2>6. ReadOf(on, v) BY <1>3 DEF Work, ReadOf, SameReads
  <2> QED BY <2>1, <2>5, <2>6
<1>6. Still(on) BY <1>4 DEF Still
<1>7. s.pc \notin {"lookSnapshot", "lookWal"} OBVIOUS
<1>8. (Shown(s, v) => Shown(on, v)) /\ (Switched(s, job.gen, v) => Switched(on, job.gen, v))
      /\ (Segment(s, job.gen, v.durable) <=> Segment(on, job.gen, v.durable))
  BY <1>3, <1>7 DEF Shown, Switched, Segment, SameReads
<1>9. Work(on, job.gen, v)
  <2>1. CASE \/ on.pc \in {"observed", "caughtUp", "positioned", "decide", "resume", "ship"} /\ on.then = << >>
             \/ on.pc = "unvouched" /\ on.then = <<"ship">>
    <3>1. on.then \notin {<<"unvouched", "baseRead">>, <<"baseRead">>, <<"unvouched", "segmentRead">>,
                          <<"segmentRead">>}
      BY <2>1, Thens
    <3>2. Neutral(on) BY <2>1, <3>1 DEF Neutral
    <3> QED BY <1>5, <1>6, <3>2, NeutralWork
  <2>2. CASE \/ on.pc = "baseRead" /\ on.then = << >> /\ s.then = <<"baseRead">>
             \/ on.pc = "unvouched" /\ on.then = <<"baseRead">> /\ s.then = <<"unvouched", "baseRead">>
    <3>1. ToBase(s) BY <2>2 DEF ToBase
    <3>2. <<"baseRead">> \notin {<<"unvouched", "segmentRead">>, <<"segmentRead">>} BY MoreThens
    <3>3. ~ToSegment(on) BY <2>2, <3>2, Thens DEF ToSegment
    <3>4. on.pc \notin {"openSnapshot", "readChain", "putSnapshot", "readSegment", "putSegment"} BY <2>2
    <3>5. BaseOf(on, v) BY <1>3, <1>8, <3>1, <3>4 DEF BaseOf, Work, SameReads
    <3>6. SegmentOf(on, job.gen, v) BY <3>3, <3>4 DEF SegmentOf
    <3> QED BY <1>5, <1>6, <3>5, <3>6 DEF Work
  <2>3. CASE \/ on.pc = "segmentRead" /\ on.then = << >> /\ s.then = <<"segmentRead">>
             \/ on.pc = "unvouched" /\ on.then = <<"segmentRead">> /\ s.then = <<"unvouched", "segmentRead">>
    <3>1. ToSegment(s) BY <2>3 DEF ToSegment
    <3>2. <<"segmentRead">> \notin {<<"unvouched", "baseRead">>, <<"baseRead">>} BY MoreThens
    <3>3. ~ToBase(on) BY <2>3, <3>2, Thens DEF ToBase
    <3>4. on.pc \notin {"openSnapshot", "readChain", "putSnapshot", "readSegment", "putSegment"} BY <2>3
    <3>5. BaseOf(on, v) BY <3>3, <3>4 DEF BaseOf
    <3>6. SegmentOf(on, job.gen, v) BY <1>3, <1>8, <3>1, <3>4 DEF SegmentOf, Work, SameReads
    <3> QED BY <1>5, <1>6, <3>5, <3>6 DEF Work
  <2> QED BY <1>4, <2>1, <2>2, <2>3
<1>10. CASE on.pc \in {"observed", "positioned", "caughtUp", "decide", "ship", "segmentRead"}
  <2>1. On(on, v) BY <1>1, <1>9, <1>10 DEF On
  <2>2. Work(Observed(on), job.gen, v) BY <2>1, AskingWork, DoneWork DEF Observed
  <2>3. Work(CaughtUp(on), job.gen, v) BY <2>1, AskingWork, DoneWork DEF CaughtUp, UnchangedUntil
  <2>4. /\ Work(Positioned(on), job.gen, v) /\ Work(Decided(on), job.gen, v) /\ Work(Ship(on), job.gen, v)
        /\ on.pc = "segmentRead" => Work(SegmentRead(on), job.gen, v)
    BY <2>1, PositionedWork, DecidedWork, ShipWork, SegmentReadWork
  <2> QED BY <1>2, <1>10, <2>2, <2>3, <2>4
<1>11. CASE on.pc \in {"unvouched", "resume", "baseRead"}
  <2>1. Return(s) = on BY <1>2, <1>11
  <2> QED BY <1>9, <2>1
<1> QED BY <1>4, <1>10, <1>11

WorkInv == Work(step, job.gen, View) /\ Keyed(job.gen, View)
WorkNext == Work(step', job'.gen, View) /\ Keyed(job'.gen, View)

\* What the files are; a step of the store that no power loss is moves them on.
LEMMA ViewIs ==
    ASSUME StoreParts, StoreInv
    PROVE  /\ Viewed(View) /\ View.snap = snap /\ View.wal = wal /\ View.floor = floor
           /\ View.stage = writer.stage /\ View.durable = Durable /\ View.line = Line
<1>1. /\ View.snap = snap /\ View.wal = wal /\ View.floor = floor
      /\ View.stage = writer.stage /\ View.durable = Durable /\ View.line = Line
  BY DEF View
<1>2. /\ wal \in Wals /\ floor \in Nat /\ snap \in [id : Nat, state : Seq(Nat)] BY StoreTypes
<1>3. Durable \in Seq(Nat) /\ Line \in Seq(Nat) BY DurableFacts, Files
<1>4. snap.id = 0 => snap.state = << >> BY DEF StoreInv, StageInv
<1> QED BY <1>1, <1>2, <1>3, <1>4 DEF Viewed

LEMMA ViewHolds == StoreParts /\ StoreInv => Viewed(View)
BY ViewIs

LEMMA ViewMoves ==
    ASSUME Moved, Kept, Begins(Line, Line') PROVE Moves(View, View')
BY DEF Moved, Kept, Moves, View

LEMMA ViewSame == ASSUME UNCHANGED <<store, writer>> PROVE View' = View
BY DEF View, store, Durable, Line, HeldFrames, Standing

\* The step goes on asking, or writes what it has.
LEMMA PcWork ==
    ASSUME NEW s, NEW g, NEW v, Work(s, g, v), s.pc \in {"unvouched", "fsync"},
           NEW q, q.pc \in {"fsync", "position"}, q.then = s.then, q.look = s.look, q.pos = s.pos, SameReads(q, s)
    PROVE  Work(q, g, v)
<1>1. Still(q) BY DEF Still
<1>2. LookOf(q, v) /\ ReadOf(q, v) BY DEF Work, LookOf, ReadOf, SameReads, LookPcs
<1>3. /\ (Shown(s, v) => Shown(q, v)) /\ (Switched(s, g, v) => Switched(q, g, v))
      /\ (Segment(s, g, v.durable) <=> Segment(q, g, v.durable))
  BY DEF Shown, Switched, Segment, SameReads
<1>4. (ToBase(q) <=> ToBase(s)) /\ (ToSegment(q) <=> ToSegment(s)) BY DEF ToBase, ToSegment
<1>5. BaseOf(q, v) BY <1>3, <1>4 DEF Work, BaseOf, SameReads
<1>6. SegmentOf(q, g, v) BY <1>3, <1>4 DEF Work, SegmentOf, SameReads
<1> QED BY <1>1, <1>2, <1>5, <1>6 DEF Work

LEMMA QuietWork ==
    ASSUME NEW s, NEW g, NEW h, NEW v, Work(s, g, v), s.pc \notin LookPcs \cup {"unvouched", "fsync", "position"},
           NEW q, q.pc \in {"putManifest", "putLatest", "retain", "deleteManifests"}, q.then = s.then,
           q.look = s.look, q.pos = s.pos, SameReads(q, s)
    PROVE  Work(q, h, v)
<1>1. q.then = << >> BY DEF Work, Still
<1>2. Still(q) /\ Neutral(q) BY <1>1, Thens DEF Still, Neutral
<1>3. LookOf(q, v) /\ ReadOf(q, v) BY DEF Work, LookOf, ReadOf, SameReads
<1> QED BY <1>2, <1>3, NeutralWork

\* Fields of the step that no part of Work is about.
LEMMA SetOther ==
    ASSUME NEW s, Fields(s, StepFields), NEW k \in {"claim", "base", "n", "kept", "doomed", "owned"}, NEW x,
           NEW q, q = [s EXCEPT ![k] = x]
    PROVE  Fields(q, StepFields) /\ q.pc = s.pc /\ q.then = s.then /\ q.look = s.look /\ q.pos = s.pos /\ SameReads(q, s)
<1>1. k \in StepFields BY DEF StepFields
<1>2. Fields(q, StepFields) /\ \A g \in StepFields \ {k} : q[g] = s[g] BY <1>1 DEF Fields
<1>3. \A g \in {"pc", "then", "look", "pos", "disk", "before", "snap", "floor", "frames"} : g \in StepFields \ {k}
  BY DEF StepFields
<1> QED BY <1>2, <1>3 DEF SameReads

LEMMA UnvouchedWork == ASSUME Shape, WorkInv, Unvouched PROVE WorkNext
<1>1. Fields(step, StepFields) /\ step.pc = "unvouched" /\ job' = job BY StepBefore DEF Unvouched
<1>2. CASE step' = To(step, "position")
  <2>1. step'.pc = "position" /\ step'.then = step.then /\ step'.look = step.look /\ step'.pos = step.pos /\ SameReads(step', step)
    BY <1>1, <1>2, ToIs
  <2> QED BY <1>1, <2>1, PcWork DEF WorkInv, WorkNext
<1>3. CASE \E c : step' = To([step EXCEPT !.claim = c], "fsync")
  <2>1. PICK c : step' = To([step EXCEPT !.claim = c], "fsync") BY <1>3
  <2> DEFINE r == [step EXCEPT !["claim"] = c]
  <2>2. Fields(r, StepFields) /\ r.pc = step.pc /\ r.then = step.then /\ r.look = step.look /\ r.pos = step.pos /\ SameReads(r, step)
    BY <1>1, SetOther
  <2>3. step' = To(r, "fsync") BY <2>1
  <2> HIDE DEF r
  <2>4. step'.pc = "fsync" /\ step'.then = r.then /\ step'.look = r.look /\ step'.pos = r.pos /\ SameReads(step', r)
    BY <2>2, <2>3, ToIs
  <2>5. SameReads(step', step) BY <2>2, <2>4 DEF SameReads
  <2> QED BY <1>1, <2>2, <2>4, <2>5, PcWork DEF WorkInv, WorkNext
<1> QED BY <1>2, <1>3 DEF Unvouched

\* The fsync, over the files as it leaves them.
LEMMA FsyncWork ==
    ASSUME Shape, FsyncWal, NEW v, Work(step, job.gen, v) PROVE Work(step', job'.gen, v)
<1>1. Fields(step, StepFields) /\ step.pc = "fsync" /\ job' = job BY StepBefore DEF FsyncWal
<1>2. CASE step' = To(step, "position")
  <2>1. step'.pc = "position" /\ step'.then = step.then /\ step'.look = step.look /\ step'.pos = step.pos /\ SameReads(step', step)
    BY <1>1, <1>2, ToIs
  <2> QED BY <1>1, <2>1, PcWork
<1>3. CASE step' = To([step EXCEPT !.claim = NoClaim], "position")
  <2> DEFINE r == [step EXCEPT !["claim"] = NoClaim]
  <2>2. Fields(r, StepFields) /\ r.pc = step.pc /\ r.then = step.then /\ r.look = step.look /\ r.pos = step.pos /\ SameReads(r, step)
    BY <1>1, SetOther
  <2>3. step' = To(r, "position") BY <1>3
  <2> HIDE DEF r
  <2>4. step'.pc = "position" /\ step'.then = r.then /\ step'.look = r.look /\ step'.pos = r.pos /\ SameReads(step', r)
    BY <2>2, <2>3, ToIs
  <2>5. SameReads(step', step) BY <2>2, <2>4 DEF SameReads
  <2> QED BY <1>1, <2>2, <2>4, <2>5, PcWork
<1> QED BY <1>2, <1>3 DEF FsyncWal

\* The looks.
LEMMA SetLook ==
    ASSUME NEW s, Fields(s, StepFields), NEW x, NEW q, q = [s EXCEPT !.look = x]
    PROVE  Fields(q, StepFields) /\ q.pc = s.pc /\ q.then = s.then /\ q.look = x /\ q.pos = s.pos /\ SameReads(q, s)
<1>1. "look" \in StepFields BY DEF StepFields
<1>2. Fields(q, StepFields) /\ q.look = x /\ \A h \in StepFields \ {"look"} : q[h] = s[h] BY <1>1, SetField
<1> QED BY <1>2 DEF SameReads, StepFields

LEMMA LookWork ==
    ASSUME NEW s, NEW g, NEW v, Work(s, g, v), NEW q, q.then = s.then, q.pos = s.pos, SameReads(q, s),
           Viewed(v), q.look \in Looks, q.look.snapshot =< v.snap.id,
           \/ s.pc = "lookSnapshot" /\ q.pc = "lookWal" /\ q.look.snapshot = v.snap.id
           \/ s.pc = "lookWal" /\ q.pc = "lookIntent" /\ q.look.wal = v.wal.id /\ q.look.snapshot = s.look.snapshot
           \/ s.pc = "lookIntent" /\ q.pc = "lookIntent" /\ q.look.wal = s.look.wal /\ q.look.snapshot = s.look.snapshot
    PROVE  Work(q, g, v)
<1>1. Still(q) BY DEF Still, LookPcs
<1>2. LookOf(q, v) /\ ReadOf(q, v) BY DEF Work, LookOf, ReadOf, SameReads, LookPcs
<1>3. /\ (Shown(s, v) => Shown(q, v)) /\ (Switched(s, g, v) => Switched(q, g, v))
      /\ (Segment(s, g, v.durable) <=> Segment(q, g, v.durable))
  BY DEF Shown, Switched, Segment, SameReads
<1>4. (ToBase(q) <=> ToBase(s)) /\ (ToSegment(q) <=> ToSegment(s)) BY DEF ToBase, ToSegment
<1>5. BaseOf(q, v) BY <1>3, <1>4 DEF Work, BaseOf, SameReads
<1>6. SegmentOf(q, g, v) BY <1>3, <1>4 DEF Work, SegmentOf, SameReads
<1> QED BY <1>1, <1>2, <1>5, <1>6 DEF Work

LEMMA ObserveSnapshotWork == ASSUME Shape, StoreParts, StoreInv, WorkInv, ObserveSnapshot PROVE WorkNext
<1>1. Fields(step, StepFields) /\ step.pc = "lookSnapshot" /\ job' = job BY StepBefore DEF ObserveSnapshot
<1> DEFINE x == [step.look EXCEPT !.snapshot = snap.id]
           r == [step EXCEPT !.look = x]
<1>2. step.look \in Looks BY DEF WorkInv, Work, LookOf
<1>3. snap.id \in Nat BY StoreTypes
<1>4. x \in Looks /\ x.snapshot = snap.id BY <1>2, <1>3 DEF Looks
<1> HIDE DEF x
<1>5. Fields(r, StepFields) /\ r.pc = step.pc /\ r.then = step.then /\ r.look = x /\ r.pos = step.pos /\ SameReads(r, step)
  BY <1>1, SetLook
<1>6. step' = To(r, "lookWal") BY DEF ObserveSnapshot, x
<1> HIDE DEF r
<1>7. step'.pc = "lookWal" /\ step'.then = r.then /\ step'.look = r.look /\ step'.pos = r.pos /\ SameReads(step', r)
  BY <1>5, <1>6, ToIs
<1>8. SameReads(step', step) BY <1>5, <1>7 DEF SameReads
<1>9. Viewed(View) /\ View.snap = snap BY ViewIs
<1>10. Work(step', job.gen, View) BY <1>1, <1>3, <1>4, <1>5, <1>7, <1>8, <1>9, LookWork DEF WorkInv
<1> QED BY <1>1, <1>10 DEF WorkInv, WorkNext

LEMMA ObserveWalWork == ASSUME Shape, StoreParts, StoreInv, WorkInv, ObserveWal PROVE WorkNext
<1>1. Fields(step, StepFields) /\ step.pc = "lookWal" /\ job' = job BY StepBefore DEF ObserveWal
<1> DEFINE x == [step.look EXCEPT !.wal = wal.id, !.len = Len(wal.frames)]
           r == [step EXCEPT !.look = x]
<1>2. step.look \in Looks /\ step.look.snapshot =< View.snap.id BY DEF WorkInv, Work, LookOf
<1>3. wal.id \in Int /\ Len(wal.frames) \in Nat BY StoreTypes, Files DEF Wals
<1>4. x \in Looks /\ x.wal = wal.id /\ x.snapshot = step.look.snapshot BY <1>2, <1>3 DEF Looks
<1> HIDE DEF x
<1>5. Fields(r, StepFields) /\ r.pc = step.pc /\ r.then = step.then /\ r.look = x /\ r.pos = step.pos /\ SameReads(r, step)
  BY <1>1, SetLook
<1>6. step' = To(r, "lookIntent") BY <1>1 DEF ObserveWal, x, Fields, StepFields
<1> HIDE DEF r
<1>7. step'.pc = "lookIntent" /\ step'.then = r.then /\ step'.look = r.look /\ step'.pos = r.pos /\ SameReads(step', r)
  BY <1>5, <1>6, ToIs
<1>8. SameReads(step', step) BY <1>5, <1>7 DEF SameReads
<1>9. Viewed(View) /\ View.wal = wal BY ViewIs
<1>10. Work(step', job.gen, View) BY <1>1, <1>2, <1>4, <1>5, <1>7, <1>8, <1>9, LookWork DEF WorkInv
<1> QED BY <1>1, <1>10 DEF WorkInv, WorkNext

\* No intent: the snapshot on disk has no frame of the WAL.
LEMMA NoIntent ==
    ASSUME StoreParts, StoreInv, intent = {} PROVE Len(snap.state) = floor
<1>1. floor =< Len(snap.state) /\ Len(snap.state) \in Nat /\ floor \in Nat BY Files
<1>2. ~(Len(snap.state) > floor) BY DEF StoreInv, HeldInv
<1> QED BY <1>1, <1>2

\* The step with its answer, before it returns.
LEMMA Returned ==
    ASSUME NEW s, Fields(s, StepFields), NEW q, q = [s EXCEPT !.pc = "returned"]
    PROVE  q.pc = "returned" /\ q.look = s.look /\ q.pos = s.pos /\ SameReads(q, s)
<1>1. "pc" \in StepFields BY DEF StepFields
<1>2. q.pc = "returned" /\ \A h \in StepFields \ {"pc"} : q[h] = s[h] BY <1>1, SetField
<1> QED BY <1>2 DEF SameReads, StepFields

LEMMA ObserveIntentWork == ASSUME Shape, StoreParts, StoreInv, WorkInv, ObserveIntent PROVE WorkNext
<1>1. Fields(step, StepFields) /\ step.pc = "lookIntent" /\ step.then \in LookThens /\ job' = job
  BY StepBefore DEF ObserveIntent
<1> DEFINE x == [step.look EXCEPT !.intent = intent # {}]
           r == [step EXCEPT !.look = x]
<1>2. step.look \in Looks /\ step.look.snapshot =< View.snap.id BY DEF WorkInv, Work, LookOf
<1>3. /\ x \in Looks /\ x.wal = step.look.wal /\ x.snapshot = step.look.snapshot
      /\ ~x.intent => intent = {}
  BY <1>2 DEF Looks
<1> HIDE DEF x
<1>4. Fields(r, StepFields) /\ r.pc = step.pc /\ r.then = step.then /\ r.look = x /\ r.pos = step.pos /\ SameReads(r, step)
  BY <1>1, SetLook
<1>5. step' = Return(r) BY DEF ObserveIntent, x
<1> HIDE DEF r
<1>6. Viewed(View) /\ View.snap = snap /\ View.floor = floor BY ViewIs
<1>7. Work(r, job.gen, View) BY <1>1, <1>2, <1>3, <1>4, <1>6, LookWork DEF WorkInv
<1>8. LookOf([r EXCEPT !.pc = "returned"], View)
  <2> DEFINE q == [r EXCEPT !.pc = "returned"]
  <2>1. q.pc = "returned" /\ q.look = r.look /\ q.pos = r.pos /\ SameReads(q, r) BY <1>4, Returned
  <2> HIDE DEF q
  <2>2. ~x.intent => Settled(x, View) BY <1>3, <1>6, NoIntent DEF Settled
  <2>3. LookOf(q, View) BY <1>4, <1>7, <2>1, <2>2 DEF Work, LookOf, SameReads
  <2> QED BY <2>3 DEF q
<1>9. Work(step', job.gen, View)
  <2>1. r.pc \in {"lookIntent", "position"} /\ r.then \in LookThens \cup AskThens BY <1>1, <1>4
  <2> QED BY <1>4, <1>5, <1>6, <1>7, <1>8, <2>1, ReturnWork
<1> QED BY <1>1, <1>9 DEF WorkInv, WorkNext

\* What the engine answers.
LEMMA PositionWork ==
    ASSUME Shape, StoreParts, StoreInv, EngineInv', WorkInv, Position PROVE WorkNext
<1>1. Fields(step, StepFields) /\ step.pc = "position" /\ step.then \in AskThens /\ job' = job
  BY StepBefore DEF Position
<1> DEFINE u == [step EXCEPT !.pos = pos']
           r == [u EXCEPT !["claim"] = NoClaim]
<1>2. /\ Fields(u, StepFields) /\ u.pos = pos' /\ u.pc = step.pc /\ u.then = step.then /\ u.look = step.look
      /\ SameReads(u, step)
  <2>1. "pos" \in StepFields BY DEF StepFields
  <2>2. Fields(u, StepFields) /\ u.pos = pos' /\ \A h \in StepFields \ {"pos"} : u[h] = step[h]
    BY <1>1, <2>1, SetField
  <2> HIDE DEF u
  <2> QED BY <2>2 DEF SameReads, StepFields
<1> HIDE DEF u
<1>3. Fields(r, StepFields) /\ r.pc = u.pc /\ r.then = u.then /\ r.look = u.look /\ r.pos = u.pos /\ SameReads(r, u)
  BY <1>2, SetOther
<1>4. step' = Return(r) BY DEF Position, u
<1> HIDE DEF r
<1>5. /\ Viewed(View) /\ View.snap = snap /\ View.wal = wal /\ View.stage = writer.stage BY ViewIs
<1>6. PosOK(pos', View)
  <2>1. snap' = snap /\ wal' = wal /\ writer' = writer BY DEF Position, store
  <2>2. pos' \in Positions /\ pos'.snapshot =< snap'.id BY DEF EngineInv, EngineType
  <2>3. pos'.snapshot = snap'.id /\ pos'.wal = wal'.id => pos'.len =< wal'.synced BY DEF EngineInv, Marked, CursorInv
  <2>4. writer'.stage = "written" /\ pos'.snapshot = snap'.id => pos'.wal = wal'.id BY DEF EngineInv
  <2> QED BY <1>5, <2>1, <2>2, <2>3, <2>4 DEF PosOK
<1>7. r.pos = pos' /\ r.pc = step.pc /\ r.then = step.then /\ r.look = step.look /\ SameReads(r, step)
  BY <1>2, <1>3 DEF SameReads
<1>8. step.pc \notin LookPcs BY <1>1 DEF LookPcs
<1>9. LookOf(r, View) /\ ReadOf(r, View) BY <1>5, <1>6, <1>7, <1>8, LookSame DEF WorkInv, Work
<1>10. Work(r, job.gen, View)
  <2>1. Still(r) BY <1>1, <1>7 DEF Still
  <2>2. /\ (Shown(step, View) => Shown(r, View)) /\ (Switched(step, job.gen, View) => Switched(r, job.gen, View))
        /\ (Segment(step, job.gen, View.durable) <=> Segment(r, job.gen, View.durable))
    BY <1>7 DEF Shown, Switched, Segment, SameReads
  <2>3. (ToBase(r) <=> ToBase(step)) /\ (ToSegment(r) <=> ToSegment(step)) BY <1>7 DEF ToBase, ToSegment
  <2>4. BaseOf(r, View) BY <1>1, <1>7, <2>2, <2>3 DEF WorkInv, Work, BaseOf, SameReads
  <2>5. SegmentOf(r, job.gen, View) BY <1>1, <1>7, <2>2, <2>3 DEF WorkInv, Work, SegmentOf, SameReads
  <2> QED BY <1>9, <2>1, <2>4, <2>5 DEF Work
<1>11. LookOf([r EXCEPT !.pc = "returned"], View)
  <2> DEFINE q == [r EXCEPT !.pc = "returned"]
  <2>1. q.pc = "returned" /\ q.look = r.look /\ q.pos = r.pos /\ SameReads(q, r) BY <1>3, Returned
  <2> HIDE DEF q
  <2>2. PosOK(q.pos, View) BY <1>6, <1>7, <2>1
  <2>3. r.pc \notin LookPcs BY <1>7, <1>8
  <2>4. LookOf(q, View) BY <1>5, <1>9, <2>1, <2>2, <2>3, LookSame
  <2> QED BY <2>4 DEF q
<1>12. Work(step', job.gen, View)
  <2>1. r.pc \in {"lookIntent", "position"} /\ r.then \in LookThens \cup AskThens BY <1>1, <1>7
  <2> QED BY <1>3, <1>4, <1>5, <1>10, <1>11, <2>1, ReturnWork
<1> QED BY <1>1, <1>12 DEF WorkInv, WorkNext

\* What the worker notes of its tenure beside its generation and its numbers.
SameJob(k, j) == k.gen = j.gen /\ k.next = j.next /\ k.resumed = j.resumed

LEMMA SetJob ==
    ASSUME NEW j, Fields(j, JobFields),
           NEW k \in {"refused", "allocated", "dirty", "known", "target", "versions", "stale"}, NEW x,
           NEW q, q = [j EXCEPT ![k] = x]
    PROVE  Fields(q, JobFields) /\ SameJob(q, j)
<1>1. k \in JobFields BY DEF JobFields
<1>2. Fields(q, JobFields) /\ \A g \in JobFields \ {k} : q[g] = j[g] BY <1>1 DEF Fields
<1>3. \A g \in {"gen", "next", "resumed"} : g \in JobFields \ {k} BY DEF JobFields
<1> QED BY <1>2, <1>3 DEF SameJob

LEMMA SetJobTwice ==
    ASSUME NEW j, Fields(j, JobFields), NEW x, NEW y
    PROVE  /\ SameJob([j EXCEPT !.known = x, !.target = y], j)
           /\ SameJob([j EXCEPT !.target = x, !.dirty = y], j)
<1>1. SameJob([j EXCEPT !.known = x, !.target = y], j)
  <2> DEFINE r == [j EXCEPT !["known"] = x]
             q == [r EXCEPT !["target"] = y]
  <2>1. Fields(r, JobFields) /\ SameJob(r, j) BY SetJob
  <2>2. SameJob(q, r)
    <3> HIDE DEF r
    <3> QED BY <2>1, SetJob
  <2>3. SameJob(q, j)
    <3> HIDE DEF r, q
    <3> QED BY <2>1, <2>2 DEF SameJob
  <2> QED BY <2>3
<1>2. SameJob([j EXCEPT !.target = x, !.dirty = y], j)
  <2> DEFINE r == [j EXCEPT !["target"] = x]
             q == [r EXCEPT !["dirty"] = y]
  <2>1. Fields(r, JobFields) /\ SameJob(r, j) BY SetJob
  <2>2. SameJob(q, r)
    <3> HIDE DEF r
    <3> QED BY <2>1, SetJob
  <2>3. SameJob(q, j)
    <3> HIDE DEF r, q
    <3> QED BY <2>1, <2>2 DEF SameJob
  <2> QED BY <2>3
<1> QED BY <1>1, <1>2

\* The numbers of the worker's generations.
LEMMA ResumeJob ==
    ASSUME Shape, Resume
    PROVE  \/ SameJob(job', job) /\ step' = Done
           \/ /\ job'.gen = job.gen /\ job'.resumed = TRUE /\ step' = Looking(step, <<"observed">>)
              /\ job'.next = 1 + Max({None} \cup {o.num : o \in bucket.snaps}
                                            \cup {o.num : o \in bucket.segs}
                                            \cup {m.num : m \in bucket.mans})
<1>1. Fields(job, JobFields) BY DEF Shape
<1> DEFINE top == 1 + Max({None} \cup {o.num : o \in bucket.snaps}
                                 \cup {o.num : o \in bucket.segs}
                                 \cup {m.num : m \in bucket.mans})
<1>2. \/ (\E x : job' = [job EXCEPT !.refused = x]) /\ step' = Done
      \/ job' = [job EXCEPT !.resumed = TRUE, !.next = top] /\ step' = Looking(step, <<"observed">>)
  BY DEF Resume
<1> HIDE DEF top
<1>3. ASSUME NEW x, job' = [job EXCEPT !.refused = x] PROVE SameJob(job', job)
  BY <1>1, <1>3, SetJob
<1>4. ASSUME job' = [job EXCEPT !.resumed = TRUE, !.next = top]
      PROVE  job'.gen = job.gen /\ job'.resumed = TRUE /\ job'.next = top
  BY <1>1, <1>4 DEF Fields, JobFields
<1> QED BY <1>2, <1>3, <1>4 DEF top

LEMMA BaseReadJob ==
    ASSUME Shape, BaseRead
    PROVE  \/ job' = job /\ step' = Done
           \/ /\ job'.gen = job.gen /\ job'.resumed = job.resumed /\ job'.next = job.next + 1
              /\ step' = To(step, "putSnapshot") /\ UnchangedUntil(step.disk, step.look)
              /\ step.snap.id = step.disk.snapshot
<1>1. Fields(job, JobFields) BY DEF Shape
<1>2. \/ job' = job /\ step' = Done
      \/ /\ \E y : job' = [job EXCEPT !.next = job.next + 1, !.allocated = y]
         /\ step' = To(step, "putSnapshot") /\ UnchangedUntil(step.disk, step.look)
         /\ step.snap.id = step.disk.snapshot
  <2>1. [job EXCEPT !.next = @ + 1, !.allocated = @ \cup {job.next}]
           = [job EXCEPT !.next = job.next + 1, !.allocated = job.allocated \cup {job.next}]
    OBVIOUS
  <2> QED BY <2>1 DEF BaseRead
<1>3. ASSUME NEW y, job' = [job EXCEPT !.next = job.next + 1, !.allocated = y]
      PROVE  job'.gen = job.gen /\ job'.resumed = job.resumed /\ job'.next = job.next + 1
  BY <1>1, <1>3 DEF Fields, JobFields
<1> QED BY <1>2, <1>3

\* The steps that leave the generation and the numbers as they are.
LEMMA StartJob == ASSUME Shape, StartStep PROVE SameJob(job', job)
<1>1. Fields(job, JobFields) BY DEF Shape
<1>2. job' = job \/ \E x, y : job' = [job EXCEPT !.known = x, !.target = y] BY DEF StartStep
<1>3. ASSUME NEW x, NEW y, job' = [job EXCEPT !.known = x, !.target = y] PROVE SameJob(job', job)
  <2>1. SameJob([job EXCEPT !.known = x, !.target = y], job) BY <1>1, SetJobTwice
  <2> QED BY <1>3, <2>1
<1>4. CASE job' = job BY <1>4 DEF SameJob
<1> QED BY <1>2, <1>3, <1>4

LEMMA ManifestJob ==
    ASSUME Shape, PutManifest \/ PutLatest
    PROVE  \/ SameJob(job', job)
           \/ Conflict
<1>1. Fields(job, JobFields) BY DEF Shape
<1>2. CASE PutManifest
  <2>1. \/ Conflict \/ (\E x : job' = [job EXCEPT !.versions = x]) \/ (\E x : job' = [job EXCEPT !.stale = x])
    BY <1>2 DEF PutManifest
  <2> QED BY <1>1, <2>1, SetJob
<1>3. CASE PutLatest
  <2>1. \/ Conflict \/ (\E x, y : job' = [job EXCEPT !.target = x, !.dirty = y]) \/ (\E x : job' = [job EXCEPT !.known = x])
    BY <1>3 DEF PutLatest
  <2>2. ASSUME NEW x, NEW y, job' = [job EXCEPT !.target = x, !.dirty = y] PROVE SameJob(job', job)
    <3>1. SameJob([job EXCEPT !.target = x, !.dirty = y], job) BY <1>1, SetJobTwice
    <3> QED BY <2>2, <3>1
  <2>3. ASSUME NEW x, job' = [job EXCEPT !.known = x] PROVE SameJob(job', job) BY <1>1, <2>3, SetJob
  <2> QED BY <2>1, <2>2, <2>3
<1> QED BY <1>2, <1>3

-----------------------------------------------------------------------------
\* The generation is the same, the step goes on to look or ends.
LEMMA StartWork == ASSUME Shape, StoreParts, StoreInv, WorkInv, StartStep PROVE WorkNext
<1>1. Fields(step, StepFields) /\ step.pc = "idle" BY StepBefore DEF StartStep
<1>2. job'.gen = job.gen BY StartJob DEF SameJob
<1>3. Viewed(View) BY ViewIs
<1>4. CASE step' = Looking(step, <<"observed">>) BY <1>1, <1>2, <1>3, <1>4, LookingWork DEF WorkInv, WorkNext
<1>5. CASE step' = Asking(step, "resume")
  <2>1. /\ step'.pc = "unvouched" /\ step'.then = <<"resume">> /\ step'.look = step.look /\ step'.pos = NoPos
        /\ SameReads(step', step) /\ Still(step')
    BY <1>1, <1>5, AskingIs
  <2>2. step.pc \notin LookPcs BY <1>1 DEF LookPcs
  <2>3. LookOf(step', View) /\ ReadOf(step', View) BY <1>3, <2>1, <2>2, LookSame DEF WorkInv, Work
  <2>4. Neutral(step') BY <2>1, Thens DEF Neutral
  <2>5. Work(step', job'.gen, View) BY <2>1, <2>3, <2>4, NeutralWork
  <2> QED BY <1>2, <2>5 DEF WorkInv, WorkNext
<1> QED BY <1>4, <1>5 DEF StartStep

LEMMA ResumeWork == ASSUME Shape, StoreParts, StoreInv, WorkInv, Resume PROVE WorkNext
<1>1. Fields(step, StepFields) BY StepBefore
<1>2. job'.gen = job.gen /\ (step' = Done \/ step' = Looking(step, <<"observed">>)) BY ResumeJob DEF SameJob
<1>3. Viewed(View) BY ViewIs
<1> QED BY <1>1, <1>2, <1>3, LookingWork, WorkNone DEF WorkInv, WorkNext, Done

LEMMA CatchUpWork == ASSUME Shape, StoreParts, StoreInv, WorkInv, CatchUp PROVE WorkNext
<1>1. Fields(step, StepFields) BY StepBefore
<1>2. job' = job /\ step' = Looking(step, <<"caughtUp">>) BY DEF CatchUp
<1>3. Viewed(View) BY ViewIs
<1> QED BY <1>1, <1>2, <1>3, LookingWork DEF WorkInv, WorkNext

LEMMA DoneNext ==
    ASSUME StoreParts, StoreInv, WorkInv, job'.gen = job.gen, step' = NoStep PROVE WorkNext
<1>1. Viewed(View) BY ViewIs
<1> QED BY <1>1, WorkNone DEF WorkInv, WorkNext

\* The worker forgets everything.
LEMMA KeyedNone == ASSUME NEW v PROVE Keyed(NoGen, v)
<1>1. NoGen.floor = 0 /\ NoGen.snap = 0 /\ NoGen.num = -1 /\ NoGen.segs = << >> /\ NoGen.key = << >>
  BY DEF NoGen, None
<1>2. Pieces(<< >>) BY DEF Pieces
<1> QED BY <1>1, <1>2 DEF Keyed

LEMMA ForgetNext ==
    ASSUME NEW v, Viewed(v), job' = NoJob, step' = NoStep \/ step' = [NoStep EXCEPT !.pc = "down"]
    PROVE  Work(step', job'.gen, v) /\ Keyed(job'.gen, v)
<1>1. job'.gen = NoGen BY StepRecords
<1> QED BY <1>1, WorkNone, KeyedNone

\* The snapshot is read; the commits in it are durable.
LEMMA OpenSnapshotWork == ASSUME Shape, StoreParts, StoreInv, WorkInv, OpenSnapshot PROVE WorkNext
<1>1. Fields(step, StepFields) /\ step.pc = "openSnapshot" /\ job' = job BY StepBefore DEF OpenSnapshot
<1> DEFINE u == [step EXCEPT !.snap = snap]
           r == [u EXCEPT !["base"] = TRUE]
<1>2. /\ Fields(u, StepFields) /\ u.snap = snap /\ u.pc = step.pc /\ u.then = step.then /\ u.look = step.look
      /\ u.pos = step.pos /\ u.disk = step.disk /\ u.before = step.before /\ u.floor = step.floor /\ u.frames = step.frames
  <2>1. "snap" \in StepFields BY DEF StepFields
  <2>2. Fields(u, StepFields) /\ u.snap = snap /\ \A h \in StepFields \ {"snap"} : u[h] = step[h]
    BY <1>1, <2>1, SetField
  <2> HIDE DEF u
  <2> QED BY <2>2 DEF StepFields
<1> HIDE DEF u
<1>3. Fields(r, StepFields) /\ r.pc = u.pc /\ r.then = u.then /\ r.look = u.look /\ r.pos = u.pos /\ SameReads(r, u)
  BY <1>2, SetOther
<1>4. step' = To(r, "readChain") BY DEF OpenSnapshot, u
<1> HIDE DEF r
<1>5. step'.pc = "readChain" /\ step'.then = r.then /\ step'.look = r.look /\ step'.pos = r.pos /\ SameReads(step', r)
  BY <1>3, <1>4, ToIs
<1>6. /\ step'.then = step.then /\ step'.look = step.look /\ step'.pos = step.pos
      /\ step'.snap = snap /\ step'.disk = step.disk /\ step'.before = step.before
      /\ step'.floor = step.floor /\ step'.frames = step.frames
  BY <1>2, <1>3, <1>5 DEF SameReads
<1>7. Viewed(View) /\ View.snap = snap /\ View.durable = Durable BY ViewIs
<1>8. step.then = << >> BY <1>1 DEF WorkInv, Work, Still, LookPcs
<1>9. Still(step') /\ ~ToBase(step') /\ ~ToSegment(step')
  BY <1>5, <1>6, <1>8, Thens DEF Still, ToBase, ToSegment
<1>10. LookOf(step', View) BY <1>1, <1>5, <1>6 DEF WorkInv, Work, LookOf, LookPcs
<1>11. snap \in [id : Nat, state : Seq(Nat)] /\ snap.id \in Nat BY StoreTypes
<1>12. snap.id = 0 => snap = NoSnap
  <2>1. NoSnap.id =< View.snap.id /\ (NoSnap.id = View.snap.id => NoSnap = View.snap) BY <1>7, Nothing
  <2>2. NoSnap.id = 0 BY DEF NoSnap
  <2> QED BY <1>7, <2>1, <2>2
<1>13. Begins(snap.state, Durable)
  <2>1. /\ snap.state \in Seq(Nat) /\ Durable \in Seq(Nat) /\ Len(Durable) = DurableLen /\ Begins(Durable, Line)
        /\ Begins(snap.state, Line) /\ Len(snap.state) \in Nat /\ floor + wal.synced \in Nat
    BY DurableFacts, Files
  <2>2. Len(snap.state) =< Len(Durable) BY <2>1 DEF DurableLen
  <2>3. Line \in Seq(Nat) BY Files
  <2> QED BY <2>1, <2>2, <2>3, BeginsBoth
<1>14. ReadOf(step', View)
  <2>1. step'.floor \in Nat /\ step'.frames \in Seq(Nat) BY <1>6 DEF WorkInv, Work, ReadOf
  <2> QED BY <1>6, <1>7, <1>11, <1>12, <1>13, <2>1 DEF ReadOf
<1>15. step'.before.snapshot = step'.disk.snapshot BY <1>1, <1>6 DEF WorkInv, Work, BaseOf
<1>16. BaseOf(step', View) /\ SegmentOf(step', job.gen, View) BY <1>5, <1>9, <1>15 DEF BaseOf, SegmentOf
<1>17. Work(step', job.gen, View) BY <1>9, <1>10, <1>14, <1>16 DEF Work
<1> QED BY <1>1, <1>17 DEF WorkInv, WorkNext

\* The floor is read after the snapshot: it is that one's, or the next look shows another.
LEMMA ReadChainWork == ASSUME Shape, StoreParts, StoreInv, WorkInv, ReadChain PROVE WorkNext
<1>1. Fields(step, StepFields) /\ step.pc = "readChain" /\ job' = job BY StepBefore DEF ReadChain
<1> DEFINE r == [step EXCEPT !.floor = floor]
<1>2. /\ Fields(r, StepFields) /\ r.floor = floor /\ r.disk = step.disk /\ r.before = step.before
      /\ r.snap = step.snap /\ r.frames = step.frames
  <2>1. "floor" \in StepFields BY DEF StepFields
  <2>2. Fields(r, StepFields) /\ r.floor = floor /\ \A h \in StepFields \ {"floor"} : r[h] = step[h]
    BY <1>1, <2>1, SetField
  <2> HIDE DEF r
  <2> QED BY <2>2 DEF StepFields
<1>3. step' = Looking(r, <<"unvouched", "baseRead">>) BY DEF ReadChain
<1> HIDE DEF r
<1>4. /\ step'.pc = "lookSnapshot" /\ step'.then = <<"unvouched", "baseRead">> /\ step'.look = NoLook
      /\ step'.pos = NoPos /\ SameReads(step', r) /\ Still(step')
  BY <1>2, <1>3, LookingIs
<1>5. /\ step'.disk = step.disk /\ step'.before = step.before /\ step'.snap = step.snap
      /\ step'.floor = floor /\ step'.frames = step.frames
  BY <1>2, <1>4 DEF SameReads
<1>6. Viewed(View) /\ View.snap = snap /\ View.floor = floor BY ViewIs
<1>7. floor \in Nat /\ snap.id \in Nat BY StoreTypes
<1>8. LookOf(step', View) BY <1>4, <1>5, <1>6, Nothing DEF WorkInv, Work, LookOf, LookPcs
<1>9. ReadOf(step', View) BY <1>5, <1>7 DEF WorkInv, Work, ReadOf
<1>10. ~ToSegment(step') BY <1>4, Thens DEF ToSegment
<1>11. ASSUME step'.snap.id = step'.disk.snapshot
       PROVE  step'.floor = Len(step'.snap.state) \/ Shown(step', View)
  <2>1. /\ step.disk.snapshot =< View.snap.id /\ step.disk.snapshot \in Int
        /\ Settled(step.disk, View)
        /\ step.snap.id = View.snap.id => step.snap = View.snap
    BY DEF WorkInv, Work, LookOf, ReadOf, Looks
  <2>2. CASE step.disk.snapshot = View.snap.id
    <3>1. step.snap = snap BY <1>5, <1>6, <1>11, <2>1, <2>2
    <3>2. Len(snap.state) = floor BY <1>6, <2>1, <2>2 DEF Settled
    <3> QED BY <1>5, <3>1, <3>2
  <2>3. CASE step.disk.snapshot # View.snap.id
    <3>1. View.snap.id > step.disk.snapshot BY <1>6, <1>7, <2>1, <2>3
    <3> QED BY <1>4, <1>5, <3>1 DEF Shown
  <2> QED BY <2>2, <2>3
<1>12. step'.before.snapshot = step'.disk.snapshot BY <1>1, <1>5 DEF WorkInv, Work, BaseOf
<1>13. BaseOf(step', View) /\ SegmentOf(step', job.gen, View) BY <1>4, <1>10, <1>11, <1>12 DEF BaseOf, SegmentOf
<1>14. Work(step', job.gen, View) BY <1>4, <1>8, <1>9, <1>13 DEF Work
<1> QED BY <1>1, <1>14 DEF WorkInv, WorkNext

\* The second look showed nothing.
LEMMA BaseReadWork == ASSUME Shape, StoreParts, StoreInv, WorkInv, BaseRead PROVE WorkNext
<1>1. Fields(step, StepFields) /\ step.pc = "baseRead" BY StepBefore DEF BaseRead
<1>2. CASE job' = job /\ step' = Done BY <1>2, DoneNext DEF Done
<1>3. CASE /\ job'.gen = job.gen /\ step' = To(step, "putSnapshot") /\ UnchangedUntil(step.disk, step.look)
           /\ step.snap.id = step.disk.snapshot
  <2>1. step'.pc = "putSnapshot" /\ step'.then = step.then /\ step'.look = step.look /\ step'.pos = step.pos /\ SameReads(step', step)
    BY <1>1, <1>3, ToIs
  <2>2. step.then = << >> BY <1>1 DEF WorkInv, Work, Still, LookPcs
  <2>3. Still(step') /\ ~ToBase(step') /\ ~ToSegment(step')
    BY <2>1, <2>2, Thens DEF Still, ToBase, ToSegment
  <2>4. LookOf(step', View) /\ ReadOf(step', View)
    BY <1>1, <2>1 DEF WorkInv, Work, LookOf, ReadOf, LookPcs, SameReads
  <2>5. step.look.snapshot = step.disk.snapshot BY <1>3 DEF UnchangedUntil
  <2>6. step.disk.snapshot \in Int BY DEF WorkInv, Work, LookOf, Looks
  <2>7. ~Shown(step, View) BY <1>1, <2>5, <2>6 DEF Shown
  <2>8. ToBase(step) BY <1>1 DEF ToBase
  <2>9. step.floor = Len(step.snap.state) /\ step.before.snapshot = step.disk.snapshot
    BY <1>3, <2>7, <2>8 DEF WorkInv, Work, BaseOf
  <2>10. BaseOf(step', View) /\ SegmentOf(step', job.gen, View)
    BY <1>3, <2>1, <2>3, <2>9 DEF BaseOf, SegmentOf, SameReads
  <2>11. Work(step', job.gen, View) BY <2>3, <2>4, <2>10 DEF Work
  <2> QED BY <1>3, <2>11 DEF WorkInv, WorkNext
<1> QED BY <1>2, <1>3, BaseReadJob

LEMMA MinOfThree ==
    ASSUME NEW a \in Nat, NEW b \in Nat, NEW c \in Nat
    PROVE  LET k == Min({a, b, c}) IN k \in {a, b, c} /\ k =< a /\ k =< b /\ k =< c
<1>1. \E x \in {a, b, c} : \A y \in {a, b, c} : x =< y
  <2>1. CASE a =< b /\ a =< c BY <2>1
  <2>2. CASE b =< a /\ b =< c BY <2>2
  <2>3. CASE c =< a /\ c =< b BY <2>3
  <2> QED BY <2>1, <2>2, <2>3
<1>2. Min({a, b, c}) = CHOOSE x \in {a, b, c} : \A y \in {a, b, c} : x =< y BY DEF Min
<1> QED BY <1>1, <1>2

\* The frames are read of the WAL looked at, of the one that took its place, or
\* of another snapshot's.
LEMMA ReadSegmentWork == ASSUME Shape, StoreParts, StoreInv, WorkInv, ReadSegment PROVE WorkNext
<1>1. Fields(step, StepFields) /\ step.pc = "readSegment" /\ job' = job BY StepBefore DEF ReadSegment
<1> DEFINE c == Cursor
           end == Min({Cursor + SegmentMax, step.pos.len, Len(wal.frames)})
           f == SubSeq(wal.frames, c + 1, end)
           r == [step EXCEPT !.frames = f]
<1>2. step' = Looking(r, <<"unvouched", "segmentRead">>) BY DEF ReadSegment
<1> HIDE DEF f
<1>3. Fields(r, StepFields) /\ r.frames = f /\ \A h \in StepFields \ {"frames"} : r[h] = step[h] BY <1>1, SetFrames
<1>4. c \in Nat /\ c = Len(Shipped(job.gen.segs))
  <2>1. Shipped(job.gen.segs) \in Seq(Nat) BY ShippedType DEF WorkInv, Keyed
  <2> QED BY <2>1 DEF Cursor
<1>5. /\ wal.frames \in Seq(Nat) /\ Len(wal.frames) \in Nat /\ floor \in Nat /\ wal.synced \in Nat
      /\ At(wal.frames, floor, Line) /\ Line \in Seq(Nat) /\ Len(Line) = floor + Len(wal.frames)
  BY Files
<1>6. step.pos \in Positions /\ step.pos.len \in Nat /\ PosOK(step.pos, View)
  BY DEF WorkInv, Work, LookOf, PosOK, Positions
<1>7. end \in Nat /\ end =< step.pos.len /\ end =< Len(wal.frames)
  <2> DEFINE a == Cursor + SegmentMax
             m == step.pos.len
             n == Len(wal.frames)
  <2>1. a \in Nat /\ m \in Nat /\ n \in Nat BY <1>4, <1>5, <1>6, BackupAssumption
  <2>2. end = Min({a, m, n}) OBVIOUS
  <2> HIDE DEF a, m, n, end
  <2>3. end \in {a, m, n} /\ end =< m /\ end =< n BY <2>1, <2>2, MinOfThree
  <2>4. end \in Nat BY <2>1, <2>3
  <2> QED BY <2>3, <2>4 DEF m, n
<1> HIDE DEF r, c, end
<1>8. /\ step'.pc = "lookSnapshot" /\ step'.then = <<"unvouched", "segmentRead">> /\ step'.look = NoLook
      /\ step'.pos = NoPos /\ SameReads(step', r) /\ Still(step')
  BY <1>2, <1>3, LookingIs
<1>9. /\ step'.disk = step.disk /\ step'.before = step.before /\ step'.snap = step.snap
      /\ step'.floor = step.floor /\ step'.frames = f
  BY <1>3, <1>8 DEF SameReads, StepFields
<1>10. /\ Viewed(View) /\ View.snap = snap /\ View.floor = floor /\ View.wal = wal
       /\ View.durable = Durable /\ View.line = Line /\ View.stage = writer.stage
  BY ViewIs
<1>11. f \in Seq(Nat) /\ (f # << >> => /\ c < end /\ Len(f) = end - c
                                      /\ \A i \in 1 .. (end - c) : f[i] = wal.frames[c + i])
  <2>0. /\ f \in Seq(Nat) /\ (end =< c => f = << >>)
        /\ c =< end => Len(f) = end - c /\ \A i \in 1 .. (end - c) : f[i] = wal.frames[c + i]
    <3> DEFINE w == wal.frames
    <3>1. w \in Seq(Nat) /\ c \in Nat /\ end \in Nat /\ end =< Len(w) BY <1>4, <1>5, <1>7
    <3>2. f = SubSeq(w, c + 1, end) BY DEF f
    <3> HIDE DEF w
    <3>3. /\ f \in Seq(Nat) /\ (end =< c => f = << >>)
          /\ c =< end => Len(f) = end - c /\ \A i \in 1 .. (end - c) : f[i] = w[c + i]
      BY <3>1, <3>2, SubFacts
    <3> QED BY <3>3 DEF w
  <2>1. CASE end =< c BY <2>0, <2>1
  <2>2. CASE c < end
    <3>1. c =< end BY <1>4, <1>7, <2>2
    <3> QED BY <2>0, <2>2, <3>1
  <2>3. end =< c \/ c < end BY <1>4, <1>7
  <2> QED BY <2>1, <2>2, <2>3
<1>12. LookOf(step', View) BY <1>8, <1>9, <1>10, Nothing DEF WorkInv, Work, LookOf, LookPcs
<1>13. ReadOf(step', View) BY <1>9, <1>11 DEF WorkInv, Work, ReadOf
<1>14. ~ToBase(step') BY <1>8, Thens DEF ToBase
<1>15. BaseOf(step', View) BY <1>8, <1>14 DEF BaseOf
<1> DEFINE g == job.gen
<1>16. /\ g.key = Key(step.pos) /\ Follows(step.pos, step.disk) BY <1>1 DEF WorkInv, Work, SegmentOf
<1>17. g.key # << >> /\ g.key[2] = step.pos.snapshot /\ g.snap = step.disk.snapshot
  <2>1. g.key = <<step.pos.gen, step.pos.snapshot, step.pos.wal>> BY <1>16 DEF Key
  <2>2. g.key # << >> /\ g.key[2] = step.pos.snapshot BY <2>1
  <2>3. g.key[2] = g.snap BY <2>2 DEF WorkInv, Keyed
  <2> QED BY <1>16, <2>2, <2>3 DEF Follows
<1>18. g.floor \in Nat /\ (g.snap = snap.id => g.floor = floor /\ Len(snap.state) = floor)
  BY <1>10, <1>17 DEF WorkInv, Keyed
<1>19. Segment(step', g, Durable) \/ Shown(step', View) \/ Switched(step', g, View)
  <2>1. step.disk.snapshot =< snap.id /\ step.disk.snapshot \in Int /\ snap.id \in Nat
    BY <1>10, StoreTypes DEF WorkInv, Work, LookOf, Looks
  <2>2. CASE snap.id # step.disk.snapshot
    <3>1. snap.id > step.disk.snapshot BY <2>1, <2>2
    <3> QED BY <1>8, <1>9, <1>10, <3>1 DEF Shown
  <2>3. ASSUME snap.id = step.disk.snapshot, f # << >> PROVE At(f, g.floor + c, Line)
    <3>1. g.floor = floor BY <1>17, <1>18, <2>3
    <3>2. Len(f) = end - c /\ c < end BY <1>11, <2>3
    <3>3. floor + c + Len(f) =< Len(Line)
      <4>1. Len(f) \in Nat BY <1>11
      <4>2. floor + c + Len(f) =< floor + Len(wal.frames) BY <1>4, <1>5, <1>7, <3>2, <4>1, Between
      <4> QED BY <1>5, <4>2
    <3>4. ASSUME NEW i \in 1 .. Len(f) PROVE f[i] = Line[floor + c + i]
      <4>1. i \in 1 .. (end - c) /\ i \in Nat BY <1>11, <3>2
      <4>2. c + i \in 1 .. Len(wal.frames)
        <5>1. i >= 1 /\ i =< end - c BY <1>4, <1>7, <4>1
        <5>2. \A x, y, z, n \in Nat : x >= 1 /\ x =< z - y /\ z =< n => y + x \in 1 .. n OBVIOUS
        <5>3. i \in Nat /\ c \in Nat /\ end \in Nat /\ Len(wal.frames) \in Nat /\ end =< Len(wal.frames)
          BY <1>4, <1>5, <1>7, <4>1
        <5> QED BY <5>1, <5>2, <5>3
      <4>3. f[i] = wal.frames[c + i] BY <1>11, <2>3, <4>1
      <4>4. wal.frames[c + i] = Line[floor + (c + i)] BY <1>5, <4>2 DEF At
      <4>5. floor + (c + i) = floor + c + i BY <1>4, <1>5, <4>1
      <4> QED BY <4>3, <4>4, <4>5
    <3> QED BY <3>1, <3>3, <3>4 DEF At
  <2>4. CASE snap.id = step.disk.snapshot /\ wal.id # step.disk.wal
    <3>1. step.pos.snapshot = snap.id /\ step.pos.wal # wal.id BY <1>16, <2>4 DEF Follows
    <3>2. writer.stage # "written" BY <1>6, <1>10, <3>1 DEF PosOK
    <3>3. Segment(step', g, Line) BY <1>4, <1>9, <2>3, <2>4 DEF Segment
    <3> QED BY <1>8, <1>9, <1>10, <2>4, <3>2, <3>3 DEF Switched
  <2>5. CASE snap.id = step.disk.snapshot /\ wal.id = step.disk.wal
    <3>1. step.pos.snapshot = snap.id /\ step.pos.wal = wal.id BY <1>16, <2>5 DEF Follows
    <3>2. step.pos.len =< wal.synced BY <1>6, <1>10, <3>1 DEF PosOK
    <3>3. SUFFICES ASSUME f # << >> PROVE At(f, g.floor + c, Durable) BY <1>4, <1>9 DEF Segment
    <3>4. At(f, g.floor + c, Line) BY <2>3, <2>5, <3>3
    <3>5. g.floor = floor /\ Len(snap.state) = floor BY <1>17, <1>18, <2>5
    <3>6. Durable \in Seq(Nat) /\ Len(Durable) = DurableLen /\ Begins(Durable, Line) BY DurableFacts
    <3>7. Len(Durable) = floor + wal.synced
      <4>1. ~(floor > floor + wal.synced) BY <1>5
      <4> QED BY <3>5, <3>6, <4>1 DEF DurableLen
    <3>8. Len(f) = end - c /\ c < end BY <1>11, <3>3
    <3>9. g.floor + c + Len(f) =< Len(Durable)
      <4>1. end =< wal.synced BY <1>5, <1>6, <1>7, <3>2, Reaches
      <4>2. Len(f) \in Nat BY <1>11
      <4>3. floor + c + Len(f) =< floor + wal.synced BY <1>4, <1>5, <1>7, <3>8, <4>1, <4>2, Between
      <4> QED BY <3>5, <3>7, <4>3
    <3>10. ASSUME NEW i \in 1 .. Len(f) PROVE f[i] = Durable[g.floor + c + i]
      <4>1. Len(f) \in Nat /\ i \in Nat /\ i =< Len(f) /\ i >= 1 BY <1>11
      <4>2. g.floor + c + i \in 1 .. Len(Durable)
        <5>1. \A x, y, m, n, j \in Nat : x + y + n =< m /\ j >= 1 /\ j =< n => x + y + j \in 1 .. m OBVIOUS
        <5>2. g.floor \in Nat /\ c \in Nat /\ Len(Durable) \in Nat BY <1>4, <1>5, <3>5, <3>6
        <5> QED BY <3>9, <4>1, <5>1, <5>2
      <4>3. f[i] = Line[g.floor + c + i] BY <3>4 DEF At
      <4> QED BY <3>6, <4>2, <4>3 DEF Begins
    <3> QED BY <3>9, <3>10 DEF At
  <2> QED BY <2>2, <2>4, <2>5
<1>20. SegmentOf(step', g, View)
  BY <1>8, <1>9, <1>10, <1>17, <1>19 DEF SegmentOf
<1>21. Work(step', g, View) BY <1>8, <1>12, <1>13, <1>15, <1>20 DEF Work
<1> QED BY <1>1, <1>21 DEF WorkInv, WorkNext

\* A generation begins: the base's snapshot is all of the commits before its WAL.
LEMMA PutSnapshotWork ==
    ASSUME Shape, StoreParts, StoreInv, WorkInv, job.next \in Int, PutSnapshot PROVE WorkNext
<1>1. step.pc = "putSnapshot" BY DEF PutSnapshot
<1> DEFINE gen == [num |-> job.next - 1, key |-> Key(step.before), floor |-> step.floor,
                   snap |-> step.snap.id, segs |-> << >>]
<1>2. \/ /\ job' = [job EXCEPT !.dirty = TRUE, !.gen = gen]
         /\ step' = Looking([NoStep EXCEPT !.base = TRUE], <<"unvouched", "ship">>)
      \/ job' = job /\ step' = NoStep
  BY DEF PutSnapshot, Fails, Done
<1>3. /\ gen.num = job.next - 1 /\ gen.key = Key(step.before) /\ gen.floor = step.floor
      /\ gen.snap = step.snap.id /\ gen.segs = << >>
  OBVIOUS
<1> HIDE DEF gen
<1>4. CASE job' = job /\ step' = NoStep BY <1>4, DoneNext
<1>5. CASE /\ job' = [job EXCEPT !.dirty = TRUE, !.gen = gen]
           /\ step' = Looking([NoStep EXCEPT !.base = TRUE], <<"unvouched", "ship">>)
  <2>1. job'.gen = gen
    <3>1. Fields(job, JobFields) BY DEF Shape
    <3> QED BY <1>5, <3>1 DEF Fields, JobFields
  <2>2. Viewed(View) /\ View.snap = snap /\ View.floor = floor BY ViewIs
  <2>3. Work(step', job'.gen, View) BY <1>5, <2>2, WorkNone
  <2>4. /\ step.before.snapshot = step.disk.snapshot
        /\ step.floor = Len(step.snap.state) /\ step.snap.id = step.disk.snapshot
    BY <1>1 DEF WorkInv, Work, BaseOf
  <2>5. /\ step.snap.id \in Nat /\ step.snap.id =< snap.id /\ step.floor \in Nat
        /\ step.snap.id = snap.id => step.snap = snap
    BY <2>2 DEF WorkInv, Work, ReadOf
  <2>6. step.disk.snapshot = snap.id => Len(snap.state) = floor BY <2>2 DEF WorkInv, Work, LookOf, Settled
  <2>7. gen.key[2] = gen.snap BY <1>3, <2>4 DEF Key
  <2>8. Pieces(gen.segs) BY <1>3 DEF Pieces
  <2>9. gen.num \in Int BY <1>3
  <2>10. gen.floor \in Nat /\ gen.snap \in Nat /\ gen.snap =< View.snap.id BY <1>3, <2>2, <2>5
  <2>11. gen.snap = View.snap.id => gen.floor = View.floor /\ Len(View.snap.state) = View.floor
    BY <1>3, <2>2, <2>4, <2>5, <2>6
  <2>12. Keyed(gen, View) BY <2>7, <2>8, <2>9, <2>10, <2>11 DEF Keyed
  <2> QED BY <2>1, <2>3, <2>12 DEF WorkNext
<1> QED BY <1>2, <1>4, <1>5

LEMMA AppendPieces ==
    ASSUME NEW S, NEW segs \in Seq(S), Pieces(segs), NEW s, s.frames \in Seq(Nat)
    PROVE  Pieces(Append(segs, s))
<1>1. segs \in Seq(S \cup {s}) BY SeqGrows
<1>2. /\ Len(Append(segs, s)) = Len(segs) + 1 /\ Len(segs) \in Nat
      /\ DOMAIN Append(segs, s) = 1 .. Len(segs) + 1
      /\ \A i \in 1 .. Len(segs) : Append(segs, s)[i] = segs[i]
      /\ Append(segs, s)[Len(segs) + 1] = s
  BY <1>1
<1>3. \A i \in 1 .. Len(segs) + 1 : i \in 1 .. Len(segs) \/ i = Len(segs) + 1 BY <1>2
<1> QED BY <1>2, <1>3 DEF Pieces

\* The segment put: what the generation becomes.
LEMMA PutSegmentJob ==
    ASSUME Shape, PutSegment
    PROVE  LET s == [num |-> job.gen.num, start |-> Cursor, frames |-> step.frames] IN
           \/ /\ SameJob([job' EXCEPT !.gen = job.gen], job)
              /\ job'.gen = [job.gen EXCEPT !.segs = Append(@, s)]
              /\ bucket' = [bucket EXCEPT !.segs = @ \cup {s}]
              /\ step' = Looking([NoStep EXCEPT !.base = step.base], <<"unvouched", "ship">>)
           \/ /\ job' = job /\ step' = NoStep
              /\ bucket' \in {bucket, [bucket EXCEPT !.segs = @ \cup {s}]}
<1> DEFINE s == [num |-> job.gen.num, start |-> Cursor, frames |-> step.frames]
<1>1. \/ /\ job' = [job EXCEPT !.gen.segs = Append(@, s), !.dirty = TRUE]
         /\ bucket' = [bucket EXCEPT !.segs = @ \cup {s}]
         /\ step' = Looking([NoStep EXCEPT !.base = step.base], <<"unvouched", "ship">>)
      \/ /\ job' = job /\ step' = NoStep
         /\ bucket' \in {bucket, [bucket EXCEPT !.segs = @ \cup {s}]}
  BY DEF PutSegment, Answered, Fails, Done
<1> HIDE DEF s
<1>2. Fields(job, JobFields) BY DEF Shape
<1>3. ASSUME job' = [job EXCEPT !.gen.segs = Append(@, s), !.dirty = TRUE]
      PROVE  /\ job'.gen = [job.gen EXCEPT !.segs = Append(@, s)]
             /\ Fields(job', JobFields) /\ job'.next = job.next /\ job'.resumed = job.resumed
  BY <1>2, <1>3 DEF Fields, JobFields
<1>4. ASSUME Fields(job', JobFields), job'.next = job.next, job'.resumed = job.resumed
      PROVE  SameJob([job' EXCEPT !.gen = job.gen], job)
  BY <1>4 DEF Fields, JobFields, SameJob
<1> QED BY <1>1, <1>3, <1>4 DEF s

LEMMA PutSegmentWork ==
    ASSUME Shape, PointInv, StoreParts, StoreInv, WorkInv, PutSegment PROVE WorkNext
<1> DEFINE s == [num |-> job.gen.num, start |-> Cursor, frames |-> step.frames]
<1>1. \/ /\ job'.gen = [job.gen EXCEPT !.segs = Append(@, s)]
         /\ step' = Looking([NoStep EXCEPT !.base = step.base], <<"unvouched", "ship">>)
      \/ job' = job /\ step' = NoStep
  BY PutSegmentJob
<1>2. s.frames = step.frames OBVIOUS
<1> HIDE DEF s
<1>3. CASE job' = job /\ step' = NoStep BY <1>3, DoneNext
<1>4. CASE /\ job'.gen = [job.gen EXCEPT !.segs = Append(@, s)]
           /\ step' = Looking([NoStep EXCEPT !.base = step.base], <<"unvouched", "ship">>)
  <2>1. Fields(job.gen, GenFields) BY DEF Shape
  <2>2. /\ job'.gen.segs = Append(job.gen.segs, s) /\ job'.gen.num = job.gen.num /\ job'.gen.key = job.gen.key
        /\ job'.gen.floor = job.gen.floor /\ job'.gen.snap = job.gen.snap
    BY <1>4, <2>1 DEF Fields, GenFields
  <2>3. Viewed(View) BY ViewIs
  <2>4. Work(step', job'.gen, View) BY <1>4, <2>3, WorkNone
  <2>5. s.frames \in Seq(Nat) BY <1>2 DEF WorkInv, Work, ReadOf
  <2>6. job.gen.segs \in Seq(bucket.segs) BY DEF PointInv, Whole
  <2>7. Pieces(job'.gen.segs) BY <2>2, <2>5, <2>6, AppendPieces DEF WorkInv, Keyed
  <2>8. Keyed(job'.gen, View) BY <2>2, <2>7 DEF WorkInv, Keyed
  <2> QED BY <2>4, <2>8 DEF WorkNext
<1> QED BY <1>1, <1>3, <1>4

-----------------------------------------------------------------------------
\* The steps of write_manifest and apply_retention read nothing of the files.
LEMMA LaterWork ==
    ASSUME Shape, StoreParts, StoreInv, WorkInv, job'.gen = job.gen, step.pc \in {"shipped", "putManifest"} \cup Late,
           NEW q, Fields(q, StepFields), q.then = step.then, q.look = step.look, q.pos = step.pos, SameReads(q, step),
           NEW l \in Late \cup {"putManifest"}, step' = To(q, l)
    PROVE  WorkNext
<1>1. step'.pc = l /\ step'.then = q.then /\ step'.look = q.look /\ step'.pos = q.pos /\ SameReads(step', q) BY ToIs
<1>2. SameReads(step', step) BY <1>1 DEF SameReads
<1>3. step.pc \notin LookPcs \cup {"unvouched", "fsync", "position"} BY DEF LookPcs, Late
<1>4. step'.pc \in {"putManifest", "putLatest", "retain", "deleteManifests"} BY <1>1 DEF Late
<1>5. Work(step', job'.gen, View) BY <1>1, <1>2, <1>3, <1>4, QuietWork DEF WorkInv
<1> QED BY <1>5 DEF WorkInv, WorkNext

LEMMA SetRetained ==
    ASSUME NEW s, Fields(s, StepFields), NEW x, NEW y, NEW z
    PROVE  LET q == [s EXCEPT !.kept = x, !.doomed = y, !.owned = z] IN
           Fields(q, StepFields) /\ q.then = s.then /\ q.look = s.look /\ q.pos = s.pos /\ SameReads(q, s)
<1> DEFINE a == [s EXCEPT !["kept"] = x]
           b == [a EXCEPT !["doomed"] = y]
           c == [b EXCEPT !["owned"] = z]
<1>1. Fields(a, StepFields) /\ a.then = s.then /\ a.look = s.look /\ a.pos = s.pos /\ SameReads(a, s) BY SetOther
<1> HIDE DEF a
<1>2. Fields(b, StepFields) /\ b.then = a.then /\ b.look = a.look /\ b.pos = a.pos /\ SameReads(b, a) BY <1>1, SetOther
<1> HIDE DEF b
<1>3. Fields(c, StepFields) /\ c.then = b.then /\ c.look = b.look /\ c.pos = b.pos /\ SameReads(c, b) BY <1>2, SetOther
<1> HIDE DEF c
<1>4. Fields(c, StepFields) /\ c.then = s.then /\ c.look = s.look /\ c.pos = s.pos /\ SameReads(c, s)
  BY <1>1, <1>2, <1>3 DEF SameReads
<1> QED BY <1>4 DEF a, b, c

LEMMA LateWork ==
    ASSUME Shape, StoreParts, StoreInv, WorkInv,
           Due \/ NotDue \/ PutManifest \/ PutLatest \/ Retain \/ DeleteManifest \/ DeleteObjects
    PROVE  WorkNext
<1>1. Fields(step, StepFields) BY StepBefore
<1>2. /\ step.then = step.then /\ SameReads(step, step) BY DEF SameReads
<1>3. Viewed(View) BY ViewIs
<1>4. CASE Conflict BY <1>3, <1>4, ForgetNext DEF Conflict, Done, WorkNext
<1>5. CASE Due
  <2>1. step.pc = "shipped" /\ step' = To(step, "putManifest") /\ job' = job BY <1>5 DEF Due
  <2> QED BY <1>1, <1>2, <2>1, LaterWork
<1>6. CASE NotDue BY <1>6, DoneNext DEF NotDue, Done
<1>7. CASE PutManifest /\ ~Conflict
  <2>1. SameJob(job', job) /\ step.pc = "putManifest" BY <1>7, ManifestJob DEF PutManifest
  <2>2. step' = NoStep \/ step' = To([step EXCEPT !["n"] = Manifest.n], "putLatest") BY <1>7 DEF PutManifest, Fails, Done
  <2>3. CASE step' = NoStep BY <2>1, <2>3, DoneNext DEF SameJob
  <2>4. CASE step' = To([step EXCEPT !["n"] = Manifest.n], "putLatest")
    <3> DEFINE x == Manifest.n
               q == [step EXCEPT !["n"] = x]
    <3>1. step' = To(q, "putLatest") BY <2>4
    <3> HIDE DEF x
    <3>2. Fields(q, StepFields) /\ q.then = step.then /\ q.look = step.look /\ q.pos = step.pos /\ SameReads(q, step)
      BY <1>1, SetOther
    <3> HIDE DEF q
    <3>3. job'.gen = job.gen /\ "putLatest" \in Late \cup {"putManifest"} BY <2>1 DEF SameJob, Late
    <3> QED BY <2>1, <3>1, <3>2, <3>3, LaterWork
  <2> QED BY <2>2, <2>3, <2>4
<1>8. CASE PutLatest /\ ~Conflict
  <2>1. SameJob(job', job) /\ step.pc = "putLatest" BY <1>8, ManifestJob DEF PutLatest
  <2>2. step' = NoStep \/ step' = To(step, "retain") BY <1>8 DEF PutLatest, Fails, Done
  <2>3. CASE step' = NoStep BY <2>1, <2>3, DoneNext DEF SameJob
  <2>4. CASE step' = To(step, "retain")
    <3>1. /\ job'.gen = job.gen /\ "retain" \in Late \cup {"putManifest"}
          /\ step.pc \in {"shipped", "putManifest"} \cup Late
      BY <2>1 DEF SameJob, Late
    <3> QED BY <1>1, <1>2, <2>4, <3>1, LaterWork
  <2> QED BY <2>2, <2>3, <2>4
<1>9. CASE Retain
  <2>1. step.pc = "retain" /\ job' = job BY <1>9 DEF Retain
  <2>2. step' = NoStep \/ \E x, y, z : step' = To([step EXCEPT !.kept = x, !.doomed = y, !.owned = z], "deleteManifests")
    BY <1>9 DEF Retain, Done
  <2>3. CASE step' = NoStep BY <2>1, <2>3, DoneNext
  <2>4. ASSUME NEW x, NEW y, NEW z, step' = To([step EXCEPT !.kept = x, !.doomed = y, !.owned = z], "deleteManifests")
        PROVE  WorkNext
    <3> DEFINE q == [step EXCEPT !.kept = x, !.doomed = y, !.owned = z]
    <3>1. Fields(q, StepFields) /\ q.then = step.then /\ q.look = step.look /\ q.pos = step.pos /\ SameReads(q, step)
      BY <1>1, SetRetained
    <3>2. step' = To(q, "deleteManifests") BY <2>4
    <3> HIDE DEF q
    <3>3. /\ "deleteManifests" \in Late \cup {"putManifest"} /\ step.pc \in {"shipped", "putManifest"} \cup Late
      BY <2>1 DEF Late
    <3> QED BY <2>1, <3>1, <3>2, <3>3, LaterWork
  <2> QED BY <2>2, <2>3, <2>4
<1>10. CASE DeleteManifest
  <2>1. step.pc = "deleteManifests" /\ job' = job BY <1>10 DEF DeleteManifest
  <2>2. step' = NoStep \/ \E x : step' = [step EXCEPT !["doomed"] = x] BY <1>10 DEF DeleteManifest, Fails, Done
  <2>3. CASE step' = NoStep BY <2>1, <2>3, DoneNext
  <2>4. ASSUME NEW x, step' = [step EXCEPT !["doomed"] = x] PROVE WorkNext
    <3> DEFINE q == [step EXCEPT !["doomed"] = x]
    <3>0. Fields(q, StepFields) /\ q.pc = step.pc /\ q.then = step.then /\ q.look = step.look /\ q.pos = step.pos /\ SameReads(q, step)
      BY <1>1, SetOther
    <3>1. /\ step'.pc = step.pc /\ step'.then = step.then /\ step'.look = step.look /\ step'.pos = step.pos
          /\ SameReads(step', step)
      BY <2>4, <3>0, Zenon
    <3>2. step.pc \notin LookPcs \cup {"unvouched", "fsync", "position"} BY <2>1 DEF LookPcs
    <3>3. Work(step', job'.gen, View) BY <2>1, <3>1, <3>2, QuietWork DEF WorkInv
    <3> QED BY <2>1, <3>3 DEF WorkInv, WorkNext
  <2> QED BY <2>2, <2>3, <2>4
<1>11. CASE DeleteObjects BY <1>11, DoneNext DEF DeleteObjects, Done
<1> QED BY <1>4, <1>5, <1>6, <1>7, <1>8, <1>9, <1>10, <1>11

\* A step of the worker, over the files as it leaves them.
LEMMA WorkingWork ==
    ASSUME IInv, StoreParts, StoreInv, EngineInv', WorkInv, job.next \in Int, Working, ~FsyncWal PROVE WorkNext
<1>1. Shape /\ PointInv BY DEF IInv
<1> QED BY <1>1, ObserveSnapshotWork, ObserveWalWork, ObserveIntentWork, UnvouchedWork, PositionWork,
       StartWork, ResumeWork, CatchUpWork, OpenSnapshotWork, ReadChainWork, BaseReadWork, PutSnapshotWork,
       ReadSegmentWork, PutSegmentWork, LateWork DEF Working

-----------------------------------------------------------------------------
(* The numbers of the generations.                                         *)

Below(b, n) == /\ \A o \in b.snaps : o.num < n
               /\ \A o \in b.segs : o.num < n
               /\ \A m \in b.mans : m.num < n

\* The step is the first of a tenure, which has not read what the bucket holds.
Asks(s) == s.pc = "resume" \/ s.then = <<"resume">>

\* A generation's number is above every one in the bucket, until its base is put.
NumberInv ==
    /\ job.next \in Nat /\ \E k \in Nat : Below(bucket, k)
    /\ job.resumed => Below(bucket, job.next) /\ job.gen.num < job.next
    /\ ~job.resumed => job.gen = NoGen /\ (Asks(step) \/ step.pc \in {"idle", "down"})
    /\ Asks(step) => ~job.resumed
    /\ step.pc = "putSnapshot" =>
          job.next # 0 /\ Below(bucket, job.next - 1) /\ job.gen.num < job.next - 1

Quiet(s) == ~Asks(s) /\ s.pc # "putSnapshot"

LEMMA ResumeThen ==
    /\ << >> # <<"resume">> /\ <<"resume">> \notin LookThens
    /\ \A l : l # "resume" => <<l>> # <<"resume">>
<1>1. \A a, b : Len(<<a>>) = 1 /\ Len(<<a, b>>) = 2 /\ Len(<< >>) = 0 OBVIOUS
<1>2. \A l : l # "resume" => <<l>> # <<"resume">> OBVIOUS
<1>3. <<"resume">> \notin LookThens
  <2>1. \A a, b : <<"resume">> # <<a, b>> BY <1>1
  <2> QED BY <1>2, <2>1 DEF LookThens
<1> QED BY <1>1, <1>2, <1>3

LEMMA QuietForms ==
    /\ Quiet(NoStep) /\ Quiet([NoStep EXCEPT !.pc = "down"])
    /\ \A s, next : Fields(s, StepFields) /\ next \in LookThens => Quiet(Looking(s, next))
    /\ \A s, l : Fields(s, StepFields) /\ l # "resume" => Quiet(Asking(s, l))
    /\ \A s, l : Fields(s, StepFields) /\ s.then # <<"resume">> /\ l \notin {"resume", "putSnapshot"} => Quiet(To(s, l))
<1>1. Quiet(NoStep) /\ Quiet([NoStep EXCEPT !.pc = "down"])
  BY NoStepIs, StepRecords, ResumeThen DEF Quiet, Asks
<1>2. ASSUME NEW s, NEW next, Fields(s, StepFields), next \in LookThens PROVE Quiet(Looking(s, next))
  <2> DEFINE q == Looking(s, next)
  <2>1. q.pc = "lookSnapshot" /\ q.then = next BY <1>2, LookingIs
  <2> HIDE DEF q
  <2>2. Quiet(q) BY <1>2, <2>1, ResumeThen DEF Quiet, Asks
  <2> QED BY <2>2 DEF q
<1>3. ASSUME NEW s, NEW l, Fields(s, StepFields), l # "resume" PROVE Quiet(Asking(s, l))
  <2> DEFINE q == Asking(s, l)
  <2>1. q.pc = "unvouched" /\ q.then = <<l>> BY <1>3, AskingIs
  <2> HIDE DEF q
  <2>2. Quiet(q) BY <1>3, <2>1, ResumeThen DEF Quiet, Asks
  <2> QED BY <2>2 DEF q
<1>4. ASSUME NEW s, NEW l, Fields(s, StepFields), s.then # <<"resume">>, l \notin {"resume", "putSnapshot"}
      PROVE  Quiet(To(s, l))
  <2> DEFINE q == To(s, l)
  <2>1. q.pc = l /\ q.then = s.then BY <1>4, ToIs
  <2> HIDE DEF q
  <2>2. Quiet(q) BY <1>4, <2>1 DEF Quiet, Asks
  <2> QED BY <2>2 DEF q
<1> QED BY <1>1, <1>2, <1>3, <1>4

\* A look or a question returns.
LEMMA ReturnQuiet ==
    ASSUME NEW s, Fields(s, StepFields), s.then \in LookThens \cup AskThens
    PROVE  /\ s.then # <<"resume">> => Quiet(Return(s))
           /\ s.then = <<"resume">> => Return(s).pc = "resume"
<1> DEFINE on == [s EXCEPT !.pc = Head(s.then), !.then = Tail(s.then)]
<1>1. /\ Fields(on, StepFields) /\ on.pc = Head(s.then) /\ on.then = Tail(s.then)
      /\ \A f \in StepFields \ {"pc", "then"} : on[f] = s[f]
  BY DEF Fields, StepFields
<1>2. Return(s) = CASE on.pc = "observed"    -> Observed(on)
                    [] on.pc = "positioned"  -> Positioned(on)
                    [] on.pc = "caughtUp"    -> CaughtUp(on)
                    [] on.pc = "decide"      -> Decided(on)
                    [] on.pc = "ship"        -> Ship(on)
                    [] on.pc = "segmentRead" -> SegmentRead(on)
                    [] OTHER -> on
  BY DEF Return
<1> HIDE DEF on
<1>3. \A a, b : /\ Head(<<a>>) = a /\ Head(<<a, b>>) = a /\ Tail(<<a, b>>) = <<b>> /\ Tail(<<a>>) = << >>
  OBVIOUS
<1>4. CASE s.then = <<"resume">>
  <2>1. on.pc = "resume" BY <1>1, <1>3, <1>4
  <2>2. Return(s) = on BY <1>2, <2>1
  <2> QED BY <1>4, <2>1, <2>2
<1>5. CASE s.then # <<"resume">>
  <2>1. \/ /\ on.pc \in {"observed", "caughtUp", "positioned", "decide", "ship", "segmentRead", "baseRead"}
           /\ on.then = << >>
        \/ on.pc = "unvouched" /\ on.then \in {<<"ship">>, <<"baseRead">>, <<"segmentRead">>}
    <3>2. CASE s.then \in {<<"observed">>, <<"caughtUp">>, <<"positioned">>, <<"decide">>, <<"ship">>,
                           <<"baseRead">>, <<"segmentRead">>}
      <4>1. PICK a \in {"observed", "caughtUp", "positioned", "decide", "ship", "baseRead", "segmentRead"} : s.then = <<a>>
        BY <3>2
      <4>2. on.pc = a /\ on.then = << >> BY <1>1, <1>3, <4>1
      <4> QED BY <4>2
    <3>4. CASE s.then \in {<<"unvouched", "ship">>, <<"unvouched", "baseRead">>, <<"unvouched", "segmentRead">>}
      <4>1. PICK a \in {"ship", "baseRead", "segmentRead"} : s.then = <<"unvouched", a>> BY <3>4
      <4>2. on.pc = "unvouched" /\ on.then = <<a>> BY <1>1, <1>3, <4>1
      <4> QED BY <4>1, <4>2
    <3> QED BY <1>5, <3>2, <3>4 DEF LookThens, AskThens
  <2>2. on.then # <<"resume">> BY <2>1, ResumeThen
  <2>3. Quiet(Done) BY QuietForms DEF Done
  <2>4. \A x : /\ Fields([on EXCEPT !.disk = x], StepFields) /\ [on EXCEPT !.disk = x].then = on.then
               /\ Fields([on EXCEPT !.before = x], StepFields) /\ [on EXCEPT !.before = x].then = on.then
    <3>1. \A x : Fields([on EXCEPT !.disk = x], StepFields) /\ [on EXCEPT !.disk = x].then = on.then BY <1>1, SetDisk
    <3>2. \A x : Fields([on EXCEPT !.before = x], StepFields) /\ [on EXCEPT !.before = x].then = on.then BY <1>1, SetBefore
    <3> QED BY <3>1, <3>2
  <2>5. \A x : Fields([NoStep EXCEPT !.base = x], StepFields) /\ [NoStep EXCEPT !.base = x].then # <<"resume">>
    BY NoStepIs, ResumeThen
  <2>6. Quiet(AllShipped(on)) BY <2>5, QuietForms DEF AllShipped
  <2>7. \A x : Quiet(Asking([on EXCEPT !.disk = x], "positioned")) /\ Quiet(Asking([on EXCEPT !.disk = x], "decide"))
    BY <2>4, QuietForms
  <2>8. Quiet(Observed(on)) /\ Quiet(CaughtUp(on)) BY <2>3, <2>7 DEF Observed, CaughtUp
  <2>9. Quiet(Decided(on))
    <3>1. <<"unvouched", "ship">> \in LookThens BY DEF LookThens
    <3>2. Quiet(Looking(on, <<"unvouched", "ship">>)) BY <1>1, <3>1, QuietForms
    <3>3. \A x : Quiet(To([on EXCEPT !.before = x], "openSnapshot")) BY <2>2, <2>4, QuietForms
    <3> QED BY <2>3, <3>2, <3>3 DEF Decided
  <2>10. Quiet(Positioned(on))
    <3>1. Quiet(To(on, "catchUp")) BY <1>1, <2>2, QuietForms
    <3> QED BY <2>9, <3>1 DEF Positioned
  <2>11. Quiet(Ship(on))
    <3>1. \A x : Quiet(To([on EXCEPT !.disk = x], "readSegment")) BY <2>2, <2>4, QuietForms
    <3> QED BY <2>6, <3>1 DEF Ship
  <2>12. Quiet(SegmentRead(on))
    <3> DEFINE b == [NoStep EXCEPT !.base = on.base]
               r == [b EXCEPT !.frames = on.frames]
               q == To(r, "putSegment")
    <3>1. NoStepFacts(b) /\ b.then = << >> /\ Fields(b, StepFields) BY NoStepIs
    <3> HIDE DEF b
    <3>2. NoStepFacts(r) /\ r.frames = on.frames /\ r.then = << >> /\ Fields(r, StepFields) BY <3>1, NoStepWith
    <3> HIDE DEF r
    <3>3. Quiet(q) BY <3>2, QuietForms, ResumeThen
    <3> HIDE DEF q
    <3>4. Quiet(To([NoStep EXCEPT !.base = on.base, !.frames = on.frames], "putSegment")) BY <3>3 DEF q, r, b
    <3> QED BY <2>6, <3>4 DEF SegmentRead
  <2>13. Quiet(on) BY <2>1, <2>2 DEF Quiet, Asks
  <2>14. Quiet(Return(s)) BY <1>2, <2>8, <2>9, <2>10, <2>11, <2>12, <2>13
  <2> QED BY <1>5, <2>14
<1> QED BY <1>4, <1>5

\* Past its first question a tenure has read the bucket.
LEMMA IsResumed ==
    ASSUME Shape, Still(step), NumberInv, step.pc \notin {"idle", "down", "resume", "unvouched", "fsync", "position"}
    PROVE  job.resumed /\ step.then # <<"resume">> /\ ~Asks(step)
<1>1. step.then # <<"resume">>
  <2>1. CASE step.pc \in LookPcs BY <2>1, StepBefore, ResumeThen DEF LookPcs
  <2>2. CASE step.pc \notin LookPcs BY <2>2, ResumeThen DEF Still
  <2> QED BY <2>1, <2>2
<1>2. ~Asks(step) BY <1>1 DEF Asks
<1> QED BY <1>1, <1>2 DEF NumberInv

\* The worker asks no more, and the bucket has no new numbers.
Within(c, b) == c.snaps \subseteq b.snaps /\ c.segs \subseteq b.segs /\ c.mans \subseteq b.mans

LEMMA BelowWithin == ASSUME NEW b, NEW c, NEW n, Below(b, n), Within(c, b) PROVE Below(c, n)
BY DEF Below, Within

LEMMA NumberQuiet ==
    ASSUME NumberInv, SameJob(job', job), Within(bucket', bucket), job.resumed, Quiet(step')
    PROVE  NumberInv'
<1>1. Below(bucket, job.next) /\ job.gen.num < job.next /\ job.next \in Nat BY DEF NumberInv
<1>2. Below(bucket', job.next) BY <1>1, BelowWithin
<1>3. job'.next = job.next /\ job'.gen = job.gen /\ job'.resumed = job.resumed BY DEF SameJob
<1> QED BY <1>1, <1>2, <1>3 DEF NumberInv, Quiet

\* The worker forgets its tenure.
LEMMA NumberForget ==
    ASSUME NumberInv, job' = NoJob, bucket' = bucket, step' \in {NoStep, [NoStep EXCEPT !.pc = "down"]}
    PROVE  NumberInv'
<1>1. job'.next = 0 /\ job'.resumed = FALSE /\ job'.gen = NoGen BY DEF NoJob
<1>2. step'.pc \in {"idle", "down"} /\ Quiet(step') BY NoStepIs, StepRecords, QuietForms
<1>3. \E k \in Nat : Below(bucket', k) BY DEF NumberInv
<1> QED BY <1>1, <1>2, <1>3 DEF NumberInv, Quiet

LEMMA NumberSame ==
    ASSUME NumberInv, job' = job, bucket' = bucket, step'.then = step.then, step'.pc # "putSnapshot",
           step'.pc # "resume", step.pc \notin {"resume", "idle", "down"}
    PROVE  NumberInv'
BY DEF NumberInv, Asks

\* The questions of a step; the first one of a tenure leads to resume.
LEMMA AskNumber ==
    ASSUME Shape, NumberInv, Unvouched \/ FsyncWal \/ Position PROVE NumberInv'
<1>1. Fields(step, StepFields) BY StepBefore
<1>2. ASSUME Unvouched \/ FsyncWal PROVE NumberInv'
  <2>1. /\ step.pc \in {"unvouched", "fsync"} /\ job' = job /\ bucket' = bucket
        /\ \E l \in {"fsync", "position"} :
              step' = To(step, l) \/ \E c : step' = To([step EXCEPT !["claim"] = c], l)
    BY <1>2 DEF Unvouched, FsyncWal, outside
  <2>2. PICK l \in {"fsync", "position"} :
              step' = To(step, l) \/ \E c : step' = To([step EXCEPT !["claim"] = c], l)
    BY <2>1
  <2>3. step'.pc = l /\ step'.then = step.then
    <3>1. CASE step' = To(step, l) BY <1>1, <3>1, ToIs
    <3>2. ASSUME NEW c, step' = To([step EXCEPT !["claim"] = c], l) PROVE step'.pc = l /\ step'.then = step.then
      <4> DEFINE r == [step EXCEPT !["claim"] = c]
      <4>1. Fields(r, StepFields) /\ r.pc = step.pc /\ r.then = step.then /\ r.look = step.look /\ r.pos = step.pos /\ SameReads(r, step)
        BY <1>1, SetOther
      <4>2. step' = To(r, l) BY <3>2
      <4> HIDE DEF r
      <4> QED BY <4>1, <4>2, ToIs
    <3> QED BY <2>2, <3>1, <3>2
  <2> QED BY <2>1, <2>3, NumberSame
<1>3. CASE Position
  <2> DEFINE r == [step EXCEPT !.pos = pos', !.claim = NoClaim]
  <2>1. step.pc = "position" /\ step.then \in AskThens /\ job' = job /\ bucket' = bucket
    BY <1>3, StepBefore DEF Position
  <2>2. Fields(r, StepFields) /\ r.then = step.then BY <1>1 DEF Fields, StepFields
  <2>3. step' = Return(r) BY <1>3 DEF Position
  <2> HIDE DEF r
  <2>4. (step.then # <<"resume">> => Quiet(step')) /\ (step.then = <<"resume">> => step'.pc = "resume")
    BY <2>1, <2>2, <2>3, ReturnQuiet
  <2>5. CASE step.then # <<"resume">>
    <3>1. ~Asks(step) BY <2>1, <2>5 DEF Asks
    <3>2. job.resumed BY <2>1, <3>1 DEF NumberInv
    <3>3. SameJob(job', job) /\ Within(bucket', bucket) BY <2>1 DEF SameJob, Within
    <3> QED BY <2>4, <2>5, <3>2, <3>3, NumberQuiet
  <2>6. CASE step.then = <<"resume">>
    <3>1. Asks(step) /\ Asks(step') /\ step'.pc = "resume" BY <2>4, <2>6 DEF Asks
    <3> QED BY <2>1, <3>1 DEF NumberInv
  <2> QED BY <2>5, <2>6
<1> QED BY <1>2, <1>3

\* The looks.
LEMMA LookNumber ==
    ASSUME Shape, Still(step), NumberInv, ObserveSnapshot \/ ObserveWal \/ ObserveIntent PROVE NumberInv'
<1>1. /\ Fields(step, StepFields) /\ job' = job /\ bucket' = bucket
      /\ step.pc \in {"lookSnapshot", "lookWal", "lookIntent"} /\ step.then \in LookThens
  BY StepBefore DEF ObserveSnapshot, ObserveWal, ObserveIntent, outside
<1>2. job.resumed /\ step.then # <<"resume">> BY <1>1, IsResumed
<1>3. SameJob(job', job) /\ Within(bucket', bucket) BY <1>1 DEF SameJob, Within
<1>4. \A x : Fields([step EXCEPT !.look = x], StepFields) /\ [step EXCEPT !.look = x].then = step.then
  BY <1>1, SetLook
<1>5. CASE ObserveSnapshot
  <2>1. step' = To([step EXCEPT !.look = [step.look EXCEPT !.snapshot = snap.id]], "lookWal")
    BY <1>5 DEF ObserveSnapshot
  <2>2. Quiet(step') BY <1>2, <1>4, <2>1, QuietForms
  <2> QED BY <1>2, <1>3, <2>2, NumberQuiet
<1>6. CASE ObserveWal
  <2> DEFINE x == [step.look EXCEPT !.wal = wal.id, !.len = Len(wal.frames)]
  <2>1. step' = To([step EXCEPT !.look = x], "lookIntent")
    BY <1>1, <1>6 DEF ObserveWal, Fields, StepFields
  <2> HIDE DEF x
  <2>2. Quiet(step') BY <1>2, <1>4, <2>1, QuietForms
  <2> QED BY <1>2, <1>3, <2>2, NumberQuiet
<1>7. CASE ObserveIntent
  <2> DEFINE x == [step.look EXCEPT !.intent = intent # {}]
             r == [step EXCEPT !.look = x]
  <2>1. step' = Return(r) BY <1>7 DEF ObserveIntent
  <2> HIDE DEF x
  <2>2. Fields(r, StepFields) /\ r.then = step.then BY <1>4
  <2> HIDE DEF r
  <2>3. Quiet(step') BY <1>1, <1>2, <2>1, <2>2, ReturnQuiet
  <2> QED BY <1>2, <1>3, <2>3, NumberQuiet
<1> QED BY <1>5, <1>6, <1>7

LEMMA StartNumber == ASSUME Shape, NumberInv, StartStep PROVE NumberInv'
<1>1. Fields(step, StepFields) /\ step.pc = "idle" /\ bucket' = bucket BY StepBefore DEF StartStep, outside
<1>2. SameJob(job', job) /\ Within(bucket', bucket) BY <1>1, StartJob DEF Within
<1>3. CASE job.resumed
  <2>1. step' = Looking(step, <<"observed">>) BY <1>3 DEF StartStep
  <2>2. <<"observed">> \in LookThens BY DEF LookThens
  <2>3. Quiet(step') BY <1>1, <2>1, <2>2, QuietForms
  <2> QED BY <1>2, <1>3, <2>3, NumberQuiet
<1>4. CASE ~job.resumed
  <2>1. step' = Asking(step, "resume") BY <1>4 DEF StartStep
  <2>2. step'.pc = "unvouched" /\ step'.then = <<"resume">> BY <1>1, <2>1, AskingIs
  <2>3. Asks(step') BY <2>2 DEF Asks
  <2> QED BY <1>1, <1>2, <1>4, <2>2, <2>3 DEF NumberInv, SameJob
<1> QED BY <1>3, <1>4

\* The first number of a tenure is above every one in the bucket.
LEMMA ResumeNumber == ASSUME Shape, NumberInv, ObjectType(bucket), Resume PROVE NumberInv'
<1>1. /\ Fields(step, StepFields) /\ step.pc = "resume" /\ bucket' = bucket BY StepBefore DEF Resume, outside
<1>2. ~job.resumed /\ job.gen = NoGen BY <1>1 DEF NumberInv, Asks
<1>3. CASE SameJob(job', job) /\ step' = Done
  <2>1. Quiet(step') /\ step'.pc = "idle" BY <1>3, QuietForms, StepRecords DEF Done
  <2> QED BY <1>1, <1>2, <1>3, <2>1 DEF NumberInv, SameJob, Quiet
<1> DEFINE S == {None} \cup {o.num : o \in bucket.snaps} \cup {o.num : o \in bucket.segs}
                       \cup {m.num : m \in bucket.mans}
<1>4. CASE /\ job'.gen = job.gen /\ job'.resumed = TRUE /\ step' = Looking(step, <<"observed">>)
           /\ job'.next = 1 + Max(S)
  <2>1. PICK k \in Nat : Below(bucket, k) BY DEF NumberInv
  <2>2. S \in SUBSET Int /\ None \in S BY DEF ObjectType, None
  <2>3. \A x \in S : x =< k BY <2>1, <2>2 DEF Below, None, ObjectType
  <2> DEFINE M == Max(S)
  <2>40. /\ \A o \in bucket.snaps : o.num \in S
         /\ \A o \in bucket.segs : o.num \in S
         /\ \A m \in bucket.mans : m.num \in S
    OBVIOUS
  <2> HIDE DEF S
  <2>41. Max(S) \in S /\ \A x \in S : x =< Max(S) BY <2>2, <2>3, Largest
  <2>4. M \in S /\ \A x \in S : x =< M BY <2>41
  <2>50. job'.next = 1 + M BY <1>4
  <2> HIDE DEF M
  <2>5. M \in Int /\ M >= -1 BY <2>2, <2>4 DEF None
  <2>6. job'.next \in Nat /\ \A x \in S : x < job'.next BY <2>50, <2>2, <2>4, <2>5
  <2>7. Below(bucket, job'.next) BY <2>6, <2>40 DEF Below
  <2>8. job'.gen.num < job'.next
    <3>1. NoGen.num = None BY DEF NoGen
    <3> QED BY <1>2, <1>4, <2>2, <2>6, <3>1
  <2>9. <<"observed">> \in LookThens BY DEF LookThens
  <2>10. Quiet(step') BY <1>1, <1>4, <2>9, QuietForms
  <2> HIDE DEF S
  <2> QED BY <1>1, <1>4, <2>6, <2>7, <2>8, <2>10 DEF NumberInv, Quiet
<1> QED BY <1>3, <1>4, ResumeJob

\* A base is allocated its number, and put.
LEMMA BaseNumber == ASSUME Shape, Still(step), NumberInv, job.gen.num \in Int, ObjectType(bucket), BaseRead PROVE NumberInv'
<1>1. /\ Fields(step, StepFields) /\ step.pc = "baseRead" /\ bucket' = bucket BY StepBefore DEF BaseRead, outside
<1>2. job.resumed /\ step.then # <<"resume">> BY <1>1, IsResumed
<1>3. Below(bucket, job.next) /\ job.gen.num < job.next /\ job.next \in Nat BY <1>2 DEF NumberInv
<1>4. CASE job' = job /\ step' = Done
  <2>1. Quiet(step') BY <1>4, QuietForms DEF Done
  <2>2. SameJob(job', job) /\ Within(bucket', bucket) BY <1>1, <1>4 DEF SameJob, Within
  <2> QED BY <1>2, <2>1, <2>2, NumberQuiet
<1>5. CASE /\ job'.gen = job.gen /\ job'.resumed = job.resumed /\ job'.next = job.next + 1
           /\ step' = To(step, "putSnapshot")
  <2>1. step'.pc = "putSnapshot" /\ step'.then = step.then BY <1>1, <1>5, ToIs
  <2>2. ~Asks(step') BY <1>2, <2>1 DEF Asks
  <2>3. /\ job'.next \in Nat /\ job'.next # 0 /\ job'.next - 1 = job.next BY <1>3, <1>5
  <2>4. Below(bucket', job'.next)
    <3>1. \A x \in Int : x < job.next => x < job.next + 1 BY <1>3
    <3>2. /\ \A o \in bucket.snaps : o.num \in Int
          /\ \A o \in bucket.segs : o.num \in Int
          /\ \A m \in bucket.mans : m.num \in Int
      BY DEF ObjectType
    <3>3. Below(bucket, job.next + 1) BY <1>3, <3>1, <3>2 DEF Below
    <3> QED BY <1>1, <1>5, <3>3
  <2>5. job'.gen.num < job'.next BY <1>3, <1>5
  <2> QED BY <1>1, <1>2, <1>3, <1>5, <2>1, <2>2, <2>3, <2>4, <2>5 DEF NumberInv
<1> QED BY <1>4, <1>5, BaseReadJob

\* The objects put have the number of the generation; the ones deleted are none.
LEMMA NumberPut ==
    ASSUME NumberInv, job.resumed, job'.next = job.next, job'.resumed = job.resumed, job'.gen.num < job.next,
           Below(bucket', job.next), Quiet(step')
    PROVE  NumberInv'
BY DEF NumberInv, Quiet

LEMMA QuietShip == \A x : Quiet(Looking([NoStep EXCEPT !.base = x], <<"unvouched", "ship">>))
<1>1. <<"unvouched", "ship">> \in LookThens BY DEF LookThens
<1>2. \A x : Fields([NoStep EXCEPT !.base = x], StepFields) BY NoStepIs
<1>3. ASSUME NEW x PROVE Quiet(Looking([NoStep EXCEPT !.base = x], <<"unvouched", "ship">>))
  <2> DEFINE b == [NoStep EXCEPT !.base = x]
  <2>1. Fields(b, StepFields) BY <1>2
  <2> HIDE DEF b
  <2>2. Quiet(Looking(b, <<"unvouched", "ship">>)) BY <1>1, <2>1, QuietForms
  <2> QED BY <2>2 DEF b
<1> QED BY <1>3

LEMMA PutSnapshotJob ==
    ASSUME Shape, PutSnapshot
    PROVE  LET num == job.next - 1
               gen == [num |-> num, key |-> Key(step.before), floor |-> step.floor,
                       snap |-> step.snap.id, segs |-> << >>]
               snaps == IF step.snap = NoSnap THEN bucket.snaps
                        ELSE bucket.snaps \cup {[num |-> num, snap |-> step.snap]} IN
           /\ Fields(bucket', BucketFields) /\ bucket'.segs = bucket.segs /\ bucket'.mans = bucket.mans
           /\ bucket'.latest = bucket.latest /\ bucket'.snaps \in {bucket.snaps, snaps}
           /\ job'.next = job.next /\ job'.resumed = job.resumed
           /\ \/ /\ job'.gen = gen /\ bucket'.snaps = snaps
                 /\ step' = Looking([NoStep EXCEPT !.base = TRUE], <<"unvouched", "ship">>)
              \/ job' = job /\ step' = NoStep
<1> DEFINE num == job.next - 1
           gen == [num |-> num, key |-> Key(step.before), floor |-> step.floor,
                   snap |-> step.snap.id, segs |-> << >>]
           snaps == IF step.snap = NoSnap THEN bucket.snaps
                    ELSE bucket.snaps \cup {[num |-> num, snap |-> step.snap]}
           after == [bucket EXCEPT !.snaps = snaps]
<1>1. \/ /\ bucket' = after /\ job' = [job EXCEPT !.dirty = TRUE, !.gen = gen]
         /\ step' = Looking([NoStep EXCEPT !.base = TRUE], <<"unvouched", "ship">>)
      \/ bucket' \in {bucket, after} /\ job' = job /\ step' = NoStep
  BY DEF PutSnapshot, Answered, Fails, Done
<1> HIDE DEF gen, snaps
<1>2. Fields(bucket, BucketFields) /\ Fields(job, JobFields) BY DEF Shape
<1>3. /\ Fields(after, BucketFields) /\ after.snaps = snaps /\ after.segs = bucket.segs /\ after.mans = bucket.mans
      /\ after.latest = bucket.latest
  BY <1>2 DEF Fields, BucketFields
<1> HIDE DEF after
<1>4. ASSUME job' = [job EXCEPT !.dirty = TRUE, !.gen = gen]
      PROVE  job'.gen = gen /\ job'.next = job.next /\ job'.resumed = job.resumed
  BY <1>2, <1>4 DEF Fields, JobFields
<1>5. bucket' = after \/ bucket' = bucket BY <1>1
<1>6. /\ Fields(bucket', BucketFields) /\ bucket'.segs = bucket.segs /\ bucket'.mans = bucket.mans
      /\ bucket'.latest = bucket.latest /\ bucket'.snaps \in {bucket.snaps, snaps}
  BY <1>2, <1>3, <1>5
<1> QED BY <1>1, <1>3, <1>4, <1>6 DEF gen, snaps, num

LEMMA PutSnapshotNumber == ASSUME Shape, Still(step), NumberInv, job.gen.num \in Int, PutSnapshot PROVE NumberInv'
<1>1. Fields(step, StepFields) /\ step.pc = "putSnapshot" BY StepBefore DEF PutSnapshot
<1>2. job.resumed BY <1>1, IsResumed
<1>3. Below(bucket, job.next) /\ job.gen.num < job.next /\ job.next \in Nat BY <1>2 DEF NumberInv
<1> DEFINE num == job.next - 1
           gen == [num |-> num, key |-> Key(step.before), floor |-> step.floor,
                   snap |-> step.snap.id, segs |-> << >>]
           o == [num |-> num, snap |-> step.snap]
<1>4. num < job.next /\ gen.num = num /\ o.num = num BY <1>3
<1>5. /\ bucket'.segs = bucket.segs /\ bucket'.mans = bucket.mans
      /\ bucket'.snaps \subseteq bucket.snaps \cup {o}
      /\ job'.next = job.next /\ job'.resumed = job.resumed
      /\ job'.gen \in {gen, job.gen}
      /\ step' = Looking([NoStep EXCEPT !.base = TRUE], <<"unvouched", "ship">>) \/ step' = NoStep
  BY PutSnapshotJob
<1> HIDE DEF gen, o, num
<1>6. Below(bucket', job.next) BY <1>3, <1>4, <1>5 DEF Below
<1>7. job'.gen.num < job.next BY <1>3, <1>4, <1>5
<1>8. Quiet(step')
  <2> QED BY <1>5, QuietShip, QuietForms
<1> QED BY <1>2, <1>5, <1>6, <1>7, <1>8, NumberPut

LEMMA PutSegmentFacts ==
    ASSUME Shape, PutSegment
    PROVE  LET s == [num |-> job.gen.num, start |-> Cursor, frames |-> step.frames] IN
           /\ Fields(bucket', BucketFields) /\ bucket'.snaps = bucket.snaps /\ bucket'.mans = bucket.mans
           /\ bucket'.latest = bucket.latest /\ bucket'.segs \in {bucket.segs, bucket.segs \cup {s}}
           /\ job'.next = job.next /\ job'.resumed = job.resumed /\ job'.gen.num = job.gen.num
           /\ \/ /\ bucket'.segs = bucket.segs \cup {s} /\ job'.gen.segs = Append(job.gen.segs, s)
                 /\ job'.gen.floor = job.gen.floor /\ job'.gen.snap = job.gen.snap
                 /\ step' = Looking([NoStep EXCEPT !.base = step.base], <<"unvouched", "ship">>)
              \/ job' = job /\ step' = NoStep
<1> DEFINE s == [num |-> job.gen.num, start |-> Cursor, frames |-> step.frames]
           after == [bucket EXCEPT !.segs = bucket.segs \cup {s}]
<1>1. \/ /\ SameJob([job' EXCEPT !.gen = job.gen], job) /\ job' = [job EXCEPT !.gen.segs = Append(@, s), !.dirty = TRUE]
         /\ job'.gen = [job.gen EXCEPT !.segs = Append(@, s)]
         /\ bucket' = after
         /\ step' = Looking([NoStep EXCEPT !.base = step.base], <<"unvouched", "ship">>)
      \/ job' = job /\ step' = NoStep /\ bucket' \in {bucket, after}
  <2>1. \/ /\ job' = [job EXCEPT !.gen.segs = Append(@, s), !.dirty = TRUE] /\ bucket' = after
           /\ step' = Looking([NoStep EXCEPT !.base = step.base], <<"unvouched", "ship">>)
        \/ job' = job /\ step' = NoStep /\ bucket' \in {bucket, after}
    BY DEF PutSegment, Answered, Fails, Done
  <2>2. CASE job' = job /\ step' = NoStep /\ bucket' \in {bucket, after} BY <2>2
  <2>3. CASE step' # NoStep
    <3>1. /\ SameJob([job' EXCEPT !.gen = job.gen], job) /\ job'.gen = [job.gen EXCEPT !.segs = Append(@, s)]
      BY <2>3, PutSegmentJob
    <3> QED BY <2>1, <2>3, <3>1
  <2>4. CASE step' = NoStep /\ ~(job' = job /\ bucket' \in {bucket, after})
    <3>1. step'.pc = "lookSnapshot"
      <4> DEFINE b == [NoStep EXCEPT !.base = step.base]
      <4>1. Fields(b, StepFields) BY NoStepIs
      <4>2. step' = Looking(b, <<"unvouched", "ship">>) BY <2>1, <2>4
      <4> HIDE DEF b
      <4> QED BY <4>1, <4>2, LookingIs
    <3> QED BY <2>4, <3>1, StepRecords
  <2> QED BY <2>2, <2>3, <2>4
<1> HIDE DEF s
<1>2. Fields(bucket, BucketFields) /\ Fields(job, JobFields) /\ Fields(job.gen, GenFields) BY DEF Shape
<1>3. /\ Fields(after, BucketFields) /\ after.segs = bucket.segs \cup {s} /\ after.snaps = bucket.snaps
      /\ after.mans = bucket.mans /\ after.latest = bucket.latest
  BY <1>2 DEF Fields, BucketFields
<1> HIDE DEF after
<1>4. ASSUME job' = [job EXCEPT !.gen.segs = Append(@, s), !.dirty = TRUE]
      PROVE  job'.next = job.next /\ job'.resumed = job.resumed
  BY <1>2, <1>4 DEF Fields, JobFields
<1>5. ASSUME job'.gen = [job.gen EXCEPT !.segs = Append(@, s)]
      PROVE  /\ job'.gen.segs = Append(job.gen.segs, s) /\ job'.gen.num = job.gen.num
             /\ job'.gen.floor = job.gen.floor /\ job'.gen.snap = job.gen.snap
  BY <1>2, <1>5 DEF Fields, GenFields
<1>6. bucket' = after \/ bucket' = bucket BY <1>1
<1>7. /\ Fields(bucket', BucketFields) /\ bucket'.snaps = bucket.snaps /\ bucket'.mans = bucket.mans
      /\ bucket'.latest = bucket.latest /\ bucket'.segs \in {bucket.segs, bucket.segs \cup {s}}
  BY <1>2, <1>3, <1>6
<1> QED BY <1>1, <1>3, <1>4, <1>5, <1>7 DEF s

LEMMA PutSegmentNumber == ASSUME Shape, Still(step), NumberInv, PutSegment PROVE NumberInv'
<1>1. Fields(step, StepFields) /\ step.pc = "putSegment" BY StepBefore DEF PutSegment
<1>2. job.resumed BY <1>1, IsResumed
<1>3. Below(bucket, job.next) /\ job.gen.num < job.next /\ job.next \in Nat BY <1>2 DEF NumberInv
<1> DEFINE s == [num |-> job.gen.num, start |-> Cursor, frames |-> step.frames]
<1>4. s.num = job.gen.num OBVIOUS
<1>5. /\ bucket'.snaps = bucket.snaps /\ bucket'.mans = bucket.mans /\ bucket'.segs \in {bucket.segs, bucket.segs \cup {s}}
      /\ job'.next = job.next /\ job'.resumed = job.resumed /\ job'.gen.num = job.gen.num
      /\ step' = Looking([NoStep EXCEPT !.base = step.base], <<"unvouched", "ship">>) \/ step' = NoStep
  BY PutSegmentFacts
<1> HIDE DEF s
<1>6. Below(bucket', job.next) BY <1>3, <1>4, <1>5 DEF Below
<1>7. Quiet(step')
  <2> QED BY <1>5, QuietShip, QuietForms
<1> QED BY <1>2, <1>3, <1>5, <1>6, <1>7, NumberPut

\* The steps past the first question leave the numbers alone.
Further ==
    \/ CatchUp \/ OpenSnapshot \/ ReadChain \/ ReadSegment
    \/ Due \/ NotDue \/ PutManifest \/ PutLatest \/ Retain \/ DeleteManifest \/ DeleteObjects

LEMMA SetRead ==
    ASSUME NEW s, Fields(s, StepFields), NEW x
    PROVE  /\ Fields([s EXCEPT !.frames = x], StepFields)
           /\ Fields([s EXCEPT !.floor = x], StepFields)
           /\ Fields([s EXCEPT !.snap = x], StepFields) /\ [s EXCEPT !.snap = x].then = s.then
BY DEF Fields, StepFields

LEMMA FurtherQuiet == ASSUME Shape, Still(step), NumberInv, Further PROVE Quiet(step') /\ job.resumed
<1>1. Fields(step, StepFields) BY StepBefore
<1>2. step.pc \in {"catchUp", "openSnapshot", "readChain", "readSegment", "shipped", "putManifest", "putLatest",
                   "retain", "deleteManifests"}
  BY DEF Further, CatchUp, OpenSnapshot, ReadChain, ReadSegment, Due, NotDue, PutManifest, PutLatest, Retain,
         DeleteManifest, DeleteObjects
<1>3. job.resumed /\ step.then # <<"resume">> /\ ~Asks(step) BY <1>2, IsResumed
<1>4. Quiet(NoStep) BY QuietForms
<1>5. \A l : l \notin {"resume", "putSnapshot"} => Quiet(To(step, l)) BY <1>1, <1>3, QuietForms
<1>6. CASE CatchUp
  <2>1. <<"caughtUp">> \in LookThens BY DEF LookThens
  <2>2. step' = Looking(step, <<"caughtUp">>) BY <1>6 DEF CatchUp
  <2> QED BY <1>1, <1>3, <2>1, <2>2, QuietForms
<1>7. CASE OpenSnapshot
  <2> DEFINE r == [step EXCEPT !.snap = snap]
             q == [r EXCEPT !["base"] = TRUE]
  <2>1. Fields(r, StepFields) /\ r.then = step.then BY <1>1, SetRead
  <2>2. step' = To(q, "readChain") BY <1>7 DEF OpenSnapshot
  <2> HIDE DEF r
  <2>3. Fields(q, StepFields) /\ q.pc = r.pc /\ q.then = r.then /\ q.look = r.look /\ q.pos = r.pos /\ SameReads(q, r)
    BY <2>1, SetOther
  <2> HIDE DEF q
  <2> QED BY <1>3, <2>1, <2>2, <2>3, QuietForms
<1>8. CASE ReadChain
  <2> DEFINE r == [step EXCEPT !.floor = floor]
  <2>1. Fields(r, StepFields) BY <1>1, SetRead
  <2>2. step' = Looking(r, <<"unvouched", "baseRead">>) BY <1>8 DEF ReadChain
  <2>3. <<"unvouched", "baseRead">> \in LookThens BY DEF LookThens
  <2> HIDE DEF r
  <2> QED BY <1>3, <2>1, <2>2, <2>3, QuietForms
<1>9. CASE ReadSegment
  <2> DEFINE x == SubSeq(wal.frames, Cursor + 1, Min({Cursor + SegmentMax, step.pos.len, Len(wal.frames)}))
             r == [step EXCEPT !.frames = x]
  <2>2. step' = Looking(r, <<"unvouched", "segmentRead">>) BY <1>9 DEF ReadSegment
  <2> HIDE DEF x
  <2>1. Fields(r, StepFields) BY <1>1, SetRead
  <2>3. <<"unvouched", "segmentRead">> \in LookThens BY DEF LookThens
  <2> HIDE DEF r
  <2> QED BY <1>3, <2>1, <2>2, <2>3, QuietForms
<1>10. CASE Due \/ NotDue \/ PutLatest \/ DeleteObjects
  <2>1. step' = To(step, "putManifest") \/ step' = To(step, "retain") \/ step' = NoStep
    BY <1>10 DEF Due, NotDue, PutLatest, DeleteObjects, Conflict, Fails, Done
  <2> QED BY <1>3, <1>4, <1>5, <2>1
<1>11. CASE PutManifest
  <2>1. step' = NoStep \/ step' = To([step EXCEPT !["n"] = Manifest.n], "putLatest")
    BY <1>11 DEF PutManifest, Conflict, Fails, Done
  <2> DEFINE x == Manifest.n
             q == [step EXCEPT !["n"] = x]
  <2>2. step' = NoStep \/ step' = To(q, "putLatest") BY <2>1
  <2> HIDE DEF x
  <2>3. Fields(q, StepFields) /\ q.pc = step.pc /\ q.then = step.then /\ q.look = step.look /\ q.pos = step.pos /\ SameReads(q, step)
    BY <1>1, SetOther
  <2> HIDE DEF q
  <2> QED BY <1>3, <1>4, <2>2, <2>3, QuietForms
<1>12. CASE Retain
  <2>1. step' = NoStep \/ \E x, y, z : step' = To([step EXCEPT !.kept = x, !.doomed = y, !.owned = z], "deleteManifests")
    BY <1>12 DEF Retain, Done
  <2>2. ASSUME NEW x, NEW y, NEW z, step' = To([step EXCEPT !.kept = x, !.doomed = y, !.owned = z], "deleteManifests")
        PROVE  Quiet(step')
    <3> DEFINE q == [step EXCEPT !.kept = x, !.doomed = y, !.owned = z]
    <3>1. Fields(q, StepFields) /\ q.then = step.then /\ q.look = step.look /\ q.pos = step.pos /\ SameReads(q, step)
      BY <1>1, SetRetained
    <3>2. step' = To(q, "deleteManifests") BY <2>2
    <3> HIDE DEF q
    <3> QED BY <1>3, <3>1, <3>2, QuietForms
  <2> QED BY <1>3, <1>4, <2>1, <2>2
<1>13. CASE DeleteManifest
  <2>1. step' = NoStep \/ \E x : step' = [step EXCEPT !["doomed"] = x] BY <1>13 DEF DeleteManifest, Fails, Done
  <2>2. ASSUME NEW x, step' = [step EXCEPT !["doomed"] = x] PROVE Quiet(step')
    <3> DEFINE q == [step EXCEPT !["doomed"] = x]
    <3>0. Fields(q, StepFields) /\ q.pc = step.pc /\ q.then = step.then /\ q.look = step.look /\ q.pos = step.pos /\ SameReads(q, step)
      BY <1>1, SetOther
    <3>1. step'.pc = step.pc /\ step'.then = step.then BY <2>2, <3>0, Zenon
    <3>2. step.pc = "deleteManifests" BY <1>13 DEF DeleteManifest
    <3> QED BY <1>3, <3>1, <3>2 DEF Quiet, Asks
  <2> QED BY <1>3, <1>4, <2>1, <2>2
<1> QED BY <1>6, <1>7, <1>8, <1>9, <1>10, <1>11, <1>12, <1>13 DEF Further

-----------------------------------------------------------------------------
(* What the requests for a manifest and for LATEST, and retention, do to   *)
(* the bucket.                                                             *)

LEMMA PutManifestBucket ==
    ASSUME Shape, PutManifest
    PROVE  /\ bucket'.snaps = bucket.snaps /\ bucket'.segs = bucket.segs /\ bucket'.latest = bucket.latest
           /\ \/ bucket' = bucket
              \/ SameJob(job', job) /\ bucket'.mans = {o \in bucket.mans : o.n # Manifest.n} \cup {Manifest}
<1> DEFINE S == {o \in bucket.mans : o.n # Manifest.n} \cup {Manifest}
           after == [bucket EXCEPT !.mans = S]
<1>1. (bucket' = bucket) \/ (bucket' = after /\ ~Conflict) \/ (bucket' = after /\ bucket' = bucket)
  BY DEF PutManifest, Answered, Fails, Conflict
<1>2. Fields(bucket, BucketFields) BY DEF Shape
<1> HIDE DEF S
<1>3. after.snaps = bucket.snaps /\ after.segs = bucket.segs /\ after.mans = S /\ after.latest = bucket.latest
  BY <1>2 DEF Fields, BucketFields
<1> HIDE DEF after
<1>4. CASE bucket' = bucket BY <1>4
<1>5. CASE bucket' = after /\ ~Conflict
  <2>1. SameJob(job', job) BY <1>5, ManifestJob
  <2> QED BY <1>3, <1>5, <2>1 DEF S
<1> QED BY <1>1, <1>4, <1>5

LEMMA PutLatestBucket ==
    ASSUME Shape, PutLatest
    PROVE  /\ bucket'.snaps = bucket.snaps /\ bucket'.segs = bucket.segs /\ bucket'.mans = bucket.mans
           /\ bucket'.latest \in {bucket.latest, step.n}
<1> DEFINE after == [bucket EXCEPT !.latest = step.n]
<1>1. bucket' \in {bucket, after} BY DEF PutLatest, Answered, Fails, Conflict
<1>2. Fields(bucket, BucketFields) BY DEF Shape
<1>3. after.snaps = bucket.snaps /\ after.segs = bucket.segs /\ after.mans = bucket.mans /\ after.latest = step.n
  BY <1>2 DEF Fields, BucketFields
<1> HIDE DEF after
<1> QED BY <1>1, <1>3

LEMMA DeleteBucket ==
    ASSUME Shape, DeleteManifest \/ DeleteObjects
    PROVE  /\ job' = job /\ Within(bucket', bucket) /\ bucket'.latest = bucket.latest
           /\ DeleteObjects => bucket'.mans = bucket.mans
           /\ DeleteManifest => bucket'.mans = bucket.mans \/ \E m \in step.doomed : bucket'.mans = bucket.mans \ {m}
<1>1. Fields(bucket, BucketFields) BY DEF Shape
<1>2. CASE DeleteManifest
  <2>1. PICK m \in step.doomed : bucket' \in {bucket, [bucket EXCEPT !.mans = bucket.mans \ {m}]}
    BY <1>2 DEF DeleteManifest, Answered, Fails
  <2> DEFINE after == [bucket EXCEPT !.mans = bucket.mans \ {m}]
  <2>2. /\ after.snaps = bucket.snaps /\ after.segs = bucket.segs /\ after.mans = bucket.mans \ {m}
        /\ after.latest = bucket.latest
    BY <1>1 DEF Fields, BucketFields
  <2>3. bucket' = bucket \/ bucket' = after BY <2>1
  <2> HIDE DEF after
  <2>4. job' = job /\ step.doomed # {} BY <1>2 DEF DeleteManifest
  <2>5. ~DeleteObjects BY <2>4 DEF DeleteObjects
  <2> QED BY <2>2, <2>3, <2>4, <2>5 DEF Within
<1>3. CASE DeleteObjects
  <2>1. \E gone : bucket' = [bucket EXCEPT !.snaps = bucket.snaps \ gone, !.segs = bucket.segs \ gone]
    BY <1>3 DEF DeleteObjects
  <2>2. PICK gone : bucket' = [bucket EXCEPT !.snaps = bucket.snaps \ gone, !.segs = bucket.segs \ gone] BY <2>1
  <2> DEFINE after == [bucket EXCEPT !.snaps = bucket.snaps \ gone, !.segs = bucket.segs \ gone]
  <2>3. /\ after.snaps = bucket.snaps \ gone /\ after.segs = bucket.segs \ gone /\ after.mans = bucket.mans
        /\ after.latest = bucket.latest
    BY <1>1 DEF Fields, BucketFields
  <2>4. bucket' = after BY <2>2
  <2> HIDE DEF after
  <2>5. job' = job /\ step.doomed = {} BY <1>3 DEF DeleteObjects
  <2>6. ~DeleteManifest BY <2>5 DEF DeleteManifest
  <2> QED BY <2>3, <2>4, <2>5, <2>6 DEF Within
<1> QED BY <1>2, <1>3

LEMMA FurtherNumber == ASSUME Shape, Still(step), NumberInv, Further PROVE NumberInv'
<1>1. Quiet(step') /\ job.resumed BY FurtherQuiet
<1>2. Below(bucket, job.next) /\ job.gen.num < job.next /\ job.next \in Nat BY <1>1 DEF NumberInv
<1>3. CASE CatchUp \/ OpenSnapshot \/ ReadChain \/ ReadSegment \/ Due \/ NotDue \/ Retain
  <2>1. job' = job /\ bucket' = bucket
    BY <1>3 DEF CatchUp, OpenSnapshot, ReadChain, ReadSegment, Due, NotDue, Retain, outside
  <2>2. SameJob(job', job) /\ Within(bucket', bucket) BY <2>1 DEF SameJob, Within
  <2> QED BY <1>1, <2>2, NumberQuiet
<1>4. CASE DeleteManifest \/ DeleteObjects
  <2>1. SameJob(job', job) /\ Within(bucket', bucket) BY <1>4, DeleteBucket DEF SameJob
  <2> QED BY <1>1, <2>1, NumberQuiet
<1>5. CASE Conflict /\ (PutManifest \/ PutLatest)
  <2>1. job' = NoJob /\ step' = NoStep /\ bucket' = bucket BY <1>5 DEF Conflict, Done
  <2> QED BY <2>1, NumberForget
<1>6. CASE PutManifest /\ ~Conflict
  <2>1. SameJob(job', job) BY <1>6, ManifestJob
  <2>2. /\ bucket'.snaps = bucket.snaps /\ bucket'.segs = bucket.segs
        /\ bucket'.mans \subseteq bucket.mans \cup {Manifest}
    BY <1>6, PutManifestBucket
  <2>3. Manifest.num = job.gen.num BY DEF Manifest
  <2>4. Below(bucket', job.next) BY <1>2, <2>2, <2>3 DEF Below
  <2> QED BY <1>1, <1>2, <2>1, <2>4, NumberPut DEF SameJob
<1>7. CASE PutLatest /\ ~Conflict
  <2>1. SameJob(job', job) BY <1>7, ManifestJob
  <2>2. Within(bucket', bucket) BY <1>7, PutLatestBucket DEF Within
  <2> QED BY <1>1, <2>1, <2>2, NumberQuiet
<1> QED BY <1>3, <1>4, <1>5, <1>6, <1>7 DEF Further

LEMMA WorkingNumber ==
    ASSUME Shape, Still(step), NumberInv, job.gen.num \in Int, ObjectType(bucket), Working PROVE NumberInv'
BY AskNumber, LookNumber, StartNumber, ResumeNumber, BaseNumber, PutSnapshotNumber, PutSegmentNumber, FurtherNumber
   DEF Working, Further

\* The others.
LEMMA OtherNumber ==
    ASSUME Shape, NumberInv, bucket' = bucket,
           UNCHANGED worker \/ Down \/ Boot
    PROVE  NumberInv'
<1>1. CASE UNCHANGED worker BY <1>1 DEF NumberInv, worker
<1>2. CASE Down BY <1>2, NumberForget DEF Down
<1>3. CASE Boot
  <2>1. job' = job /\ step' = NoStep /\ step.pc = "down" BY <1>3 DEF Boot, Up
  <2>2. Quiet(step') /\ step'.pc = "idle" BY <2>1, QuietForms, StepRecords
  <2> QED BY <2>1, <2>2 DEF NumberInv, Quiet
<1> QED BY <1>1, <1>2, <1>3

-----------------------------------------------------------------------------
(* The bucket and the durable history.                                     *)

\* The manifest m is what its number says; the objects of it are history.
Pointed(m, b, d) == Holds(m, b, d) /\ m.n = m.floor + Len(Shipped(m.segs))
Apart(S) == \A m, o \in S : m.n = o.n => m = o

\* The bucket b, the generation g the worker extends, and the durable history d.
Backed(b, g, d) ==
    /\ ObjectType(b)
    /\ \A m \in b.mans : Pointed(m, b, d)
    /\ Apart(b.mans)
    /\ Holds(g, b, d) /\ Holds(NoGen, b, d)

\* Everything a manifest, or the generation, names is in the bucket.
AllWhole(b, g) == Whole(g, b) /\ \A m \in b.mans : Whole(m, b)

LEMMA WholePieces == ASSUME NEW g, NEW b, Whole(g, b), ObjectType(b) PROVE Pieces(g.segs) /\ Shipped(g.segs) \in Seq(Nat)
<1>1. g.segs \in Seq(b.segs) /\ \A o \in b.segs : o.frames \in Seq(Nat) BY DEF Whole, ObjectType
<1>2. Pieces(g.segs) BY <1>1, PiecesIn
<1> QED BY <1>2, ShippedType

LEMMA NoGenIs == /\ NoGen.num = -1 /\ NoGen.floor = 0 /\ NoGen.snap = 0 /\ NoGen.segs = << >>
                 /\ \A b : Whole(NoGen, b)
<1>1. NoGen.num = -1 /\ NoGen.floor = 0 /\ NoGen.snap = 0 /\ NoGen.segs = << >> BY DEF NoGen, None
<1>2. \A b : << >> \in Seq(b.segs) OBVIOUS
<1> QED BY <1>1, <1>2 DEF Whole

LEMMA HoldsMore ==
    ASSUME NEW g, NEW b, NEW c, NEW d, Holds(g, b, d),
           \A o \in c.snaps : o.num = g.num => o \in b.snaps,
           \A o \in c.segs : o.num = g.num => o \in b.segs
    PROVE  Holds(g, c, d)
BY DEF Holds

LEMMA HoldsGrows ==
    ASSUME NEW g, NEW b, NEW d \in Seq(Nat), NEW e \in Seq(Nat), Holds(g, b, d), ObjectType(b), Whole(g, b), Begins(d, e)
    PROVE  Holds(g, b, e)
<1>1. g.floor \in Nat /\ (g.snap = 0 => g.floor = 0) BY DEF Holds
<1>2. ASSUME NEW o \in b.snaps, o.num = g.num PROVE Len(o.snap.state) = g.floor /\ Begins(o.snap.state, e)
  <2>1. o.snap.state \in Seq(Nat) /\ Len(o.snap.state) = g.floor /\ Begins(o.snap.state, d) BY <1>2 DEF Holds, ObjectType
  <2> QED BY <2>1, BeginsGrows
<1>3. ASSUME NEW o \in b.segs, o.num = g.num PROVE At(o.frames, g.floor + o.start, e)
  <2>1. o.frames \in Seq(Nat) /\ o.start \in Nat /\ At(o.frames, g.floor + o.start, d) BY <1>3 DEF Holds, ObjectType
  <2>2. g.floor + o.start \in Nat BY <1>1, <2>1
  <2> QED BY <2>1, <2>2, AtGrows
<1>4. At(Shipped(g.segs), g.floor, e)
  <2>1. Shipped(g.segs) \in Seq(Nat) /\ At(Shipped(g.segs), g.floor, d) BY WholePieces DEF Holds
  <2> QED BY <1>1, <2>1, AtGrows
<1> QED BY <1>1, <1>2, <1>3, <1>4 DEF Holds

\* More of the history is durable.
LEMMA BackedGrows ==
    ASSUME NEW b, NEW g, NEW d \in Seq(Nat), NEW e \in Seq(Nat), Backed(b, g, d), AllWhole(b, g), Begins(d, e)
    PROVE  Backed(b, g, e)
<1>1. ObjectType(b) /\ Apart(b.mans) BY DEF Backed
<1>2. Holds(g, b, e) BY <1>1, HoldsGrows DEF Backed, AllWhole
<1>3. Holds(NoGen, b, e) BY <1>1, NoGenIs, HoldsGrows DEF Backed
<1>4. ASSUME NEW m \in b.mans PROVE Pointed(m, b, e)
  <2>1. Holds(m, b, d) /\ Whole(m, b) /\ m.n = m.floor + Len(Shipped(m.segs)) BY DEF Backed, AllWhole, Pointed
  <2>2. Holds(m, b, e) BY <1>1, <2>1, HoldsGrows
  <2> QED BY <2>1, <2>2 DEF Pointed
<1> QED BY <1>1, <1>2, <1>3, <1>4 DEF Backed

\* Objects are deleted, or none are.
LEMMA BackedWithin ==
    ASSUME NEW b, NEW c, NEW g, NEW d, Backed(b, g, d), Within(c, b) PROVE Backed(c, g, d)
<1>1. ObjectType(c)
  <2>1. IsFiniteSet(c.segs) BY FS_Subset DEF Backed, ObjectType, Within
  <2> QED BY <2>1 DEF Backed, ObjectType, Within
<1>2. ASSUME NEW h, Holds(h, b, d) PROVE Holds(h, c, d)
  <2>1. /\ \A o \in c.snaps : o.num = h.num => o \in b.snaps
        /\ \A o \in c.segs : o.num = h.num => o \in b.segs
    BY DEF Within
  <2> QED BY <1>2, <2>1, HoldsMore
<1>3. \A m \in c.mans : Pointed(m, c, d) BY <1>2 DEF Backed, Within, Pointed
<1>4. Apart(c.mans) BY DEF Backed, Within, Apart
<1> QED BY <1>1, <1>2, <1>3, <1>4 DEF Backed

LEMMA BackedForget == ASSUME NEW b, NEW g, NEW d, Backed(b, g, d) PROVE Backed(b, NoGen, d)
BY DEF Backed

LEMMA BackedGen ==
    ASSUME NEW b, NEW g, NEW h, NEW d, Backed(b, g, d), Holds(h, b, d) PROVE Backed(b, h, d)
BY DEF Backed

\* A snapshot is put under a number of its own.
LEMMA BackedSnapshot ==
    ASSUME NEW b, NEW c, NEW g, NEW d, Backed(b, g, d), NEW o, o.num \in Nat, o.snap.state \in Seq(Nat),
           Below(b, o.num), g.num \in Int, g.num < o.num,
           c.segs = b.segs, c.mans = b.mans, c.snaps \subseteq b.snaps \cup {o}
    PROVE  Backed(c, g, d)
<1>1. ObjectType(c) BY DEF Backed, ObjectType
<1>2. ASSUME NEW h, Holds(h, b, d), h.num \in Int, h.num < o.num PROVE Holds(h, c, d)
  <2>1. \A x \in c.snaps : x.num = h.num => x \in b.snaps BY <1>2
  <2>2. \A x \in c.segs : x.num = h.num => x \in b.segs OBVIOUS
  <2> QED BY <1>2, <2>1, <2>2, HoldsMore
<1>3. ASSUME NEW m \in c.mans PROVE Pointed(m, c, d)
  <2>1. m \in b.mans /\ Pointed(m, b, d) BY DEF Backed
  <2>2. m.num \in Int /\ m.num < o.num BY <2>1 DEF Below, Backed, ObjectType
  <2> QED BY <1>2, <2>1, <2>2 DEF Pointed
<1>4. Holds(NoGen, c, d)
  <2>1. NoGen.num \in Int /\ NoGen.num < o.num BY NoGenIs
  <2> QED BY <1>2, <2>1 DEF Backed
<1>5. Holds(g, c, d) BY <1>2 DEF Backed
<1> QED BY <1>1, <1>3, <1>4, <1>5 DEF Backed

\* And begins a generation.
LEMMA NewHolds ==
    ASSUME NEW b, NEW c, NEW h, NEW d \in Seq(Nat), NEW q \in [id : Nat, state : Seq(Nat)],
           Below(b, h.num), ObjectType(b), h.num \in Nat,
           h.floor = Len(q.state), h.snap = q.id, h.segs = << >>, q.id = 0 => q = NoSnap, Begins(q.state, d),
           c.segs = b.segs, \A o \in c.snaps : o \in b.snaps \/ o.snap = q
    PROVE  Holds(h, c, d)
<1>1. q.state \in Seq(Nat) /\ Len(q.state) \in Nat OBVIOUS
<1>2. h.snap = 0 => h.floor = 0
  <2>1. Len(NoSnap.state) = 0 BY DEF NoSnap
  <2> QED BY <2>1
<1>3. ASSUME NEW o \in c.snaps, o.num = h.num PROVE Len(o.snap.state) = h.floor /\ Begins(o.snap.state, d)
  <2>1. o \notin b.snaps
    <3> SUFFICES ASSUME o \in b.snaps PROVE FALSE OBVIOUS
    <3>1. o.num < h.num BY DEF Below
    <3> QED BY <1>3, <3>1
  <2>2. o.snap = q BY <2>1
  <2> QED BY <2>2
<1>4. ASSUME NEW o \in c.segs, o.num = h.num PROVE FALSE
  <2>1. o.num < h.num BY DEF Below
  <2> QED BY <1>4, <2>1
<1>5. At(Shipped(h.segs), h.floor, d)
  <2>1. Shipped(h.segs) = << >> BY ShippedNone
  <2>2. << >> \in Seq(Nat) /\ Len(<< >>) = 0 OBVIOUS
  <2>3. h.floor + 0 =< Len(d) BY <1>1 DEF Begins
  <2>4. At(<< >>, h.floor, d) BY <2>2, <2>3 DEF At
  <2> QED BY <2>1, <2>4
<1> QED BY <1>1, <1>2, <1>3, <1>4, <1>5 DEF Holds

\* Two that have one number have one floor.
LEMMA SameFloor ==
    ASSUME NEW b, NEW g, NEW h, NEW d, Holds(g, b, d), Holds(h, b, d), Whole(g, b), Whole(h, b), g.num = h.num
    PROVE  g.floor = h.floor
<1>1. CASE \E o \in b.snaps : o.num = g.num BY <1>1 DEF Holds
<1>2. CASE ~\E o \in b.snaps : o.num = g.num
  <2>1. g.snap = 0 /\ h.snap = 0 BY <1>2 DEF Whole
  <2> QED BY <2>1 DEF Holds
<1> QED BY <1>1, <1>2

\* A segment is put.
LEMMA BackedSegment ==
    ASSUME NEW b, NEW c, NEW g, NEW d, Backed(b, g, d), AllWhole(b, g), NEW s, s.num = g.num, g.num \in Int,
           s.start \in Nat, s.frames \in Seq(Nat), At(s.frames, g.floor + s.start, d),
           c.snaps = b.snaps, c.mans = b.mans, c.segs = b.segs \cup {s}
    PROVE  Backed(c, g, d)
<1>1. ObjectType(c)
  <2>0. IsFiniteSet(b.segs) BY DEF Backed, ObjectType
  <2>2. IsFiniteSet(b.segs \cup {s}) BY <2>0, FS_AddElement
  <2>1. IsFiniteSet(c.segs) BY <2>2
  <2> QED BY <2>1 DEF Backed, ObjectType
<1>2. ASSUME NEW h, Holds(h, b, d), Whole(h, b) PROVE Holds(h, c, d)
  <2>1. ASSUME NEW o \in c.segs, o.num = h.num PROVE At(o.frames, h.floor + o.start, d)
    <3>1. CASE o \in b.segs BY <1>2, <2>1, <3>1 DEF Holds
    <3>2. CASE o = s
      <4>1. h.num = g.num BY <2>1, <3>2
      <4>2. h.floor = g.floor BY <1>2, <4>1, SameFloor DEF Backed, AllWhole
      <4> QED BY <3>2, <4>2
    <3> QED BY <3>1, <3>2
  <2> QED BY <1>2, <2>1 DEF Holds
<1>3. ASSUME NEW m \in c.mans PROVE Pointed(m, c, d)
  <2>1. m \in b.mans /\ Pointed(m, b, d) /\ Whole(m, b) BY DEF Backed, AllWhole
  <2> QED BY <1>2, <2>1 DEF Pointed
<1>4. Holds(NoGen, c, d) /\ Holds(g, c, d) BY <1>2, NoGenIs DEF Backed, AllWhole
<1> QED BY <1>1, <1>3, <1>4 DEF Backed

LEMMA ExtendedHolds ==
    ASSUME NEW b, NEW g, NEW h, NEW d \in Seq(Nat), Holds(g, b, d), Whole(g, b), ObjectType(b), NEW s, s.frames \in Seq(Nat),
           At(s.frames, g.floor + Len(Shipped(g.segs)), d),
           h.num = g.num, h.floor = g.floor, h.snap = g.snap, h.segs = Append(g.segs, s)
    PROVE  Holds(h, b, d)
<1>1. Pieces(g.segs) /\ Shipped(g.segs) \in Seq(Nat) BY WholePieces
<1>2. g.segs \in Seq(b.segs) BY DEF Whole
<1>3. Shipped(h.segs) = Shipped(g.segs) \o s.frames BY <1>1, <1>2, ShippedAppend
<1>4. g.floor \in Nat /\ At(Shipped(g.segs), g.floor, d) BY DEF Holds
<1>5. At(Shipped(g.segs) \o s.frames, g.floor, d) BY <1>1, <1>4, JoinAt
<1> QED BY <1>3, <1>5 DEF Holds

\* A manifest is put in the place of one with its number.
LEMMA BackedManifest ==
    ASSUME NEW b, NEW c, NEW g, NEW d, Backed(b, g, d), NEW m, g.num \in Int,
           m.num = g.num, m.floor = g.floor, m.snap = g.snap, m.segs = g.segs,
           m.n = m.floor + Len(Shipped(m.segs)),
           c.snaps = b.snaps, c.segs = b.segs, c.mans = {o \in b.mans : o.n # m.n} \cup {m}
    PROVE  Backed(c, g, d)
<1>1. ObjectType(c) BY DEF Backed, ObjectType
<1>2. ASSUME NEW h, Holds(h, b, d) PROVE Holds(h, c, d) BY <1>2, HoldsMore
<1>3. Holds(g, c, d) /\ Holds(NoGen, c, d) BY <1>2 DEF Backed
<1>4. Holds(m, c, d) BY <1>3 DEF Holds
<1>5. ASSUME NEW o \in c.mans PROVE Pointed(o, c, d)
  <2>1. CASE o = m BY <1>4, <2>1 DEF Pointed
  <2>2. CASE o \in b.mans
    <3>1. Pointed(o, b, d) BY <2>2 DEF Backed
    <3> QED BY <1>2, <3>1 DEF Pointed
  <2> QED BY <2>1, <2>2
<1>6. Apart(c.mans) BY DEF Backed, Apart
<1> QED BY <1>1, <1>3, <1>5, <1>6 DEF Backed

BackInv  == Backed(bucket, job.gen, Durable)
BackNext == Backed(bucket', job'.gen, Durable)

LEMMA PointWhole == ASSUME PointInv PROVE AllWhole(bucket, job.gen)
BY DEF PointInv, AllWhole

\* Nothing is put, and the worker has its generation, or has forgotten it.
LEMMA BackSame ==
    ASSUME BackInv, Within(bucket', bucket), job'.gen = job.gen \/ job' = NoJob PROVE BackNext
<1>1. Backed(bucket', job.gen, Durable) BY BackedWithin DEF BackInv
<1>2. Backed(bucket', NoGen, Durable) BY <1>1, BackedForget
<1>3. NoJob.gen = NoGen BY StepRecords
<1> QED BY <1>1, <1>2, <1>3 DEF BackNext

LEMMA PutSnapshotBack ==
    ASSUME Shape, StoreParts, StoreInv, WorkInv, NumberInv, BackInv, PutSnapshot PROVE BackNext
<1>1. step.pc = "putSnapshot" BY DEF PutSnapshot
<1>2. /\ job.next \in Nat /\ job.next # 0 /\ Below(bucket, job.next - 1) /\ job.gen.num < job.next - 1
  BY <1>1 DEF NumberInv
<1>3. /\ View.durable = Durable /\ Durable \in Seq(Nat) BY ViewIs, StoreIs
<1>4. /\ step.snap \in [id : Nat, state : Seq(Nat)] /\ Begins(step.snap.state, Durable)
      /\ step.snap.id = 0 => step.snap = NoSnap
  BY <1>3 DEF WorkInv, Work, ReadOf
<1>5. step.floor = Len(step.snap.state) BY <1>1 DEF WorkInv, Work, BaseOf
<1>6. job.gen.num \in Int BY DEF WorkInv, Keyed
<1> DEFINE num == job.next - 1
           gen == [num |-> num, key |-> Key(step.before), floor |-> step.floor,
                   snap |-> step.snap.id, segs |-> << >>]
           o == [num |-> num, snap |-> step.snap]
<1>7. num \in Nat /\ Below(bucket, num) /\ job.gen.num < num BY <1>2
<1>8. gen.num = num /\ gen.floor = step.floor /\ gen.snap = step.snap.id /\ gen.segs = << >> /\ o.num = num /\ o.snap = step.snap
  OBVIOUS
<1>9. /\ bucket'.segs = bucket.segs /\ bucket'.mans = bucket.mans
      /\ bucket'.snaps \subseteq bucket.snaps \cup {o} /\ (job'.gen = gen \/ job'.gen = job.gen)
  BY PutSnapshotJob
<1> HIDE DEF gen, o, num
<1>10. o.snap.state \in Seq(Nat) BY <1>4, <1>8
<1>11. Backed(bucket', job.gen, Durable) BY <1>6, <1>7, <1>8, <1>9, <1>10, BackedSnapshot DEF BackInv
<1>12. Holds(gen, bucket', Durable)
  <2>1. \A x \in bucket'.snaps : x \in bucket.snaps \/ x.snap = step.snap BY <1>8, <1>9
  <2>2. ObjectType(bucket) BY DEF BackInv, Backed
  <2>3. Below(bucket, gen.num) /\ gen.num \in Nat /\ gen.floor = Len(step.snap.state) BY <1>5, <1>7, <1>8
  <2> QED BY <1>3, <1>4, <1>8, <1>9, <2>1, <2>2, <2>3, NewHolds
<1>13. Backed(bucket', gen, Durable) BY <1>11, <1>12, BackedGen
<1> QED BY <1>9, <1>11, <1>13 DEF BackNext

LEMMA PutSegmentBack ==
    ASSUME Shape, PointInv, StoreParts, StoreInv, WorkInv, BackInv, PutSegment PROVE BackNext
<1>1. step.pc = "putSegment" BY DEF PutSegment
<1> DEFINE g == job.gen
           s == [num |-> job.gen.num, start |-> Cursor, frames |-> step.frames]
<1>2. /\ View.durable = Durable /\ Durable \in Seq(Nat) BY ViewIs, StoreIs
<1>3. step.frames \in Seq(Nat) BY DEF WorkInv, Work, ReadOf
<1>4. At(step.frames, g.floor + Len(Shipped(g.segs)), Durable)
  BY <1>1, <1>2 DEF WorkInv, Work, SegmentOf, Segment
<1>5. g.num \in Int BY DEF WorkInv, Keyed
<1>6. AllWhole(bucket, g) /\ Whole(g, bucket) BY PointWhole DEF AllWhole
<1>7. ObjectType(bucket) /\ Holds(g, bucket, Durable) BY DEF BackInv, Backed
<1>8. Shipped(g.segs) \in Seq(Nat) BY <1>6, <1>7, WholePieces
<1>9. Cursor \in Nat /\ Cursor = Len(Shipped(g.segs)) BY <1>8 DEF Cursor
<1>10. s.num = g.num /\ s.start = Cursor /\ s.frames = step.frames OBVIOUS
<1>11. /\ bucket'.snaps = bucket.snaps /\ bucket'.mans = bucket.mans
       /\ bucket'.segs = bucket.segs \/ bucket'.segs = bucket.segs \cup {s}
       /\ \/ /\ bucket'.segs = bucket.segs \cup {s} /\ job'.gen.segs = Append(job.gen.segs, s)
             /\ job'.gen.floor = job.gen.floor /\ job'.gen.snap = job.gen.snap
          \/ job' = job
       /\ job'.gen.num = job.gen.num
  BY PutSegmentFacts
<1> HIDE DEF s
<1>12. /\ s.start \in Nat /\ s.frames \in Seq(Nat) /\ At(s.frames, g.floor + s.start, Durable)
  BY <1>3, <1>4, <1>9, <1>10
<1>13. CASE bucket'.segs = bucket.segs
  <2>1. Within(bucket', bucket) BY <1>11, <1>13 DEF Within
  <2>2. Backed(bucket', g, Durable) BY <2>1, BackedWithin DEF BackInv
  <2>3. CASE job' = job BY <2>2, <2>3 DEF BackNext
  <2>4. CASE job' # job
    <3>1. Backed(bucket, job'.gen, Durable)
      <4>1. Holds(job'.gen, bucket, Durable)
        BY <1>2, <1>4, <1>6, <1>7, <1>10, <1>11, <1>12, <2>4, ExtendedHolds
      <4> QED BY <4>1, BackedGen DEF BackInv
    <3> QED BY <2>1, <3>1, BackedWithin DEF BackNext
  <2> QED BY <2>3, <2>4
<1>14. CASE bucket'.segs = bucket.segs \cup {s}
  <2>1. Backed(bucket', g, Durable) BY <1>5, <1>6, <1>10, <1>11, <1>12, <1>14, BackedSegment DEF BackInv
  <2>2. CASE job' = job BY <2>1, <2>2 DEF BackNext
  <2>3. CASE job' # job
    <3>1. Whole(g, bucket')
      <4>1. bucket.segs \subseteq bucket'.segs /\ bucket.snaps \subseteq bucket'.snaps BY <1>11, <1>14
      <4> QED BY <1>6, <4>1, WholeGrows
    <3>2. Holds(g, bucket', Durable) /\ ObjectType(bucket') BY <2>1 DEF Backed
    <3>3. Holds(job'.gen, bucket', Durable)
      BY <1>2, <1>4, <1>10, <1>11, <1>12, <2>3, <3>1, <3>2, ExtendedHolds
    <3> QED BY <2>1, <3>3, BackedGen DEF BackNext
  <2> QED BY <2>2, <2>3
<1> QED BY <1>11, <1>13, <1>14

LEMMA PutManifestBack ==
    ASSUME Shape, WorkInv, BackInv, PutManifest PROVE BackNext
<1>1. /\ bucket'.snaps = bucket.snaps /\ bucket'.segs = bucket.segs
      /\ \/ bucket' = bucket
         \/ SameJob(job', job) /\ bucket'.mans = {o \in bucket.mans : o.n # Manifest.n} \cup {Manifest}
  BY PutManifestBucket
<1>2. CASE bucket' = bucket
  <2>1. job'.gen = job.gen \/ job' = NoJob BY ManifestJob DEF SameJob, Conflict
  <2>2. Within(bucket', bucket) BY <1>2 DEF Within
  <2> QED BY <2>1, <2>2, BackSame
<1>3. CASE SameJob(job', job) /\ bucket'.mans = {o \in bucket.mans : o.n # Manifest.n} \cup {Manifest}
  <2> DEFINE m == Manifest
  <2>1. /\ m.num = job.gen.num /\ m.floor = job.gen.floor /\ m.snap = job.gen.snap /\ m.segs = job.gen.segs
        /\ m.n = m.floor + Len(Shipped(m.segs))
    BY DEF Manifest, Cursor
  <2>2. bucket'.mans = {o \in bucket.mans : o.n # m.n} \cup {m} BY <1>3
  <2> HIDE DEF m
  <2>3. job.gen.num \in Int BY DEF WorkInv, Keyed
  <2>4. Backed(bucket', job.gen, Durable) BY <1>1, <2>1, <2>2, <2>3, BackedManifest DEF BackInv
  <2> QED BY <1>3, <2>4 DEF BackNext, SameJob
<1> QED BY <1>1, <1>2, <1>3

\* A step of the worker, against the history as it is before it.
LEMMA WorkingBack ==
    ASSUME IInv, StoreParts, StoreInv, WorkInv, NumberInv, BackInv, Working PROVE BackNext
<1>1. Shape /\ PointInv BY DEF IInv
<1>2. CASE PutSnapshot BY <1>1, <1>2, PutSnapshotBack
<1>3. CASE PutSegment BY <1>1, <1>3, PutSegmentBack
<1>4. CASE PutManifest BY <1>1, <1>4, PutManifestBack
<1>5. CASE PutLatest
  <2>1. job'.gen = job.gen \/ job' = NoJob BY <1>1, <1>5, ManifestJob DEF SameJob, Conflict
  <2>2. Within(bucket', bucket) BY <1>1, <1>5, PutLatestBucket DEF Within
  <2> QED BY <2>1, <2>2, BackSame
<1>6. CASE DeleteManifest \/ DeleteObjects BY <1>1, <1>6, DeleteBucket, BackSame
<1>7. CASE StartStep \/ Resume \/ BaseRead
  <2>1. bucket' = bucket BY <1>7 DEF StartStep, Resume, BaseRead, outside
  <2>2. job'.gen = job.gen BY <1>1, <1>7, StartJob, ResumeJob, BaseReadJob DEF SameJob
  <2>3. Within(bucket', bucket) BY <2>1 DEF Within
  <2> QED BY <2>2, <2>3, BackSame
<1>8. CASE \/ ObserveSnapshot \/ ObserveWal \/ ObserveIntent \/ Unvouched \/ FsyncWal \/ Position
           \/ CatchUp \/ OpenSnapshot \/ ReadChain \/ ReadSegment \/ Due \/ NotDue \/ Retain
  <2>1. bucket' = bucket /\ job' = job
    BY <1>8 DEF ObserveSnapshot, ObserveWal, ObserveIntent, Unvouched, FsyncWal, Position,
                CatchUp, OpenSnapshot, ReadChain, ReadSegment, Due, NotDue, Retain, outside
  <2>2. Within(bucket', bucket) BY <2>1 DEF Within
  <2> QED BY <2>1, <2>2, BackSame
<1> QED BY <1>2, <1>3, <1>4, <1>5, <1>6, <1>7, <1>8 DEF Working

-----------------------------------------------------------------------------
(* The whole.                                                              *)

BInv == IInv /\ StoreInv /\ WorkInv /\ NumberInv /\ BackInv

LEMMA StorePartsOf == IInv => StoreParts
BY DEF IInv, EngineInv, StoreParts

LEMMA ViewNext == ASSUME StoreParts', StoreInv' PROVE Viewed(View')
<1>1. (StoreParts /\ StoreInv => Viewed(View))' BY ViewHolds, PTL
<1> QED BY <1>1

LEMMA DurableSeq == StoreParts /\ StoreInv => Durable \in Seq(Nat)
BY DurableFacts

LEMMA DurableNext == ASSUME StoreParts', StoreInv' PROVE Durable' \in Seq(Nat)
<1>1. (StoreParts /\ StoreInv => Durable \in Seq(Nat))' BY DurableSeq, PTL
<1> QED BY <1>1

LEMMA BackGrows ==
    ASSUME BInv, StoreParts', StoreInv', Begins(Durable, Durable') PROVE Backed(bucket, job.gen, Durable')
<1>1. Durable \in Seq(Nat) BY StorePartsOf, DurableFacts DEF BInv
<1>2. Durable' \in Seq(Nat) BY DurableNext
<1>3. AllWhole(bucket, job.gen) BY PointWhole DEF BInv, IInv
<1> QED BY <1>1, <1>2, <1>3, BackedGrows DEF BInv, BackInv

\* The store moves on, the worker does not.
LEMMA MovesOn ==
    ASSUME BInv, IInv', Kept, Moved, ~PowerLoss, UNCHANGED <<worker, bucket>> PROVE BInv'
<1>1. StoreParts /\ StoreParts' /\ StoreInv /\ StoreInv'
  <2>1. (IInv => StoreParts)' BY StorePartsOf, PTL
  <2> QED BY <2>1, StorePartsOf DEF BInv, Kept
<1>2. Begins(Line, Line') BY DEF Moved
<1>3. Moves(View, View') BY <1>2, ViewMoves
<1>4. Viewed(View) /\ Viewed(View') BY <1>1, ViewIs, ViewNext
<1>5. Work(step, job.gen, View') /\ Keyed(job.gen, View') BY <1>3, <1>4, WorkMoves DEF BInv, WorkInv
<1>6. step' = step /\ job' = job /\ bucket' = bucket BY DEF worker
<1>7. WorkInv' BY <1>5, <1>6 DEF WorkInv
<1>8. NumberInv' BY <1>6, OtherNumber DEF BInv, IInv, worker
<1>9. Begins(Durable, Durable') BY DEF Kept
<1>10. BackInv' BY <1>1, <1>6, <1>9, BackGrows DEF BackInv
<1> QED BY <1>1, <1>7, <1>8, <1>10 DEF BInv

\* The process dies, by itself or with the power.
LEMMA GoesDown ==
    ASSUME BInv, IInv', Kept, Down, bucket' = bucket PROVE BInv'
<1>1. StoreParts /\ StoreParts' /\ StoreInv /\ StoreInv'
  <2>1. (IInv => StoreParts)' BY StorePartsOf, PTL
  <2> QED BY <2>1, StorePartsOf DEF BInv, Kept
<1>2. Viewed(View') BY <1>1, ViewNext
<1>3. job' = NoJob /\ step' = [NoStep EXCEPT !.pc = "down"] BY DEF Down
<1>4. WorkInv' BY <1>2, <1>3, ForgetNext DEF WorkInv
<1>5. NumberInv' BY OtherNumber DEF BInv, IInv
<1>6. Begins(Durable, Durable') BY DEF Kept
<1>7. Backed(bucket, NoGen, Durable') BY <1>1, <1>6, BackGrows, BackedForget
<1>8. job'.gen = NoGen BY <1>3, StepRecords
<1>9. BackInv' BY <1>7, <1>8 DEF BackInv
<1> QED BY <1>1, <1>4, <1>5, <1>9 DEF BInv

\* The worker's steps but the fsync change no file.
LEMMA WorkingQuiet ==
    ASSUME EngineInv, Working, ~FsyncWal
    PROVE  UNCHANGED <<store, writer>> /\ left'.commits = left.commits
<1>1. CASE \/ ObserveSnapshot \/ ObserveWal \/ ObserveIntent \/ StartStep \/ Resume \/ Unvouched
           \/ OpenSnapshot \/ ReadChain \/ BaseRead \/ ReadSegment \/ Due \/ NotDue \/ Retain
           \/ CatchUp \/ Position
  BY <1>1 DEF ObserveSnapshot, ObserveWal, ObserveIntent, StartStep, Resume, OpenSnapshot, Unvouched,
       ReadChain, BaseRead, ReadSegment, Due, NotDue, Retain, CatchUp, Position, outside
<1>2. CASE PutSnapshot \/ PutSegment \/ PutManifest \/ PutLatest \/ DeleteManifest \/ DeleteObjects
  <2>1. UNCHANGED local
    BY <1>2 DEF PutSnapshot, PutSegment, PutManifest, PutLatest, DeleteManifest, DeleteObjects
  <2>2. UNCHANGED left \/ Fault("bucket")
    BY <1>2 DEF PutSnapshot, PutSegment, PutManifest, PutLatest, DeleteManifest, DeleteObjects,
       Answered, Fails, Conflict
  <2>3. LeftType BY EngineParts
  <2>4. left'.commits = left.commits BY <2>2, <2>3 DEF Fault, LeftType
  <2> QED BY <2>1, <2>4 DEF local
<1> QED BY <1>1, <1>2 DEF Working

LEMMA FsyncNext == ASSUME BInv, IInv', FsyncWal PROVE BInv' /\ Begins(Durable, Durable')
<1>1. StoreParts /\ StoreParts' /\ StoreInv
  <2>1. (IInv => StoreParts)' BY StorePartsOf, PTL
  <2> QED BY <2>1, StorePartsOf DEF BInv
<1>2. Kept /\ Moved BY <1>1, FsyncMoved
<1>3. ~PowerLoss
  <2>1. step'.pc = "position"
    <3>1. Fields(step, StepFields) BY StepBefore DEF BInv, IInv
    <3>2. step' = To(step, "position") \/ step' = To([step EXCEPT !["claim"] = NoClaim], "position") BY DEF FsyncWal
    <3> DEFINE q == [step EXCEPT !["claim"] = NoClaim]
    <3>3. Fields(q, StepFields) BY <3>1, SetOther
    <3>4. step' = To(step, "position") \/ step' = To(q, "position") BY <3>2
    <3> HIDE DEF q
    <3> QED BY <3>1, <3>3, <3>4, ToIs
  <2>2. PowerLoss => step'.pc = "down" BY StepRecords DEF PowerLoss, Down
  <2> QED BY <2>1, <2>2
<1>4. Begins(Line, Line') /\ StoreInv' BY <1>2, <1>3 DEF Moved, Kept
<1>5. Moves(View, View') BY <1>2, <1>4, ViewMoves
<1>6. Viewed(View) /\ Viewed(View') BY <1>1, <1>4, ViewIs, ViewNext
<1>7. Work(step, job.gen, View') /\ Keyed(job.gen, View') BY <1>5, <1>6, WorkMoves DEF BInv, WorkInv
<1>8. job' = job /\ bucket' = bucket BY DEF FsyncWal
<1>9. Work(step', job'.gen, View') BY <1>7, FsyncWork DEF BInv, IInv
<1>10. WorkInv' BY <1>7, <1>8, <1>9 DEF WorkInv
<1>11. NumberInv' BY AskNumber DEF BInv, IInv
<1>12. Begins(Durable, Durable') BY <1>2 DEF Kept
<1>13. BackInv' BY <1>1, <1>4, <1>8, <1>12, BackGrows DEF BackInv
<1> QED BY <1>4, <1>10, <1>11, <1>12, <1>13 DEF BInv

LEMMA WorkingNext ==
    ASSUME BInv, IInv', Working, ~FsyncWal PROVE BInv' /\ Durable' = Durable
<1>1. StoreParts /\ StoreParts' /\ StoreInv /\ EngineInv /\ EngineInv'
  <2>1. (IInv => StoreParts)' BY StorePartsOf, PTL
  <2> QED BY <2>1, StorePartsOf DEF BInv, IInv
<1>2. UNCHANGED <<store, writer>> /\ left'.commits = left.commits BY <1>1, WorkingQuiet
<1>3. Kept /\ Durable' = Durable BY <1>1, <1>2, QuietMoved
<1>4. View' = View BY <1>2, ViewSame
<1>5. job.next \in Int BY DEF BInv, NumberInv
<1>6. WorkNext BY <1>1, <1>5, WorkingWork DEF BInv
<1>7. WorkInv' BY <1>4, <1>6 DEF WorkInv, WorkNext
<1>8. NumberInv'
  <2>1. Still(step) /\ job.gen.num \in Int BY DEF BInv, WorkInv, Work, Keyed
  <2>2. ObjectType(bucket) BY DEF BInv, BackInv, Backed
  <2> QED BY <2>1, <2>2, WorkingNumber DEF BInv, IInv
<1>9. BackNext BY <1>1, WorkingBack DEF BInv
<1>10. BackInv' BY <1>3, <1>9 DEF BackInv, BackNext
<1> QED BY <1>3, <1>7, <1>8, <1>10 DEF BInv, Kept

LEMMA BootNext == ASSUME BInv, IInv', Boot PROVE BInv' /\ Durable' = Durable
<1>1. StoreParts /\ StoreParts' /\ StoreInv
  <2>1. (IInv => StoreParts)' BY StorePartsOf, PTL
  <2> QED BY <2>1, StorePartsOf DEF BInv
<1>2. UNCHANGED <<store, left, writer, job, bucket>> /\ step' = NoStep BY DEF Boot
<1>3. Kept /\ Durable' = Durable BY <1>1, <1>2, QuietMoved
<1>4. View' = View BY <1>2, ViewSame
<1>5. Viewed(View) BY <1>1, ViewIs
<1>6. Work(NoStep, job.gen, View) BY <1>5, WorkNone
<1>7. WorkInv' BY <1>2, <1>4, <1>6 DEF WorkInv, BInv
<1>8. NumberInv' BY <1>2, OtherNumber DEF BInv, IInv
<1>9. BackInv' BY <1>2, <1>3 DEF BackInv, BInv
<1> QED BY <1>3, <1>7, <1>8, <1>9 DEF BInv, Kept

\* Every step keeps the invariant, and takes no durable commit back.
LEMMA NextBInv ==
    ASSUME BInv, SyncedSnapshots, [Next]_vars PROVE BInv' /\ Begins(Durable, Durable')
<1>1. IInv' BY NextIInv DEF BInv
<1>2. StoreParts /\ StoreParts' /\ StoreInv /\ LeftType
  <2>1. (IInv => StoreParts)' BY <1>1, StorePartsOf, PTL
  <2>2. LeftType BY EngineParts DEF BInv, IInv, EngineInv
  <2> QED BY <1>1, <2>1, <2>2, StorePartsOf DEF BInv
<1>3. Durable \in Seq(Nat) BY <1>2, DurableFacts
<1>4. Durable' = Durable => Begins(Durable, Durable')
  <2>1. Len(Durable) =< Len(Durable) BY <1>3
  <2> QED BY <2>1 DEF Begins
<1>5. CASE PowerLoss
  <2>1. Kept /\ Down /\ bucket' = bucket BY <1>2, <1>5, PowerMoved DEF PowerLoss
  <2> QED BY <1>1, <2>1, GoesDown DEF Kept
<1>6. ASSUME NEW p, Writing(p), ~PowerLoss PROVE BInv' /\ Begins(Durable, Durable')
  <2>1. Kept /\ Moved BY <1>2, <1>6, WritingMoved
  <2>2. UNCHANGED <<worker, bucket>>
    BY <1>6 DEF Writing, AppendFrame, EndScope, BeginSnapshot, WriteSnapshot, ReplaceWal, EndSnapshot
  <2> QED BY <1>1, <1>6, <2>1, <2>2, MovesOn DEF Kept
<1>7. ASSUME NEW p, Lock(p) \/ SnapshotFails(p) \/ (Kill(p) /\ ~Down), ~PowerLoss PROVE BInv' /\ Begins(Durable, Durable')
  <2>1. /\ UNCHANGED <<store, worker, bucket>>
        /\ left' = left \/ left' = [left EXCEPT !.faults = @ - 1]
        /\ writer' = writer \/ writer' = Free \/ writer' = [by |-> p, stage |-> "locked"]
    <3>1. CASE Lock(p) BY <3>1 DEF Lock
    <3>2. CASE SnapshotFails(p) BY <3>2 DEF SnapshotFails, Fault
    <3>3. CASE Kill(p) /\ ~Down BY <3>3 DEF Kill, Fault
    <3> QED BY <1>7, <3>1, <3>2, <3>3
  <2>2. left'.commits = left.commits BY <1>2, <2>1 DEF LeftType
  <2>3. writer' = writer \/ writer' = Free \/ writer'.stage = "locked" BY <2>1
  <2>4. Kept /\ Moved BY <1>2, <2>1, <2>2, <2>3, QuietMoved
  <2> QED BY <1>1, <1>7, <2>1, <2>4, MovesOn DEF Kept
<1>8. ASSUME NEW p, Kill(p) /\ Down, ~PowerLoss PROVE BInv' /\ Begins(Durable, Durable')
  <2>1. /\ UNCHANGED <<store, bucket>> /\ left' = [left EXCEPT !.faults = @ - 1]
        /\ writer' = writer \/ writer' = Free
    BY <1>8 DEF Kill, Fault
  <2>2. left'.commits = left.commits BY <1>2, <2>1 DEF LeftType
  <2>3. Kept BY <1>2, <2>1, <2>2, QuietMoved
  <2> QED BY <1>1, <1>8, <2>1, <2>3, GoesDown DEF Kept
<1>9. CASE Boot BY <1>1, <1>4, <1>9, BootNext
<1>10. CASE Working /\ ~FsyncWal BY <1>1, <1>4, <1>10, WorkingNext
<1>11. CASE FsyncWal BY <1>1, <1>11, FsyncNext
<1>12. CASE (Refresh \/ UNCHANGED vars) /\ ~PowerLoss
  <2>1. UNCHANGED <<store, left, writer, worker, bucket>> BY <1>12 DEF Refresh, vars
  <2>2. Kept /\ Moved BY <1>2, <2>1, QuietMoved
  <2> QED BY <1>1, <1>12, <2>1, <2>2, MovesOn DEF Kept
<1> QED BY <1>5, <1>6, <1>7, <1>8, <1>9, <1>10, <1>11, <1>12 DEF Next

LEMMA InitBInv == Init => BInv
<1> SUFFICES ASSUME Init PROVE BInv OBVIOUS
<1>1. IInv BY InitIInv
<1>2. /\ snap = NoSnap /\ wal = [id |-> 0, frames |-> << >>, synced |-> 0] /\ intent = {} /\ floor = 0
      /\ writer = Free /\ step = NoStep /\ job = NoJob
      /\ bucket = [snaps |-> {}, segs |-> {}, mans |-> {}, latest |-> None]
  BY DEF Init
<1>3. << >> \in Seq(Nat) /\ Len(<< >>) = 0 OBVIOUS
<1>4. snap.id = 0 /\ snap.state = << >> /\ wal.frames = << >> /\ writer.stage = "none" /\ wal.synced = 0
  BY <1>2 DEF NoSnap, Free
<1>5. Line = << >>
  <2>1. SubSeq(<< >>, 1, 0) = << >> OBVIOUS
  <2>2. << >> \o << >> = << >> OBVIOUS
  <2> QED BY <1>2, <1>4, <2>1, <2>2 DEF Line
<1>6. StoreInv
  <2>1. StoreType BY <1>2, <1>3 DEF StoreType, NoSnap
  <2>2. LineInv BY <1>2, <1>3, <1>4, <1>5 DEF LineInv, Begins
  <2>3. Falling /\ RecordInv BY <1>2, <1>3, <1>5 DEF Falling, Falls, RecordInv
  <2>4. HeldInv /\ StageInv BY <1>2, <1>3, <1>4, <1>5 DEF HeldInv, StageInv
  <2> QED BY <2>1, <2>2, <2>3, <2>4 DEF StoreInv
<1>7. StoreParts BY <1>1, StorePartsOf
<1>8. Viewed(View) BY <1>6, <1>7, ViewIs
<1>9. job.gen = NoGen /\ job.next = 0 /\ job.resumed = FALSE /\ step.pc = "idle" BY <1>2, StepRecords DEF NoJob
<1>10. WorkInv BY <1>2, <1>8, <1>9, WorkNone, KeyedNone DEF WorkInv
<1>11. bucket.snaps = {} /\ bucket.segs = {} /\ bucket.mans = {} BY <1>2
<1>12. NumberInv
  <2>1. Below(bucket, 0) BY <1>11 DEF Below
  <2>2. Quiet(step) BY <1>2, QuietForms
  <2> QED BY <1>9, <2>1, <2>2 DEF NumberInv, Quiet
<1>13. Durable \in Seq(Nat) BY <1>6, <1>7, DurableFacts
<1>14. BackInv
  <2>1. ObjectType(bucket) BY <1>11, FS_EmptySet DEF ObjectType
  <2>2. At(<< >>, 0, Durable)
    <3>1. 0 + 0 =< Len(Durable) BY <1>13
    <3> QED BY <1>3, <3>1 DEF At
  <2>3. Holds(NoGen, bucket, Durable) BY <1>11, <2>2, NoGenIs, ShippedNone DEF Holds
  <2> QED BY <1>9, <1>11, <2>1, <2>3 DEF BackInv, Backed, Apart
<1> QED BY <1>1, <1>6, <1>10, <1>12, <1>14 DEF BInv

\* The store, the worker, the numbers and the bucket, together, in every state of
\* a behaviour in which snapshots are taken of a WAL on stable storage.
THEOREM BackupInvariance == Spec /\ []SyncedSnapshots => []BInv
<1>1. BInv /\ SyncedSnapshots /\ [Next]_vars => BInv' BY NextBInv
<1> QED BY <1>1, InitBInv, PTL DEF Spec

-----------------------------------------------------------------------------
(* Restore points.                                                         *)

LEMMA PointHolds ==
    ASSUME BInv, NEW m \in bucket.mans
    PROVE  /\ Durable \in Seq(Nat) /\ ObjectType(bucket) /\ Whole(m, bucket) /\ Holds(m, bucket, Durable)
           /\ m.n = m.floor + Len(Shipped(m.segs))
<1>1. Durable \in Seq(Nat) BY StorePartsOf, DurableFacts DEF BInv
<1>2. ObjectType(bucket) /\ Pointed(m, bucket, Durable) BY DEF BInv, BackInv, Backed
<1>3. Whole(m, bucket) BY DEF BInv, IInv, PointInv
<1> QED BY <1>1, <1>2, <1>3 DEF Pointed

LEMMA TailOfInv == BInv => TailIsHistory
<1> SUFFICES ASSUME BInv, NEW m \in bucket.mans PROVE IsPrefix(Restored(m, TailOf(m)), Durable)
  BY DEF TailIsHistory
<1>1. /\ Durable \in Seq(Nat) /\ ObjectType(bucket) /\ Whole(m, bucket) /\ Holds(m, bucket, Durable) BY PointHolds
<1> DEFINE t == TailOf(m)
           r == Restored(m, t)
<1>2. t \in Seq(Nat) /\ At(t, m.floor + Len(Shipped(m.segs)), Durable) BY <1>1, TailIs
<1> HIDE DEF t
<1>3. r \in Seq(Nat) /\ Begins(r, Durable) BY <1>1, <1>2, RestoredIs
<1> HIDE DEF r
<1>4. IsPrefix(r, Durable) BY <1>1, <1>3, PrefixIs
<1> QED BY <1>4 DEF r, t

\* The history d, cut at each of the numbers N.
Cuts(d, N) == [n \in N |-> SubSeq(d, 1, n)]
Restores == [n \in Numbers |-> Restored(CHOOSE m \in bucket.mans : m.n = n, << >>)]

LEMMA RestoresAre == BInv => /\ Restores = Cuts(Durable, Numbers) /\ Numbers \subseteq 0 .. Len(Durable)
                             /\ Durable \in Seq(Nat)
<1> SUFFICES ASSUME BInv
             PROVE  /\ Restores = Cuts(Durable, Numbers) /\ Numbers \subseteq 0 .. Len(Durable)
                    /\ Durable \in Seq(Nat)
  OBVIOUS
<1>1. Durable \in Seq(Nat) BY StorePartsOf, DurableFacts DEF BInv
<1>2. ASSUME NEW m \in bucket.mans PROVE Restored(m, << >>) = SubSeq(Durable, 1, m.n) /\ m.n \in 0 .. Len(Durable)
  <2>1. /\ Durable \in Seq(Nat) /\ ObjectType(bucket) /\ Whole(m, bucket) /\ Holds(m, bucket, Durable)
        /\ m.n = m.floor + Len(Shipped(m.segs))
    BY PointHolds
  <2>2. /\ Restored(m, << >>) = SubSeq(Durable, 1, m.n) /\ m.n \in Nat /\ m.n =< Len(Durable) BY <2>1, PointIs
  <2> QED BY <1>1, <2>2
<1>3. ASSUME NEW n \in Numbers PROVE Restores[n] = SubSeq(Durable, 1, n)
  <2> DEFINE m == CHOOSE m \in bucket.mans : m.n = n
  <2>1. m \in bucket.mans /\ m.n = n BY DEF Numbers
  <2>2. Restores[n] = Restored(m, << >>) BY DEF Restores
  <2> HIDE DEF m
  <2> QED BY <1>2, <2>1, <2>2
<1>4. Restores = Cuts(Durable, Numbers) BY <1>3 DEF Restores, Cuts
<1>5. Numbers \subseteq 0 .. Len(Durable) BY <1>2 DEF Numbers
<1> QED BY <1>1, <1>4, <1>5

LEMMA CutsGrow ==
    ASSUME NEW d \in Seq(Nat), NEW e \in Seq(Nat), Begins(d, e), NEW N, N \subseteq 0 .. Len(d)
    PROVE  Cuts(d, N) = Cuts(e, N)
<1>1. ASSUME NEW n \in N PROVE SubSeq(d, 1, n) = SubSeq(e, 1, n)
  <2>0. Len(d) \in Nat /\ Len(e) \in Nat /\ Len(d) =< Len(e) BY DEF Begins
  <2>1. n \in Nat /\ n =< Len(d) /\ n =< Len(e) BY <2>0
  <2> DEFINE s == SubSeq(d, 1, n)
             t == SubSeq(e, 1, n)
  <2>2. s \in Seq(Nat) /\ Len(s) = n /\ \A i \in 1 .. n : s[i] = d[i] BY <2>1, Cutting
  <2>3. t \in Seq(Nat) /\ Len(t) = n /\ \A i \in 1 .. n : t[i] = e[i] BY <2>1, Cutting
  <2> HIDE DEF s, t
  <2>4. \A i \in 1 .. n : i \in 1 .. Len(d) BY <2>0, <2>1
  <2>5. \A i \in 1 .. Len(s) : s[i] = t[i] BY <2>2, <2>3, <2>4 DEF Begins
  <2>6. s = t BY <2>2, <2>3, <2>5, SameSeq
  <2> QED BY <2>6 DEF s, t
<1> QED BY <1>1 DEF Cuts

\* The steps that change what restore points there are.
LEMMA PointSteps ==
    ASSUME BInv, [Next]_vars
    PROVE  \/ bucket'.mans = bucket.mans /\ bucket'.latest = bucket.latest
           \/ PutManifest \/ PutLatest \/ DeleteManifest
<1>1. Shape BY DEF BInv, IInv
<1>2. CASE \/ ObserveSnapshot \/ ObserveWal \/ ObserveIntent \/ StartStep \/ Resume \/ Unvouched \/ FsyncWal
           \/ OpenSnapshot \/ ReadChain \/ BaseRead \/ ReadSegment \/ Due \/ NotDue \/ Retain
           \/ CatchUp \/ Position
  BY <1>2 DEF ObserveSnapshot, ObserveWal, ObserveIntent, StartStep, Resume, OpenSnapshot, Unvouched, FsyncWal,
       ReadChain, BaseRead, ReadSegment, Due, NotDue, Retain, CatchUp, Position, outside
<1>3. CASE PutSnapshot BY <1>1, <1>3, PutSnapshotJob
<1>4. CASE PutSegment BY <1>1, <1>4, PutSegmentFacts
<1>5. CASE DeleteObjects BY <1>1, <1>5, DeleteBucket
<1>6. ASSUME NEW p, Lock(p) \/ Writing(p) \/ SnapshotFails(p) \/ Kill(p) PROVE bucket' = bucket
  BY <1>6 DEF Lock, SnapshotFails, Kill,
              Writing, AppendFrame, EndScope, BeginSnapshot, WriteSnapshot, ReplaceWal, EndSnapshot
<1>7. PowerLoss \/ Boot \/ Refresh \/ UNCHANGED vars => bucket' = bucket BY DEF PowerLoss, Boot, Refresh, vars
<1> QED BY <1>2, <1>3, <1>4, <1>5, <1>6, <1>7 DEF Next, Working

LEMMA DurableStays == ASSUME BInv, PutManifest \/ PutLatest \/ DeleteManifest PROVE Durable' = Durable
<1>1. UNCHANGED store
  BY DEF PutManifest, PutLatest, DeleteManifest, local
<1> QED BY <1>1 DEF store, Durable, HeldFrames, Standing

LEMMA RestoresStep ==
    ASSUME BInv, BInv', Begins(Durable, Durable'), [Next]_vars PROVE [Points!Next]_(Points!vars)
<1>1. /\ Restores = Cuts(Durable, Numbers) /\ Numbers \subseteq 0 .. Len(Durable) /\ Durable \in Seq(Nat)
  BY RestoresAre
<1>2. /\ Restores' = Cuts(Durable', Numbers') /\ Numbers' \subseteq 0 .. Len(Durable') /\ Durable' \in Seq(Nat)
  <2>1. (BInv => /\ Restores = Cuts(Durable, Numbers) /\ Numbers \subseteq 0 .. Len(Durable)
                 /\ Durable \in Seq(Nat))'
    BY RestoresAre, PTL
  <2> QED BY <2>1 DEF Cuts
<1>3. CASE bucket'.mans = bucket.mans /\ bucket'.latest = bucket.latest
  <2>1. Numbers' = Numbers BY <1>3 DEF Numbers
  <2>2. Restores' = Restores BY <1>1, <1>2, <2>1, CutsGrow
  <2>3. IsPrefix(Durable, Durable') BY <1>1, <1>2, PrefixIs
  <2>4. CASE Durable' = Durable BY <1>3, <2>2, <2>4 DEF Points!vars, Restores
  <2>5. CASE Durable' # Durable
    <3>0. Points!IsPrefix(Durable, Durable') BY <2>3 DEF IsPrefix, Points!IsPrefix
    <3>1. Points!Commit BY <1>3, <2>2, <2>5, <3>0 DEF Points!Commit, Restores
    <3> QED BY <3>1 DEF Points!Next
  <2> QED BY <2>4, <2>5
<1>4. Shape /\ PointInv /\ Apart(bucket.mans) BY DEF BInv, IInv, BackInv, Backed
<1>5. CASE PutLatest /\ bucket'.latest # bucket.latest
  <2>1. bucket'.mans = bucket.mans /\ bucket'.latest = step.n BY <1>4, <1>5, PutLatestBucket
  <2>2. step.n \in Numbers BY <1>4, <1>5 DEF PointInv, PutLatest, Numbers
  <2>3. Durable' = Durable BY <1>5, DurableStays
  <2>4. Numbers' = Numbers BY <2>1 DEF Numbers
  <2>5. Restores' = Restores BY <1>1, <1>2, <2>3, <2>4
  <2>6. DOMAIN Restores = Numbers BY DEF Restores
  <2>7. Points!Advance(step.n) BY <2>1, <2>3, <2>5 DEF Points!Advance, Restores
  <2>8. \E n \in DOMAIN Restores : Points!Advance(n) \/ Points!Expire(n) BY <2>2, <2>6, <2>7
  <2> QED BY <2>8 DEF Points!Next, Restores
<1>6. CASE PutManifest /\ bucket' # bucket
  <2> DEFINE n == Manifest.n
  <2>1. /\ bucket'.mans = {o \in bucket.mans : o.n # Manifest.n} \cup {Manifest} /\ bucket'.latest = bucket.latest
    BY <1>4, <1>6, PutManifestBucket
  <2>2. Durable' = Durable BY <1>6, DurableStays
  <2>3. Numbers' = Numbers \cup {n} BY <2>1 DEF Numbers
  <2> HIDE DEF n
  <2>4. n \in 0 .. Len(Durable) BY <1>2, <2>2, <2>3
  <2>5. Restores' = [k \in Numbers \cup {n} |-> SubSeq(Durable, 1, k)] BY <1>2, <2>2, <2>3 DEF Cuts
  <2>6. DOMAIN Restores = Numbers /\ \A k \in Numbers : Restores[k] = SubSeq(Durable, 1, k)
    BY <1>1 DEF Cuts
  <2>7. Restores' = [k \in DOMAIN Restores \cup {n} |-> IF k = n THEN SubSeq(Durable, 1, n) ELSE Restores[k]]
    BY <2>5, <2>6
  <2>8. Points!Publish(n) BY <2>1, <2>2, <2>7 DEF Points!Publish, Restores
  <2> QED BY <2>4, <2>8 DEF Points!Next
<1>7. CASE DeleteManifest /\ bucket'.mans # bucket.mans
  <2>1. /\ bucket'.latest = bucket.latest /\ \E m \in step.doomed : bucket'.mans = bucket.mans \ {m}
    BY <1>4, <1>7, DeleteBucket
  <2>2. PICK m \in step.doomed : bucket'.mans = bucket.mans \ {m} BY <2>1
  <2>3. m \in bucket.mans BY <1>7, <2>2
  <2>4. Durable' = Durable BY <1>7, DurableStays
  <2>5. Numbers' = Numbers \ {m.n} BY <1>4, <2>2, <2>3 DEF Numbers, Apart
  <2>6. m.n # bucket.latest
    <3>1. step.pc = "deleteManifests" BY <1>7 DEF DeleteManifest
    <3>2. bucket.latest = step.n /\ step.kept \cap step.doomed = {} BY <1>4, <3>1 DEF PointInv
    <3>3. PICK k \in bucket.mans : k.n = step.n /\ k \in step.kept BY <1>4, <3>1 DEF PointInv
    <3> QED BY <1>4, <2>3, <3>2, <3>3 DEF Apart
  <2>7. Restores' = [k \in Numbers \ {m.n} |-> SubSeq(Durable, 1, k)] BY <1>2, <2>4, <2>5 DEF Cuts
  <2>8. DOMAIN Restores = Numbers /\ \A k \in Numbers : Restores[k] = SubSeq(Durable, 1, k)
    BY <1>1 DEF Cuts
  <2>9. Restores' = [k \in DOMAIN Restores \ {m.n} |-> Restores[k]] BY <2>7, <2>8
  <2>10. Points!Expire(m.n) BY <2>1, <2>4, <2>6, <2>9 DEF Points!Expire, Restores
  <2>11. m.n \in DOMAIN Restores BY <2>3, <2>8 DEF Numbers
  <2>12. \E k \in DOMAIN Restores : Points!Advance(k) \/ Points!Expire(k) BY <2>10, <2>11
  <2> QED BY <2>12 DEF Points!Next, Restores
<1>8. CASE PutLatest /\ bucket'.latest = bucket.latest BY <1>3, <1>4, <1>8, PutLatestBucket
<1>9. CASE PutManifest /\ bucket' = bucket BY <1>3, <1>9
<1>10. CASE DeleteManifest /\ bucket'.mans = bucket.mans BY <1>3, <1>4, <1>10, DeleteBucket
<1> QED BY <1>3, <1>5, <1>6, <1>7, <1>8, <1>9, <1>10, PointSteps

LEMMA RestoresInit == Init => Points!Init
<1> SUFFICES ASSUME Init PROVE Points!Init OBVIOUS
<1>1. /\ snap = NoSnap /\ wal = [id |-> 0, frames |-> << >>, synced |-> 0] /\ intent = {}
      /\ bucket = [snaps |-> {}, segs |-> {}, mans |-> {}, latest |-> None]
  BY DEF Init
<1>2. BInv BY InitBInv
<1>3. Numbers = {} /\ bucket.latest = -1 BY <1>1 DEF Numbers, None
<1>4. Restores = << >>
  <2>1. Restores = [n \in {} |-> SubSeq(Durable, 1, n)] BY <1>2, <1>3, RestoresAre DEF Cuts
  <2> QED BY <2>1
<1>5. Durable = << >>
  <2> DEFINE h == HeldFrames(snap, wal.frames, intent) + 1
  <2>1. SubSeq(<< >>, h, 0) = << >>
    <3>1. HeldFrames(snap, wal.frames, intent) = 0
      <4>1. Standing(snap, wal.frames, intent) = {} BY <1>1 DEF Standing
      <4>2. {0} \cup {Len(i.frames) : i \in {}} = {0} OBVIOUS
      <4>3. Max({0}) = 0
        <5>1. \A x \in {0} : x = 0 OBVIOUS
        <5>2. \E x \in {0} : \A y \in {0} : x >= y OBVIOUS
        <5> QED BY <5>1, <5>2 DEF Max
      <4> QED BY <4>1, <4>2, <4>3 DEF HeldFrames
    <3>2. h = 1 BY <3>1
    <3>3. SubSeq(<< >>, 1, 0) = << >> OBVIOUS
    <3> HIDE DEF h
    <3> QED BY <3>2, <3>3
  <2>2. snap.state = << >> /\ wal.frames = << >> /\ wal.synced = 0 BY <1>1 DEF NoSnap
  <2>3. << >> \o << >> = << >> OBVIOUS
  <2>4. Durable = snap.state \o SubSeq(wal.frames, h, wal.synced) BY DEF Durable
  <2> HIDE DEF h
  <2> QED BY <2>1, <2>2, <2>3, <2>4
<1> QED BY <1>3, <1>4, <1>5 DEF Points!Init, Points!None, Restores

\* worker.rs, Objects and ordering: the worker reads snapshot.bin, wal.bin and the
\* engine's position at different moments, while this process and a peer commit,
\* snapshot and crash, and it loses answers of the bucket.  What it leaves there
\* is a set of restore points all the same: each is the durable history cut at
\* the number of the manifest, and LATEST names one of them (RestorePoints).
\* Where the power may fail, every snapshot must have been taken of a fsynced WAL:
\* snapshot_with does not fsync it, and a power loss between the snapshot and the
\* replacement of the WAL leaves an intent naming frames that the WAL has lost.  It
\* no longer matches: an open replays the frames that are left over a snapshot
\* which holds them, and counts the commits by the shorter WAL.
THEOREM BackupRefinesPoints == Spec /\ []SyncedSnapshots => RefinesPoints
<1>1. BInv /\ BInv' /\ SyncedSnapshots /\ [Next]_vars => [Points!Next]_(Points!vars)
  BY NextBInv, RestoresStep
<1> QED BY <1>1, RestoresInit, BackupInvariance, PTL DEF Spec, RefinesPoints, Points!Spec

\* restore.rs, tail_segments: a restore of the newest point, with the segments
\* that were uploaded after its manifest, is a beginning of the durable history.
THEOREM TailsAreHistory == Spec /\ []SyncedSnapshots => []TailIsHistory
BY TailOfInv, BackupInvariance, PTL

LEMMA SyncedWithoutPower == "power" \notin Faults => SyncedSnapshots
BY DEF SyncedSnapshots

\* Both hold without a condition on the behaviour where the power does not fail:
\* for crashes of the processes, failed snapshots and fsyncs, and a bucket that
\* fails, under either fsync policy.
THEOREM BackupWithoutPowerLoss == ASSUME "power" \notin Faults PROVE Spec => RefinesPoints /\ []TailIsHistory
<1>1. SyncedSnapshots BY SyncedWithoutPower
<1> QED BY <1>1, BackupRefinesPoints, TailsAreHistory, PTL

StrictInv == left.strict /\ (writer.stage # "appended" => wal.synced = Len(wal.frames))

LEMMA StrictStep ==
    ASSUME "kill" \notin Faults, IInv, StrictInv, [Next]_vars PROVE StrictInv'
<1>1. LeftType /\ wal \in Wals /\ EngineInv BY EngineParts DEF IInv, EngineInv, EngineType, Wals
<1>2. left'.strict
  <2>1. \A k : Fault(k) => left'.strict BY <1>1 DEF Fault, LeftType, StrictInv
  <2>2. ASSUME NEW p, Lock(p) \/ Writing(p) \/ SnapshotFails(p) \/ Kill(p) PROVE left'.strict
    <3>1. CASE Lock(p) BY <3>1 DEF Lock, StrictInv
    <3>2. CASE SnapshotFails(p) \/ Kill(p) BY <2>1, <3>2 DEF SnapshotFails, Kill
    <3>3. CASE Writing(p)
      <4>1. \/ UNCHANGED left \/ left' = [left EXCEPT !.commits = @ - 1] \/ left' = [left EXCEPT !.snapshots = @ - 1]
        BY <3>3 DEF Writing, AppendFrame, EndScope, BeginSnapshot, WriteSnapshot, ReplaceWal, EndSnapshot
      <4> QED BY <1>1, <4>1 DEF LeftType, StrictInv
    <3> QED BY <2>2, <3>1, <3>2, <3>3
  <2>3. CASE PowerLoss BY <2>1, <2>3 DEF PowerLoss
  <2>4. CASE Boot \/ Refresh \/ UNCHANGED vars BY <2>4 DEF Boot, Refresh, vars, StrictInv
  <2>5. CASE Working
    <3>1. UNCHANGED left \/ \E k : Fault(k)
      BY <2>5 DEF Working, ObserveSnapshot, ObserveWal, ObserveIntent, StartStep, Resume, OpenSnapshot, Unvouched, FsyncWal,
       ReadChain, BaseRead, ReadSegment, Due, NotDue, Retain, CatchUp, Position, outside,
       PutSnapshot, PutSegment, PutManifest, PutLatest, DeleteManifest, DeleteObjects, Answered, Fails, Conflict
    <3> QED BY <2>1, <3>1 DEF StrictInv
  <2> QED BY <2>2, <2>3, <2>4, <2>5 DEF Next
<1>3. ASSUME NEW w, w = [wal EXCEPT !.synced = Len(wal.frames)] PROVE w.synced = Len(w.frames)
  BY <1>1, <1>3 DEF Wals
<1>4. writer'.stage # "appended" => wal'.synced = Len(wal'.frames)
  <2>1. ASSUME NEW p, Lock(p) \/ SnapshotFails(p) PROVE wal' = wal /\ writer.stage # "appended"
    <3>1. UNCHANGED store /\ (writer = Free \/ writer.stage \in {"begun", "written", "replaced"})
      BY <2>1 DEF Lock, SnapshotFails
    <3>2. wal' = wal BY <3>1 DEF store
    <3>3. Free.stage = "none" BY DEF Free
    <3> QED BY <3>1, <3>2, <3>3
  <2>2. ASSUME NEW p PROVE ~Kill(p) BY DEF Kill, Fault
  <2>3. ASSUME NEW p, AppendFrame(p) PROVE writer'.stage = "appended"
    BY <1>1, <2>3 DEF AppendFrame, EngineInv, EngineType
  <2>4. ASSUME NEW p, EndScope(p) PROVE wal'.synced = Len(wal'.frames) BY <1>3, <2>4 DEF EndScope, StrictInv
  <2>5. ASSUME NEW p, BeginSnapshot(p) \/ WriteSnapshot(p) \/ EndSnapshot(p) PROVE wal' = wal /\ writer.stage # "appended"
    BY <2>5 DEF BeginSnapshot, WriteSnapshot, EndSnapshot
  <2>6. ASSUME NEW p, ReplaceWal(p) PROVE wal'.synced = Len(wal'.frames)
    <3>1. wal'.synced = 0 /\ wal'.frames = << >> BY <2>6 DEF ReplaceWal
    <3>2. Len(<< >>) = 0 OBVIOUS
    <3> QED BY <3>1, <3>2
  <2>7. CASE PowerLoss
    <3>1. PICK k \in wal.synced .. Len(wal.frames) : wal' = [wal EXCEPT !.frames = SubSeq(@, 1, k), !.synced = k]
      BY <2>7 DEF PowerLoss
    <3>2. wal.frames \in Seq(Nat) /\ wal.synced \in Nat /\ Len(wal.frames) \in Nat BY <1>1 DEF Wals
    <3>3. k \in Nat /\ k =< Len(wal.frames) BY <3>1, <3>2
    <3>4. Len(SubSeq(wal.frames, 1, k)) = k BY <3>2, <3>3, Cutting
    <3>5. wal'.frames = SubSeq(wal.frames, 1, k) /\ wal'.synced = k BY <1>1, <3>1 DEF Wals
    <3> QED BY <3>4, <3>5
  <2>8. CASE Boot \/ Refresh \/ UNCHANGED vars BY <2>8 DEF Boot, Refresh, vars, store, StrictInv
  <2>9. CASE Working /\ ~FsyncWal
    <3>1. UNCHANGED <<store, writer>> BY <1>1, <2>9, WorkingQuiet
    <3> QED BY <3>1 DEF store, StrictInv
  <2>10. CASE FsyncWal BY <1>3, <2>10 DEF FsyncWal, StrictInv
  <2> QED BY <2>1, <2>2, <2>3, <2>4, <2>5, <2>6, <2>7, <2>8, <2>9, <2>10 DEF Next, Writing, StrictInv
<1> QED BY <1>2, <1>4 DEF StrictInv

LEMMA StrictInit == ASSUME \A b \in Budgets : b.strict PROVE Init => StrictInv
<1> SUFFICES ASSUME Init PROVE StrictInv OBVIOUS
<1>1. wal.synced = 0 /\ wal.frames = << >> /\ left.strict BY DEF Init
<1>2. Len(<< >>) = 0 OBVIOUS
<1> QED BY <1>1, <1>2 DEF StrictInv

LEMMA StrictSynced == StrictInv => SyncedSnapshots
BY DEF StrictInv, SyncedSnapshots

\* And where it does fail, if every commit is fsynced (FsyncPolicy::Strict) and no
\* process dies by itself between its append and its fsync.
THEOREM StrictStoreIsBackedUp ==
    ASSUME "kill" \notin Faults, \A b \in Budgets : b.strict PROVE Spec => RefinesPoints /\ []TailIsHistory
<1>1. Init => StrictInv BY StrictInit
<1>2. IInv /\ StrictInv /\ [Next]_vars => StrictInv' BY StrictStep
<1>3. Spec => []StrictInv BY <1>1, <1>2, Invariance, PTL DEF Spec
<1>4. []StrictInv => []SyncedSnapshots BY StrictSynced, PTL
<1> QED BY <1>3, <1>4, BackupRefinesPoints, TailsAreHistory, PTL
=============================================================================
