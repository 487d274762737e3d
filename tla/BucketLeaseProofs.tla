------------------------- MODULE BucketLeaseProofs -------------------------
(***************************************************************************)
(* TLAPS proofs about BucketLease, for every set of instances, any TTLs    *)
(* and clock skews, any service, any record found at the start and any     *)
(* number of faults.                                                       *)
(*                                                                         *)
(* OneWriter speaks of two instances' clocks.  The inductive invariant     *)
(* relates each one's clock to the object: a claim is a confirmed lease,   *)
(* or a request that landed and was not heard of yet, younger than the     *)
(* write fence.  While there is one, the object is the claimant's record,  *)
(* not older than the claim; nobody else remembers a version of it that    *)
(* still matches; and what the claimant itself has still under way can     *)
(* only make it younger than the claim.                                    *)
(***************************************************************************)
EXTENDS BucketLease, TLAPS

Requests == [op : {"none", "create", "update", "fake", "force", "delete"}, tok : BOOLEAN,
             mono : Nat, wall : Nat, out : {"none", "sent", "ok", "refused", "unimplemented"}]
Helds    == [tok : BOOLEAN, mono : Nat, wall : Nat, excl : {"none", "Conditional", "BestEffort"}]
Watches  == [on : BOOLEAN, tok : BOOLEAN, age : Nat]

TypeInv ==
    /\ service \in Services /\ lease \in RecordSet
    /\ phase \in [Instances -> Phases]
    /\ req \in [Instances -> Requests] /\ ghost \in [Instances -> Requests]
    /\ held \in [Instances -> Helds] /\ watch \in [Instances -> Watches]
    /\ misdeleted \subseteq Instances

Probing == {"probeCreate", "probeUpdate"}

\* The request an instance in each phase waits for.
OpsAt(p) ==
    CASE p = "put" -> {"create", "update"}
      [] p \in {"force", "bePut", "beRead"} -> {"force"}
      [] p \in {"renew", "reswap", "reread"} -> {"update"}
      [] p = "probeCreate" -> {"create"}
      [] p = "probeUpdate" -> {"fake"}
      [] p = "handback" -> {"none", "delete"}
      [] p = "delete" -> {"delete"}
      [] OTHER -> {"none"}

\* A verdict tells what the service does with the precondition it was asked of.
Told(r) ==
    /\ r.op = "create" /\ r.out = "refused" => service.create = "honours"
    /\ r.op \in {"update", "fake"} /\ r.out = "refused" => service.update = "honours"
    /\ r.op = "none" => r.out = "none"

\* What the probe has shown so far.
ProbeInv(i) ==
    /\ req[i].op \in OpsAt(phase[i])
    /\ Told(req[i])
    /\ phase[i] \in Holding \cup {"probeUpdate"} /\ held[i].excl = "Conditional" =>
          service.create = "honours"
    /\ phase[i] \in Holding /\ held[i].excl = "Conditional" => service.update = "honours"

\* On a service that honours both preconditions no lease is best-effort.
StrictInv(i) ==
    Conditional =>
        /\ req[i].out # "unimplemented" /\ req[i].op # "force" /\ ghost[i].op # "force"
        /\ phase[i] \in Holding \cup Probing => held[i].excl = "Conditional"

\* The object is i's own record, stamped at most x ago.
Ours(i, x) ==
    /\ lease.there /\ lease.parses /\ lease.id = i /\ lease.ttl = Ttl[i]
    /\ 0 =< lease.age /\ lease.age =< x

HeldClaim(i) == phase[i] \in Holding \cup Probing /\ held[i].wall < Fence(i)
ReqClaim(i)  == /\ phase[i] \in {"put", "renew", "reswap"}
                /\ req[i].out = "ok" /\ req[i].wall < Fence(i)

\* Nobody else remembers a version that matches, or has watched the record for
\* longer than it is old.
Alone(i) ==
    \A j \in Instances \ {i} :
        /\ ~req[j].tok /\ ~ghost[j].tok /\ ~held[j].tok
        /\ watch[j].on /\ watch[j].tok => watch[j].age =< lease.age

ClaimInv(i) ==
    /\ HeldClaim(i) =>
         /\ Ours(i, held[i].wall) /\ Alone(i)
         /\ phase[i] \in {"renew", "reread", "reswap"} => req[i].wall =< held[i].wall
         /\ ghost[i].tok => ghost[i].op = "update" /\ ghost[i].wall =< held[i].wall
    /\ ReqClaim(i) => Ours(i, req[i].wall) /\ Alone(i) /\ ~ghost[i].tok

Premise == Conditional /\ SkewAbsorbed /\ misdeleted = {}

IInv ==
    /\ TypeInv
    /\ \A i \in Instances : ProbeInv(i) /\ StrictInv(i)
    /\ Premise => \A i \in Instances : ClaimInv(i)

Claim(i) == HeldClaim(i) \/ ReqClaim(i)

\* What Alone says of each other instance.
Silent(j) ==
    /\ ~req[j].tok /\ ~ghost[j].tok /\ ~held[j].tok
    /\ watch[j].on /\ watch[j].tok => watch[j].age =< lease.age

-----------------------------------------------------------------------------
(* Clocks.                                                                 *)

LEMMA ClockFacts ==
    ASSUME NEW i \in Instances
    PROVE  /\ Ttl[i] \in Nat /\ Fence(i) \in Nat /\ Fence(i) =< Ttl[i] /\ Ttl[i] =< AgeCap
           /\ Fence(i) =< Ttl[i] - Ttl[i] \div 3 /\ Ttl[i] =< MaxSane /\ Ttl[i] >= 3
           /\ AgeCap \in Nat /\ MaxSane \in Nat /\ i # Stranger
<1>1. Ttl[i] \in 3 .. MaxSane /\ Skew[i] \in Int /\ Ttl[i] + Diff(i, i) =< AgeCap
  BY ClockAssumption
<1>2. AgeCap \in Nat /\ MaxSane \in Nat BY BoundAssumption
<1>3. i # Stranger BY InstancesAssumption
<1>4. Diff(i, i) = 0 BY <1>1, <1>3 DEF Diff
<1> QED BY <1>1, <1>2, <1>3, <1>4 DEF Fence

LEMMA DiffFacts ==
    ASSUME NEW i \in Instances, NEW j \in Instances
    PROVE  Diff(i, j) \in Int /\ Diff(i, j) = 0 - Diff(j, i)
<1>1. Skew[i] \in Int /\ Skew[j] \in Int BY ClockAssumption
<1>2. i # Stranger /\ j # Stranger BY InstancesAssumption
<1> QED BY <1>1, <1>2 DEF Diff

\* Clocks a third of a TTL apart: the record of a claim blocks everybody else,
\* also one who suspects it.
LEMMA ClaimBlocks ==
    ASSUME TypeInv, SkewAbsorbed, NEW i \in Instances, NEW j \in Instances, i # j,
           NEW x \in Nat, x < Fence(i), Ours(i, x), Silent(j)
    PROVE  ForeignBlocks(j)
<1>1. /\ lease.there /\ lease.parses /\ lease.id = i /\ lease.ttl = Ttl[i]
      /\ 0 =< lease.age /\ lease.age =< x /\ lease.age \in Int
  BY DEF Ours, TypeInv, RecordSet
<1>2. /\ Ttl[i] \in Nat /\ Fence(i) \in Nat /\ Fence(i) =< Ttl[i] - Ttl[i] \div 3 /\ Ttl[i] =< MaxSane
      /\ MaxSane \in Nat /\ Ttl[j] \in Nat /\ Ttl[j] >= 3
  BY ClockFacts
<1>3. Diff(j, i) \in Int /\ Diff(i, j) = 0 - Diff(j, i) BY DiffFacts
<1>4. Diff(j, i) =< Ttl[i] \div 3 /\ Diff(i, j) =< Ttl[j] \div 3 BY DEF SkewAbsorbed
<1>5. Elapsed(j) = lease.age + Diff(j, i) BY <1>1 DEF Elapsed
<1>6. IsFresh(j)
  <2>1. lease.age < Fence(i) BY <1>1, <1>2
  <2> QED BY <1>1, <1>2, <1>3, <1>4, <1>5, <2>1 DEF IsFresh
<1>7. ASSUME IsSuspect(j), watch[j].on, watch[j].tok, watch[j].age >= Ttl[j] PROVE FALSE
  <2>1. watch[j].age =< lease.age /\ watch[j].age \in Nat
    BY <1>7 DEF Silent, TypeInv, Watches
  <2>2. lease.age >= Ttl[j] BY <1>1, <1>2, <1>7, <2>1
  <2>3. Ttl[j] \div 3 =< Ttl[j] BY <1>2
  <2>4. Elapsed(j) >= 0 BY <1>1, <1>2, <1>3, <1>4, <1>5, <2>2, <2>3
  <2>5. Elapsed(j) \in Int BY <1>1, <1>3, <1>5
  <2> QED BY <1>1, <1>2, <1>7, <2>4, <2>5 DEF IsSuspect
<1> QED BY <1>1, <1>6, <1>7 DEF ForeignBlocks

-----------------------------------------------------------------------------
(* The service's verdict.                                                  *)

LEMMA VerdictFacts ==
    ASSUME service \in Services, NEW r \in Requests, NEW v, v = Verdict(r)
    PROVE  /\ v \in {"ok", "refused", "unimplemented"}
           /\ v = "refused" /\ r.op = "create" => service.create = "honours"
           /\ v = "refused" /\ r.op \in {"update", "fake"} => service.update = "honours"
           /\ r.op = "delete" => v = "ok"
           /\ Conditional => /\ v # "unimplemented"
                             /\ r.op = "create" /\ v = "ok" => ~lease.there
                             /\ r.op = "update" /\ v = "ok" => r.tok
                             /\ r.op = "fake" => v # "ok"
<1>1. service.create \in Treatments /\ service.update \in Treatments BY DEF Services
<1>2. CASE r.op = "create" BY <1>1, <1>2 DEF Verdict, Treatments, Conditional
<1>3. CASE r.op = "update" BY <1>1, <1>3 DEF Verdict, Treatments, Conditional
<1>4. CASE r.op = "fake" BY <1>1, <1>4 DEF Verdict, Treatments, Conditional
<1>5. CASE r.op \notin {"create", "update", "fake"} BY <1>1, <1>5 DEF Verdict, Treatments, Conditional
<1> QED BY <1>2, <1>3, <1>4, <1>5

\* The records and requests there are.
LEMMA RecordTypes ==
    /\ NoLease \in RecordSet /\ NoReq \in Requests /\ NotHeld \in Helds /\ NoWatch \in Watches
    /\ NoReq.op = "none" /\ NoReq.out = "none" /\ ~NoReq.tok /\ ~NotHeld.tok /\ ~NoWatch.tok
    /\ NotHeld.excl = "none"
BY DEF NoLease, RecordSet, NoReq, Requests, NotHeld, Helds, NoWatch, Watches

LEMMA SendFacts ==
    ASSUME NEW op \in {"create", "update", "fake", "force", "delete"}, NEW tok \in BOOLEAN,
           NEW mono \in Nat, NEW wall \in Nat, NEW r, r = Send(op, tok, mono, wall)
    PROVE  /\ r \in Requests /\ r.op = op /\ r.tok = tok /\ r.wall = wall /\ r.out = "sent"
           /\ r.mono = mono
BY DEF Send, Requests

LEMMA RecordFacts ==
    ASSUME NEW i \in Instances, NEW age \in Nat, NEW r, r = Record(i, age)
    PROVE  /\ r \in RecordSet /\ r.there /\ r.parses /\ r.id = i /\ r.ttl = Ttl[i] /\ r.age = age
<1>1. Ttl[i] \in Nat BY ClockFacts
<1> QED BY <1>1 DEF Record, RecordSet

LEMMA OpsFacts ==
    /\ OpsAt("put") = {"create", "update"} /\ OpsAt("force") = {"force"} /\ OpsAt("bePut") = {"force"}
    /\ OpsAt("beRead") = {"force"} /\ OpsAt("renew") = {"update"} /\ OpsAt("reswap") = {"update"}
    /\ OpsAt("reread") = {"update"} /\ OpsAt("probeCreate") = {"create"}
    /\ OpsAt("probeUpdate") = {"fake"} /\ OpsAt("handback") = {"none", "delete"}
    /\ OpsAt("delete") = {"delete"}
    /\ \A p \in {"idle", "read", "held", "lost", "release", "gone"} : OpsAt(p) = {"none"}
BY DEF OpsAt
-----------------------------------------------------------------------------
(* Steps of one instance that leave the object alone.                      *)

\* Instance i goes on in phase p, with the request r, the late request g, the
\* lease h and the watch w.
Local(i, p, r, g, h, w) ==
    /\ UNCHANGED <<service, lease, misdeleted>>
    /\ phase' \in [Instances -> Phases] /\ phase'[i] = p
    /\ req' \in [Instances -> Requests] /\ req'[i] = r
    /\ ghost' \in [Instances -> Requests] /\ ghost'[i] = g
    /\ held' \in [Instances -> Helds] /\ held'[i] = h
    /\ watch' \in [Instances -> Watches] /\ watch'[i] = w
    /\ \A j \in Instances \ {i} :
          /\ phase'[j] = phase[j] /\ req'[j] = req[j] /\ ghost'[j] = ghost[j]
          /\ held'[j] = held[j] /\ watch'[j] = watch[j]

\* What the invariant then asks of i.
LocalProbe(p, r, h) ==
    /\ r.op \in OpsAt(p) /\ Told(r)
    /\ p \in Holding \cup {"probeUpdate"} /\ h.excl = "Conditional" => service.create = "honours"
    /\ p \in Holding /\ h.excl = "Conditional" => service.update = "honours"
LocalStrict(p, r, g, h) ==
    Conditional =>
        /\ r.out # "unimplemented" /\ r.op # "force" /\ g.op # "force"
        /\ p \in Holding \cup Probing => h.excl = "Conditional"
LocalClaim(i, p, r, g, h) ==
    /\ p \in Holding \cup Probing /\ h.wall < Fence(i) =>
         /\ Ours(i, h.wall) /\ Alone(i)
         /\ p \in {"renew", "reread", "reswap"} => r.wall =< h.wall
         /\ g.tok => g.op = "update" /\ g.wall =< h.wall
    /\ p \in {"put", "renew", "reswap"} /\ r.out = "ok" /\ r.wall < Fence(i) =>
         Ours(i, r.wall) /\ Alone(i) /\ ~g.tok
LocalSilent(r, g, h, w) ==
    /\ ~r.tok /\ ~g.tok /\ ~h.tok
    /\ w.on /\ w.tok => w.age =< lease.age

LEMMA LocalKeeps ==
    ASSUME IInv, NEW i \in Instances, NEW p, NEW r, NEW g, NEW h, NEW w, Local(i, p, r, g, h, w),
           LocalProbe(p, r, h), LocalStrict(p, r, g, h),
           Premise => LocalClaim(i, p, r, g, h),
           Premise /\ (\E j \in Instances \ {i} : Claim(j)) => LocalSilent(r, g, h, w)
    PROVE  IInv'
<1>1. /\ UNCHANGED <<service, lease, misdeleted>> /\ phase'[i] = p /\ req'[i] = r /\ ghost'[i] = g
      /\ held'[i] = h /\ watch'[i] = w
      /\ \A j \in Instances \ {i} :
            /\ phase'[j] = phase[j] /\ req'[j] = req[j] /\ ghost'[j] = ghost[j]
            /\ held'[j] = held[j] /\ watch'[j] = watch[j]
  BY DEF Local
<1>2. TypeInv' BY DEF IInv, TypeInv, Local
<1>3. ASSUME NEW j \in Instances PROVE ProbeInv(j)' /\ StrictInv(j)'
  <2>1. CASE j = i
    BY <1>1, <2>1 DEF ProbeInv, StrictInv, LocalProbe, LocalStrict, Told, Conditional
  <2>2. CASE j # i
    <3>1. ProbeInv(j) /\ StrictInv(j) BY DEF IInv
    <3> QED BY <1>1, <2>2, <3>1 DEF ProbeInv, StrictInv, Told, Conditional
  <2> QED BY <2>1, <2>2
<1>4. ASSUME Premise', NEW j \in Instances PROVE ClaimInv(j)'
  <2>0. Premise BY <1>1, <1>4 DEF Premise, Conditional, SkewAbsorbed
  <2>1. \A k \in Instances : ClaimInv(k) BY <2>0 DEF IInv
  <2>2. CASE j = i
    <3>1. Alone(i) => Alone(i)' BY <1>1 DEF Alone
    <3>2. LocalClaim(i, p, r, g, h) BY <2>0
    <3> QED BY <1>1, <2>2, <3>1, <3>2 DEF LocalClaim, ClaimInv, HeldClaim, ReqClaim, Ours
  <2>3. CASE j # i
    <3>1. HeldClaim(j)' = HeldClaim(j) /\ ReqClaim(j)' = ReqClaim(j)
      BY <1>1, <2>3 DEF HeldClaim, ReqClaim
    <3>2. ASSUME Claim(j), Alone(j) PROVE Alone(j)'
      <4>1. LocalSilent(r, g, h, w) BY <2>0, <2>3, <3>2
      <4>2. ASSUME NEW k \in Instances \ {j}
            PROVE  /\ ~req'[k].tok /\ ~ghost'[k].tok /\ ~held'[k].tok
                   /\ watch'[k].on /\ watch'[k].tok => watch'[k].age =< lease'.age
        <5>1. CASE k = i BY <1>1, <4>1, <5>1 DEF LocalSilent
        <5>2. CASE k # i BY <1>1, <3>2, <5>2 DEF Alone
        <5> QED BY <5>1, <5>2
      <4> QED BY <4>2 DEF Alone
    <3>3. ClaimInv(j) BY <2>1
    <3> QED BY <1>1, <2>3, <3>1, <3>2, <3>3 DEF ClaimInv, Claim, Ours
  <2> QED BY <2>2, <2>3
<1> QED BY <1>2, <1>3, <1>4 DEF IInv

\* What is known of instance i and of the others' claims before a step.
LEMMA Before ==
    ASSUME IInv, NEW i \in Instances
    PROVE  /\ phase[i] \in Phases /\ req[i] \in Requests /\ ghost[i] \in Requests
           /\ held[i] \in Helds /\ watch[i] \in Watches
           /\ ProbeInv(i) /\ StrictInv(i) /\ (Premise => ClaimInv(i) /\ Conditional)
           /\ Premise => \A j \in Instances \ {i} : Claim(j) =>
                 Silent(i) /\ lease.there /\ lease.id = j /\ ForeignBlocks(i) /\ 0 =< lease.age
<1>1. TypeInv BY DEF IInv
<1>2. ASSUME Premise, NEW j \in Instances \ {i}, Claim(j)
      PROVE  Silent(i) /\ lease.there /\ lease.id = j /\ ForeignBlocks(i) /\ 0 =< lease.age
  <2>1. ClaimInv(j) BY <1>2 DEF IInv
  <2>2. held[j].wall \in Nat /\ req[j].wall \in Nat BY <1>1 DEF TypeInv, Helds, Requests
  <2>3. PICK x \in Nat : x < Fence(j) /\ Ours(j, x) /\ Alone(j)
    BY <1>2, <2>1, <2>2 DEF Claim, ClaimInv, HeldClaim, ReqClaim
  <2>4. Silent(i) BY <2>3 DEF Alone, Silent
  <2>5. ForeignBlocks(i) BY <1>1, <1>2, <2>3, <2>4, ClaimBlocks DEF Premise
  <2> QED BY <2>3, <2>4, <2>5 DEF Ours
<1> QED BY <1>1, <1>2 DEF IInv, TypeInv, Premise

\* The shape of a step.
LEMMA LocalShape ==
    ASSUME TypeInv, NEW i \in Instances, UNCHANGED <<service, lease, misdeleted>>,
           NEW p \in Phases, NEW r \in Requests, NEW g \in Requests, NEW h \in Helds, NEW w \in Watches,
           phase' = [phase EXCEPT ![i] = p],
           req' = [req EXCEPT ![i] = r] \/ (req' = req /\ r = req[i]),
           ghost' = [ghost EXCEPT ![i] = g] \/ (ghost' = ghost /\ g = ghost[i]),
           held' = [held EXCEPT ![i] = h] \/ (held' = held /\ h = held[i]),
           watch' = [watch EXCEPT ![i] = w] \/ (watch' = watch /\ w = watch[i])
    PROVE  Local(i, p, r, g, h, w)
<1>1. phase' \in [Instances -> Phases] /\ phase'[i] = p /\ \A j \in Instances \ {i} : phase'[j] = phase[j]
  BY DEF TypeInv
<1>2. req' \in [Instances -> Requests] /\ req'[i] = r /\ \A j \in Instances \ {i} : req'[j] = req[j]
  BY DEF TypeInv
<1>3. ghost' \in [Instances -> Requests] /\ ghost'[i] = g /\ \A j \in Instances \ {i} : ghost'[j] = ghost[j]
  BY DEF TypeInv
<1>4. held' \in [Instances -> Helds] /\ held'[i] = h /\ \A j \in Instances \ {i} : held'[j] = held[j]
  BY DEF TypeInv
<1>5. watch' \in [Instances -> Watches] /\ watch'[i] = w /\ \A j \in Instances \ {i} : watch'[j] = watch[j]
  BY DEF TypeInv
<1> QED BY <1>1, <1>2, <1>3, <1>4, <1>5 DEF Local

LEMMA PhaseSets ==
    /\ Holding = {"held", "renew", "reread", "reswap", "beRead", "bePut"}
    /\ Renewing = {"renew", "reread", "reswap", "beRead", "bePut"}
    /\ Acquiring = {"read", "put", "force", "probeCreate", "probeUpdate", "handback"}
    /\ Phases = {"idle", "lost", "release", "delete", "gone", "held", "renew", "reread", "reswap",
                 "beRead", "bePut", "read", "put", "force", "probeCreate", "probeUpdate", "handback"}
BY DEF Holding, Renewing, Acquiring, Phases

\* A phase in which no lease is held and none is asked for.
Out == {"idle", "read", "lost", "release", "handback", "gone"}

\* The instance drops what it waited for, and its lease: only a late request is left.
LEMMA DropKeeps ==
    ASSUME IInv, NEW i \in Instances, NEW p \in Out, NEW r, NEW g, NEW h \in Helds, NEW w \in Watches,
           Local(i, p, r, g, h, w), r = NoReq \/ (r = req[i] /\ r.op = "none"),
           g = ghost[i] \/ (g \in Requests /\ g.op = req[i].op /\ g.tok = req[i].tok),
           h = held[i] \/ ~h.tok, w = watch[i] \/ ~w.tok
    PROVE  IInv'
<1>1. /\ StrictInv(i) /\ ProbeInv(i)
      /\ Premise => \A j \in Instances \ {i} : Claim(j) => Silent(i)
  BY Before
<1>2. LocalProbe(p, r, h) BY <1>1, OpsFacts, PhaseSets, RecordTypes DEF LocalProbe, Out, Told, ProbeInv
<1>3. LocalStrict(p, r, g, h)
  BY <1>1, PhaseSets, RecordTypes DEF LocalStrict, Out, StrictInv, Probing
<1>4. LocalClaim(i, p, r, g, h) BY PhaseSets DEF LocalClaim, Out, Probing
<1>5. ASSUME Premise, NEW j \in Instances \ {i}, Claim(j) PROVE LocalSilent(r, g, h, w)
  BY <1>1, <1>5, RecordTypes DEF LocalSilent, Silent
<1> QED BY <1>2, <1>3, <1>4, <1>5, LocalKeeps

\* What becomes of the request the client stops waiting for.
LEMMA AbandonedFacts ==
    ASSUME TypeInv, NEW i \in Instances, Abandoned(i)
    PROVE  \E g \in Requests :
              /\ ghost' = [ghost EXCEPT ![i] = g] \/ (ghost' = ghost /\ g = ghost[i])
              /\ g = ghost[i] \/ (/\ g.op = req[i].op /\ g.tok = req[i].tok /\ g.wall = req[i].wall)
<1>1. req[i] \in Requests /\ ghost[i] \in Requests BY DEF TypeInv
<1>2. CASE ghost' = ghost BY <1>1, <1>2
<1>3. CASE ghost' = [ghost EXCEPT ![i] = [req[i] EXCEPT !.mono = 0]]
  <2> DEFINE g == [req[i] EXCEPT !.mono = 0]
  <2>1. g \in Requests /\ g.op = req[i].op /\ g.tok = req[i].tok /\ g.wall = req[i].wall
    BY <1>1 DEF Requests
  <2> HIDE DEF g
  <2>2. ghost' = [ghost EXCEPT ![i] = g] BY <1>3 DEF g
  <2> QED BY <2>1, <2>2
<1> QED BY <1>2, <1>3 DEF Abandoned

\* An attempt or a handle is given up, by a failure, a loss, a shutdown or a crash.
LEMMA GiveUpKeeps ==
    ASSUME IInv, NEW i \in Instances,
           AcquireFails(i) \/ MarkLost(i) \/ Shutdown(i) \/ Crash(i) \/ ReleaseEnds(i)
    PROVE  IInv'
<1>1. TypeInv BY DEF IInv
<1>2. /\ phase[i] \in Phases /\ req[i] \in Requests /\ ghost[i] \in Requests
      /\ held[i] \in Helds /\ watch[i] \in Watches
  BY Before
<1>3. PICK g \in Requests :
          /\ ghost' = [ghost EXCEPT ![i] = g] \/ (ghost' = ghost /\ g = ghost[i])
          /\ g = ghost[i] \/ (/\ g.op = req[i].op /\ g.tok = req[i].tok /\ g.wall = req[i].wall)
  <2>1. CASE Abandoned(i) BY <1>1, <2>1, AbandonedFacts
  <2>2. CASE ghost' = ghost BY <1>2, <2>2
  <2> QED BY <2>1, <2>2 DEF AcquireFails, MarkLost, Shutdown, Crash, ReleaseEnds
<1>4. PICK p \in Out, h \in Helds, w \in Watches :
          /\ phase' = [phase EXCEPT ![i] = p]
          /\ held' = [held EXCEPT ![i] = h] \/ (held' = held /\ h = held[i])
          /\ watch' = [watch EXCEPT ![i] = w] \/ (watch' = watch /\ w = watch[i])
          /\ h = held[i] \/ ~h.tok
          /\ w = watch[i] \/ ~w.tok
  <2>1. CASE AcquireFails(i) BY <1>2, <2>1, RecordTypes DEF AcquireFails, Out
  <2>2. CASE MarkLost(i) BY <1>2, <2>2, RecordTypes DEF MarkLost, Lose, Out
  <2>3. CASE Shutdown(i)
    <3>1. PICK p \in Out : phase' = [phase EXCEPT ![i] = p] BY <2>3 DEF Shutdown, Out
    <3> QED BY <1>2, <2>3, <3>1, RecordTypes DEF Shutdown
  <2>4. CASE Crash(i) BY <1>2, <2>4, RecordTypes DEF Crash, Out
  <2>5. CASE ReleaseEnds(i)
    <3>1. PICK p \in Out : phase' = [phase EXCEPT ![i] = p] BY <2>5 DEF ReleaseEnds, Out
    <3> QED BY <1>2, <2>5, <3>1 DEF ReleaseEnds
  <2> QED BY <2>1, <2>2, <2>3, <2>4, <2>5
<1>5. req' = [req EXCEPT ![i] = NoReq] /\ UNCHANGED <<service, lease, misdeleted>>
  BY DEF AcquireFails, MarkLost, Lose, Shutdown, Crash, ReleaseEnds
<1>6. Local(i, p, NoReq, g, h, w)
  <2>1. p \in Phases BY PhaseSets DEF Out
  <2> QED BY <1>1, <1>3, <1>4, <1>5, <2>1, RecordTypes, LocalShape
<1> QED BY <1>3, <1>4, <1>6, DropKeeps

\* take_lease starts, or drops a handle that was lost.
LEMMA StartKeeps ==
    ASSUME IInv, NEW i \in Instances, StartAcquire(i) \/ DropLost(i) PROVE IInv'
<1>1. /\ TypeInv /\ req[i] \in Requests /\ ghost[i] \in Requests
      /\ held[i] \in Helds /\ watch[i] \in Watches /\ ProbeInv(i)
  BY Before DEF IInv
<1>2. PICK p \in Out : /\ phase' = [phase EXCEPT ![i] = p] /\ phase[i] \in {"idle", "lost"}
                       /\ UNCHANGED <<service, lease, misdeleted, req, ghost, held, watch>>
  BY DEF StartAcquire, DropLost, Out
<1>3. req[i].op = "none" BY <1>1, <1>2, OpsFacts DEF ProbeInv
<1>4. p \in Phases BY PhaseSets DEF Out
<1>5. Local(i, p, req[i], ghost[i], held[i], watch[i]) BY <1>1, <1>2, <1>4, LocalShape
<1> QED BY <1>1, <1>3, <1>5, DropKeeps

\* The suspect record is watched from the first look at it on.
LEMMA BlockedKeeps == ASSUME IInv, NEW i \in Instances, Blocked(i) PROVE IInv'
<1>1. /\ TypeInv /\ req[i] \in Requests /\ ghost[i] \in Requests
      /\ held[i] \in Helds /\ watch[i] \in Watches /\ ProbeInv(i) /\ StrictInv(i)
      /\ Premise => \A j \in Instances \ {i} : Claim(j) => Silent(i) /\ 0 =< lease.age
  BY Before DEF IInv
<1>2. [on |-> TRUE, tok |-> TRUE, age |-> 0] \in Watches BY DEF Watches
<1>3. PICK w \in Watches :
          /\ watch' = [watch EXCEPT ![i] = w] /\ phase[i] = "read" /\ phase' = [phase EXCEPT ![i] = "idle"]
          /\ UNCHANGED <<service, lease, misdeleted, req, ghost, held>>
          /\ w = watch[i] \/ ~w.tok \/ w.age = 0
  BY <1>1, <1>2, RecordTypes DEF Blocked
<1>4. req[i].op = "none" BY <1>1, <1>3, OpsFacts DEF ProbeInv
<1>5. "idle" \in Phases BY PhaseSets
<1>6. Local(i, "idle", req[i], ghost[i], held[i], w) BY <1>1, <1>3, <1>5, LocalShape
<1>7. LocalProbe("idle", req[i], held[i])
  BY <1>1, <1>4, OpsFacts, PhaseSets DEF LocalProbe, ProbeInv
<1>8. LocalStrict("idle", req[i], ghost[i], held[i])
  BY <1>1, PhaseSets DEF LocalStrict, StrictInv, Probing
<1>9. LocalClaim(i, "idle", req[i], ghost[i], held[i]) BY PhaseSets DEF LocalClaim, Probing
<1>10. ASSUME Premise, NEW j \in Instances \ {i}, Claim(j)
       PROVE  LocalSilent(req[i], ghost[i], held[i], w)
  BY <1>1, <1>3, <1>10 DEF LocalSilent, Silent
<1> QED BY <1>6, <1>7, <1>8, <1>9, <1>10, LocalKeeps

\* A round sends its PUT: not while somebody else has a claim.
LEMMA SendAcquireKeeps == ASSUME IInv, NEW i \in Instances, SendAcquire(i) PROVE IInv'
<1> DEFINE r == Send(IF lease.there THEN "update" ELSE "create", lease.there, 0, 0)
<1>1. /\ TypeInv /\ ghost[i] \in Requests
      /\ held[i] \in Helds /\ watch[i] \in Watches /\ StrictInv(i)
      /\ Premise => \A j \in Instances \ {i} : Claim(j) => ForeignBlocks(i)
  BY Before DEF IInv
<1>2. /\ req' = [req EXCEPT ![i] = r] /\ phase' = [phase EXCEPT ![i] = "put"] /\ ~ForeignBlocks(i)
      /\ UNCHANGED <<service, lease, misdeleted, ghost, held, watch>>
  BY DEF SendAcquire
<1>3. r \in Requests /\ r.op \in {"create", "update"} /\ r.out = "sent"
  <2>1. lease.there \in BOOLEAN BY <1>1 DEF TypeInv, RecordSet
  <2> QED BY <2>1, SendFacts
<1> HIDE DEF r
<1>4. "put" \in Phases BY PhaseSets
<1>5. Local(i, "put", r, ghost[i], held[i], watch[i]) BY <1>1, <1>2, <1>3, <1>4, LocalShape
<1>6. LocalProbe("put", r, held[i]) BY <1>3, OpsFacts, PhaseSets DEF LocalProbe, Told
<1>7. LocalStrict("put", r, ghost[i], held[i])
  BY <1>1, <1>3, PhaseSets DEF LocalStrict, StrictInv, Probing
<1>8. LocalClaim(i, "put", r, ghost[i], held[i]) BY <1>3, PhaseSets DEF LocalClaim, Probing
<1> QED BY <1>1, <1>2, <1>5, <1>6, <1>7, <1>8, LocalKeeps

LEMMA ConfirmFacts ==
    ASSUME TypeInv, NEW i \in Instances, NEW excl \in {"none", "Conditional", "BestEffort"},
           Confirm(i, excl)
    PROVE  \E h \in Helds : /\ held' = [held EXCEPT ![i] = h]
                            /\ h.tok = req[i].tok /\ h.excl = excl
                            /\ h.wall < Fence(i) => h.wall = req[i].wall
<1> DEFINE h == [tok |-> req[i].tok, mono |-> req[i].mono,
                 wall |-> IF req[i].wall < Fence(i) THEN req[i].wall ELSE Fence(i), excl |-> excl]
<1>1. req[i].tok \in BOOLEAN /\ req[i].mono \in Nat /\ req[i].wall \in Nat
  BY DEF TypeInv, Requests
<1>2. Fence(i) \in Nat BY ClockFacts
<1>3. h \in Helds BY <1>1, <1>2 DEF Helds
<1>4. h.tok = req[i].tok /\ h.excl = excl /\ (h.wall < Fence(i) => h.wall = req[i].wall)
  BY <1>1, <1>2
<1>5. held' = [held EXCEPT ![i] = h] BY DEF Confirm
<1> QED BY <1>3, <1>4, <1>5

\* The conditional PUT is answered.
LEMMA PutAnsweredKeeps == ASSUME IInv, NEW i \in Instances, PutAnswered(i) PROVE IInv'
<1>1. /\ TypeInv /\ req[i] \in Requests /\ ghost[i] \in Requests
      /\ held[i] \in Helds /\ watch[i] \in Watches /\ ProbeInv(i) /\ StrictInv(i)
      /\ Premise => ClaimInv(i) /\ Conditional
      /\ Premise => \A j \in Instances \ {i} : Claim(j) => Silent(i)
  BY Before DEF IInv
<1>2. phase[i] = "put" /\ UNCHANGED <<service, lease, misdeleted, ghost, watch>>
  BY DEF PutAnswered
<1>3. req[i].mono \in Nat /\ req[i].wall \in Nat BY <1>1 DEF Requests
<1>4. CASE req[i].out = "ok"
  <2> DEFINE r == Send("create", FALSE, req[i].mono, req[i].wall)
  <2>1. /\ Confirm(i, "Conditional") /\ req' = [req EXCEPT ![i] = r]
        /\ phase' = [phase EXCEPT ![i] = "probeCreate"]
    BY <1>4 DEF PutAnswered
  <2>2. r \in Requests /\ r.op = "create" /\ ~r.tok /\ r.out = "sent" BY <1>3 DEF Send, Requests
  <2> HIDE DEF r
  <2>3. PICK h \in Helds : /\ held' = [held EXCEPT ![i] = h]
                           /\ h.tok = req[i].tok /\ h.excl = "Conditional"
                           /\ h.wall < Fence(i) => h.wall = req[i].wall
    BY <1>1, <2>1, ConfirmFacts
  <2>4. "probeCreate" \in Phases BY PhaseSets
  <2>5. Local(i, "probeCreate", r, ghost[i], h, watch[i])
    BY <1>1, <1>2, <2>1, <2>2, <2>3, <2>4, LocalShape
  <2>6. LocalProbe("probeCreate", r, h) BY <2>2, OpsFacts, PhaseSets DEF LocalProbe, Told
  <2>7. LocalStrict("probeCreate", r, ghost[i], h)
    BY <1>1, <2>2, <2>3 DEF LocalStrict, StrictInv
  <2>8. ASSUME Premise PROVE LocalClaim(i, "probeCreate", r, ghost[i], h)
    <3>1. h.wall < Fence(i) => Ours(i, h.wall) /\ Alone(i) /\ ~ghost[i].tok
      BY <1>1, <1>2, <1>4, <2>3, <2>8 DEF ClaimInv, ReqClaim
    <3> QED BY <3>1 DEF LocalClaim
  <2>9. ASSUME Premise, NEW j \in Instances \ {i}, Claim(j)
        PROVE  LocalSilent(r, ghost[i], h, watch[i])
    BY <1>1, <2>2, <2>3, <2>9 DEF LocalSilent, Silent
  <2> QED BY <2>5, <2>6, <2>7, <2>8, <2>9, LocalKeeps
<1>5. CASE req[i].out = "refused"
  <2>1. PICK p \in Out : phase' = [phase EXCEPT ![i] = p] BY <1>5 DEF PutAnswered, Out
  <2>2. req' = [req EXCEPT ![i] = NoReq] /\ held' = held BY <1>5 DEF PutAnswered
  <2>3. p \in Phases BY PhaseSets DEF Out
  <2>4. Local(i, p, NoReq, ghost[i], held[i], watch[i])
    BY <1>1, <1>2, <2>1, <2>2, <2>3, RecordTypes, LocalShape
  <2> QED BY <1>1, <2>4, DropKeeps
<1>6. CASE req[i].out = "unimplemented"
  <2> DEFINE r == Send("force", FALSE, req[i].mono, req[i].wall)
  <2>1. req' = [req EXCEPT ![i] = r] /\ phase' = [phase EXCEPT ![i] = "force"] /\ held' = held
    BY <1>6 DEF PutAnswered
  <2>2. r \in Requests /\ r.op = "force" /\ ~r.tok /\ r.out = "sent" BY <1>3 DEF Send, Requests
  <2> HIDE DEF r
  <2>3. ~Conditional BY <1>1, <1>6 DEF StrictInv
  <2>4. "force" \in Phases BY PhaseSets
  <2>5. Local(i, "force", r, ghost[i], held[i], watch[i])
    BY <1>1, <1>2, <2>1, <2>2, <2>4, LocalShape
  <2>6. LocalProbe("force", r, held[i]) BY <2>2, OpsFacts, PhaseSets DEF LocalProbe, Told
  <2>7. LocalStrict("force", r, ghost[i], held[i]) BY <2>3 DEF LocalStrict
  <2> QED BY <1>1, <2>3, <2>5, <2>6, <2>7, LocalKeeps
<1> QED BY <1>4, <1>5, <1>6 DEF PutAnswered

\* The unconditional PUT is answered: not on a service that honours preconditions.
LEMMA ForceAnsweredKeeps == ASSUME IInv, NEW i \in Instances, ForceAnswered(i) PROVE IInv'
<1>1. /\ TypeInv /\ ghost[i] \in Requests /\ ProbeInv(i) /\ StrictInv(i) /\ (Premise => Conditional)
  BY Before DEF IInv
<1>2. /\ phase[i] = "force" /\ UNCHANGED <<service, lease, misdeleted, ghost>>
      /\ Confirm(i, "BestEffort") /\ req' = [req EXCEPT ![i] = NoReq]
      /\ watch' = [watch EXCEPT ![i] = NoWatch] /\ phase' = [phase EXCEPT ![i] = "held"]
  BY DEF ForceAnswered
<1>3. PICK h \in Helds : held' = [held EXCEPT ![i] = h] /\ h.excl = "BestEffort"
  BY <1>1, <1>2, ConfirmFacts
<1>4. ~Conditional BY <1>1, <1>2, OpsFacts DEF ProbeInv, StrictInv
<1>5. "held" \in Phases BY PhaseSets
<1>6. Local(i, "held", NoReq, ghost[i], h, NoWatch)
  BY <1>1, <1>2, <1>3, <1>5, RecordTypes, LocalShape
<1>7. LocalProbe("held", NoReq, h) BY <1>3, OpsFacts, RecordTypes DEF LocalProbe, Told
<1>8. LocalStrict("held", NoReq, ghost[i], h) BY <1>4 DEF LocalStrict
<1> QED BY <1>1, <1>4, <1>6, <1>7, <1>8, LocalKeeps

\* A probe is answered.
LEMMA ProbeAnsweredKeeps == ASSUME IInv, NEW i \in Instances, ProbeAnswered(i) PROVE IInv'
<1>1. /\ TypeInv /\ req[i] \in Requests /\ ghost[i] \in Requests
      /\ held[i] \in Helds /\ watch[i] \in Watches /\ ProbeInv(i) /\ StrictInv(i)
      /\ Premise => ClaimInv(i) /\ Conditional
      /\ Premise => \A j \in Instances \ {i} : Claim(j) => Silent(i)
  BY Before DEF IInv
<1>2. phase[i] \in Probing /\ UNCHANGED <<service, lease, misdeleted, ghost>>
  BY DEF ProbeAnswered, Probing
<1>3. req[i].mono \in Nat /\ req[i].wall \in Nat BY <1>1 DEF Requests
<1>4. CASE req[i].out \in {"refused", "unimplemented"}
  <2> DEFINE r == IF phase[i] = "probeCreate" THEN Send("fake", FALSE, req[i].mono, req[i].wall) ELSE NoReq
             p == IF phase[i] = "probeCreate" THEN "probeUpdate" ELSE "held"
             w == IF phase[i] = "probeCreate" THEN watch[i] ELSE NoWatch
  <2>1. /\ held' = [held EXCEPT ![i].excl = IF req[i].out = "unimplemented" THEN "BestEffort" ELSE @]
        /\ IF phase[i] = "probeCreate"
           THEN /\ req' = [req EXCEPT ![i] = Send("fake", FALSE, req[i].mono, req[i].wall)]
                /\ phase' = [phase EXCEPT ![i] = "probeUpdate"]
                /\ UNCHANGED watch
           ELSE /\ req' = [req EXCEPT ![i] = NoReq]
                /\ phase' = [phase EXCEPT ![i] = "held"]
                /\ watch' = [watch EXCEPT ![i] = NoWatch]
    BY <1>4 DEF ProbeAnswered
  <2>4. PICK h \in Helds :
            /\ held' = [held EXCEPT ![i] = h] /\ h.tok = held[i].tok /\ h.wall = held[i].wall
            /\ h.excl = IF req[i].out = "unimplemented" THEN "BestEffort" ELSE held[i].excl
    <3> DEFINE x == IF req[i].out = "unimplemented" THEN "BestEffort" ELSE held[i].excl
               y == [held[i] EXCEPT !.excl = x]
    <3>1. held' = [held EXCEPT ![i] = y] BY <1>1, <2>1 DEF TypeInv
    <3>2. x \in {"none", "Conditional", "BestEffort"} BY <1>1 DEF Helds
    <3> HIDE DEF x
    <3>3. y \in Helds BY <1>1, <3>2 DEF Helds
    <3>4. y.tok = held[i].tok /\ y.wall = held[i].wall /\ y.excl = x BY <1>1 DEF Helds
    <3> HIDE DEF y
    <3>5. y.excl = IF req[i].out = "unimplemented" THEN "BestEffort" ELSE held[i].excl
      BY <3>4 DEF x
    <3> QED BY <3>1, <3>3, <3>4, <3>5
  <2>5. /\ phase' = [phase EXCEPT ![i] = p] /\ req' = [req EXCEPT ![i] = r]
        /\ watch' = [watch EXCEPT ![i] = w] \/ (watch' = watch /\ w = watch[i])
    BY <2>1
  <2>6. r \in Requests /\ ~r.tok /\ r.out \in {"sent", "none"} /\ r.op \in {"fake", "none"}
    <3>1. CASE phase[i] = "probeCreate"
      BY <1>3, <3>1 DEF Send, Requests
    <3>2. CASE phase[i] # "probeCreate" BY <3>2, RecordTypes
    <3> QED BY <3>1, <3>2
  <2>7. /\ phase[i] = "probeCreate" => r.op = "fake" /\ r.out = "sent" /\ p = "probeUpdate" /\ w = watch[i]
        /\ phase[i] # "probeCreate" => r = NoReq /\ p = "held" /\ w = NoWatch /\ phase[i] = "probeUpdate"
    BY <1>2 DEF Probing, Send
  <2>8. w \in Watches /\ p \in Phases BY <1>1, RecordTypes, PhaseSets
  <2> HIDE DEF r, p, w
  <2>9. Local(i, p, r, ghost[i], h, w)
    BY <1>1, <1>2, <2>4, <2>5, <2>6, <2>8, LocalShape
  <2>10. LocalProbe(p, r, h)
    <3>1. CASE phase[i] = "probeCreate"
      <4>1. req[i].op = "create" BY <1>1, <3>1, OpsFacts DEF ProbeInv
      <4>2. h.excl = "Conditional" => service.create = "honours"
        BY <1>1, <1>4, <2>4, <4>1 DEF ProbeInv, Told
      <4> QED BY <2>7, <3>1, <4>2, OpsFacts, PhaseSets DEF LocalProbe, Told
    <3>2. CASE phase[i] # "probeCreate"
      <4>1. req[i].op = "fake" BY <1>1, <2>7, <3>2, OpsFacts DEF ProbeInv
      <4>2. h.excl = "Conditional" => held[i].excl = "Conditional" /\ req[i].out = "refused"
        BY <1>4, <2>4
      <4>3. h.excl = "Conditional" => service.create = "honours" /\ service.update = "honours"
        BY <1>1, <2>7, <3>2, <4>1, <4>2 DEF ProbeInv, Told
      <4> QED BY <2>7, <3>2, <4>3, OpsFacts, RecordTypes DEF LocalProbe, Told
    <3> QED BY <3>1, <3>2
  <2>11. LocalStrict(p, r, ghost[i], h) BY <1>1, <1>2, <2>4, <2>6 DEF LocalStrict, StrictInv
  <2>12. ASSUME Premise PROVE LocalClaim(i, p, r, ghost[i], h)
    <3>1. p \in {"probeUpdate", "held"} BY <2>7
    <3>2. h.wall < Fence(i) => /\ Ours(i, h.wall) /\ Alone(i)
                               /\ ghost[i].tok => ghost[i].op = "update" /\ ghost[i].wall =< h.wall
      BY <1>1, <1>2, <2>4, <2>12 DEF ClaimInv, HeldClaim
    <3>3. p \notin {"put", "renew", "reread", "reswap"} BY <3>1
    <3> QED BY <3>2, <3>3 DEF LocalClaim
  <2>13. ASSUME Premise, NEW j \in Instances \ {i}, Claim(j)
         PROVE  LocalSilent(r, ghost[i], h, w)
    BY <1>1, <2>4, <2>6, <2>7, <2>13, RecordTypes DEF LocalSilent, Silent
  <2> QED BY <2>9, <2>10, <2>11, <2>12, <2>13, LocalKeeps
<1>5. CASE req[i].out = "ok"
  <2>1. /\ held' = [held EXCEPT ![i] = NotHeld] /\ req' = [req EXCEPT ![i] = NoReq]
        /\ phase' = [phase EXCEPT ![i] = "handback"] /\ watch' = watch
    BY <1>5 DEF ProbeAnswered
  <2>2. "handback" \in Phases /\ "handback" \in Out BY PhaseSets DEF Out
  <2>3. Local(i, "handback", NoReq, ghost[i], NotHeld, watch[i])
    BY <1>1, <1>2, <2>1, <2>2, RecordTypes, LocalShape
  <2> QED BY <1>1, <2>2, <2>3, RecordTypes, DropKeeps
<1> QED BY <1>4, <1>5 DEF ProbeAnswered

\* The renewal is sent.
LEMMA SendRenewKeeps == ASSUME IInv, NEW i \in Instances, SendRenew(i) PROVE IInv'
<1>1. /\ TypeInv /\ req[i] \in Requests /\ ghost[i] \in Requests
      /\ held[i] \in Helds /\ watch[i] \in Watches /\ ProbeInv(i) /\ StrictInv(i)
      /\ Premise => ClaimInv(i) /\ Conditional
      /\ Premise => \A j \in Instances \ {i} : Claim(j) => Silent(i) /\ lease.id = j
  BY Before DEF IInv
<1>2. phase[i] = "held" /\ UNCHANGED <<service, lease, misdeleted, ghost, held, watch>>
  BY DEF SendRenew
<1>3. held[i].tok \in BOOLEAN /\ held[i].wall \in Nat BY <1>1 DEF Helds
<1>4. CASE held[i].excl = "Conditional"
  <2> DEFINE r == Send("update", held[i].tok, 0, 0)
  <2>1. req' = [req EXCEPT ![i] = r] /\ phase' = [phase EXCEPT ![i] = "renew"]
    BY <1>4 DEF SendRenew
  <2>2. r \in Requests /\ r.op = "update" /\ r.tok = held[i].tok /\ r.out = "sent" /\ r.wall = 0
    BY <1>3 DEF Send, Requests
  <2> HIDE DEF r
  <2>3. "renew" \in Phases BY PhaseSets
  <2>4. Local(i, "renew", r, ghost[i], held[i], watch[i])
    BY <1>1, <1>2, <2>1, <2>2, <2>3, LocalShape
  <2>5. LocalProbe("renew", r, held[i])
    BY <1>1, <1>2, <2>2, OpsFacts, PhaseSets DEF LocalProbe, ProbeInv, Told
  <2>6. LocalStrict("renew", r, ghost[i], held[i])
    BY <1>1, <1>4, <2>2 DEF LocalStrict, StrictInv
  <2>7. ASSUME Premise PROVE LocalClaim(i, "renew", r, ghost[i], held[i])
    <3>1. phase[i] \in Holding BY <1>2, PhaseSets
    <3>2. held[i].wall < Fence(i) =>
             /\ Ours(i, held[i].wall) /\ Alone(i)
             /\ ghost[i].tok => ghost[i].op = "update" /\ ghost[i].wall =< held[i].wall
      BY <1>1, <2>7, <3>1 DEF ClaimInv, HeldClaim
    <3>3. r.wall =< held[i].wall BY <1>3, <2>2
    <3> QED BY <2>2, <3>2, <3>3 DEF LocalClaim
  <2>8. ASSUME Premise, NEW j \in Instances \ {i}, Claim(j)
        PROVE  LocalSilent(r, ghost[i], held[i], watch[i])
    BY <1>1, <2>2, <2>8 DEF LocalSilent, Silent
  <2> QED BY <2>4, <2>5, <2>6, <2>7, <2>8, LocalKeeps
<1>5. CASE held[i].excl # "Conditional"
  <2> DEFINE r == [Send("force", FALSE, 0, 0) EXCEPT !.out = "none"]
  <2>1. req' = [req EXCEPT ![i] = r] /\ phase' = [phase EXCEPT ![i] = "beRead"]
    BY <1>5 DEF SendRenew
  <2>2. r \in Requests /\ r.op = "force" /\ r.out = "none"
    BY DEF Send, Requests
  <2> HIDE DEF r
  <2>3. ~Conditional BY <1>1, <1>2, <1>5, PhaseSets DEF StrictInv
  <2>4. "beRead" \in Phases BY PhaseSets
  <2>5. Local(i, "beRead", r, ghost[i], held[i], watch[i])
    BY <1>1, <1>2, <2>1, <2>2, <2>4, LocalShape
  <2>6. LocalProbe("beRead", r, held[i]) BY <1>5, <2>2, OpsFacts DEF LocalProbe, Told
  <2>7. LocalStrict("beRead", r, ghost[i], held[i]) BY <2>3 DEF LocalStrict
  <2> QED BY <1>1, <2>3, <2>5, <2>6, <2>7, LocalKeeps
<1> QED BY <1>4, <1>5

\* A holder gives up.
LEMMA LoseKeeps ==
    ASSUME IInv, NEW i \in Instances, Lose(i), UNCHANGED <<service, lease, misdeleted, ghost, watch>>
    PROVE  IInv'
<1>1. TypeInv /\ ghost[i] \in Requests /\ watch[i] \in Watches BY Before DEF IInv
<1>2. "lost" \in Phases /\ "lost" \in Out BY PhaseSets DEF Out
<1>3. Local(i, "lost", NoReq, ghost[i], NotHeld, watch[i])
  BY <1>1, <1>2, RecordTypes, LocalShape DEF Lose
<1> QED BY <1>1, <1>2, <1>3, RecordTypes, DropKeeps

\* The renewal is answered.
LEMMA RenewAnsweredKeeps == ASSUME IInv, NEW i \in Instances, RenewAnswered(i) PROVE IInv'
<1>1. /\ TypeInv /\ req[i] \in Requests /\ ghost[i] \in Requests
      /\ held[i] \in Helds /\ watch[i] \in Watches /\ ProbeInv(i) /\ StrictInv(i)
      /\ Premise => ClaimInv(i) /\ Conditional
      /\ Premise => \A j \in Instances \ {i} : Claim(j) => Silent(i) /\ lease.id = j
  BY Before DEF IInv
<1>2. phase[i] \in {"renew", "reswap", "bePut"} /\ UNCHANGED <<service, lease, misdeleted, ghost, watch>>
  BY DEF RenewAnswered
<1>3. phase[i] \in Holding BY <1>2, PhaseSets
<1>4. CASE req[i].out = "ok"
  <2>1. /\ Confirm(i, held[i].excl) /\ req' = [req EXCEPT ![i] = NoReq]
        /\ phase' = [phase EXCEPT ![i] = "held"]
    BY <1>4 DEF RenewAnswered
  <2>2. held[i].excl \in {"none", "Conditional", "BestEffort"} BY <1>1 DEF Helds
  <2>3. PICK h \in Helds : /\ held' = [held EXCEPT ![i] = h]
                           /\ h.tok = req[i].tok /\ h.excl = held[i].excl
                           /\ h.wall < Fence(i) => h.wall = req[i].wall
    BY <1>1, <2>1, <2>2, ConfirmFacts
  <2>4. "held" \in Phases BY PhaseSets
  <2>5. Local(i, "held", NoReq, ghost[i], h, watch[i])
    BY <1>1, <1>2, <2>1, <2>3, <2>4, RecordTypes, LocalShape
  <2>6. LocalProbe("held", NoReq, h)
    BY <1>1, <1>3, <2>3, OpsFacts, RecordTypes DEF LocalProbe, ProbeInv, Told
  <2>7. LocalStrict("held", NoReq, ghost[i], h)
    BY <1>1, <1>3, <2>3, RecordTypes DEF LocalStrict, StrictInv
  <2>8. ASSUME Premise PROVE LocalClaim(i, "held", NoReq, ghost[i], h)
    <3>1. phase[i] # "bePut" BY <1>1, <2>8, OpsFacts DEF ProbeInv, StrictInv
    <3>2. h.wall < Fence(i) => Ours(i, h.wall) /\ Alone(i) /\ ~ghost[i].tok
      BY <1>1, <1>2, <1>4, <2>3, <2>8, <3>1 DEF ClaimInv, ReqClaim
    <3> QED BY <3>2 DEF LocalClaim
  <2>9. ASSUME Premise, NEW j \in Instances \ {i}, Claim(j)
        PROVE  LocalSilent(NoReq, ghost[i], h, watch[i])
    BY <1>1, <2>3, <2>9, RecordTypes DEF LocalSilent, Silent
  <2> QED BY <2>5, <2>6, <2>7, <2>8, <2>9, LocalKeeps
<1>5. CASE req[i].out = "refused" /\ phase[i] = "renew" /\ phase' = [phase EXCEPT ![i] = "reread"]
  <2>1. req' = [req EXCEPT ![i].out = "none"] /\ held' = held
    <3>1. ~Lose(i)
      <4>1. phase'[i] = "reread" BY <1>1, <1>5 DEF TypeInv
      <4>2. Lose(i) => phase'[i] = "lost" BY <1>1 DEF Lose, TypeInv
      <4> QED BY <4>1, <4>2
    <3> QED BY <1>5, <3>1 DEF RenewAnswered
  <2>2. PICK r \in Requests : /\ req' = [req EXCEPT ![i] = r] /\ r.op = req[i].op /\ r.out = "none"
                              /\ r.tok = req[i].tok /\ r.wall = req[i].wall
    <3> DEFINE y == [req[i] EXCEPT !.out = "none"]
    <3>1. req' = [req EXCEPT ![i] = y] BY <1>1, <2>1 DEF TypeInv
    <3>2. y \in Requests BY <1>1 DEF Requests
    <3>3. y.op = req[i].op /\ y.out = "none" /\ y.tok = req[i].tok /\ y.wall = req[i].wall
      BY <1>1 DEF Requests
    <3> HIDE DEF y
    <3> QED BY <3>1, <3>2, <3>3
  <2>3. "reread" \in Phases BY PhaseSets
  <2>4. Local(i, "reread", r, ghost[i], held[i], watch[i])
    BY <1>1, <1>2, <1>5, <2>1, <2>2, <2>3, LocalShape
  <2>5. LocalProbe("reread", r, held[i])
    BY <1>1, <1>3, <1>5, <2>2, OpsFacts DEF LocalProbe, ProbeInv, Told
  <2>6. LocalStrict("reread", r, ghost[i], held[i])
    BY <1>1, <1>3, <2>2 DEF LocalStrict, StrictInv
  <2>7. ASSUME Premise PROVE LocalClaim(i, "reread", r, ghost[i], held[i])
    <3>1. held[i].wall < Fence(i) =>
             /\ Ours(i, held[i].wall) /\ Alone(i) /\ r.wall =< held[i].wall
             /\ ghost[i].tok => ghost[i].op = "update" /\ ghost[i].wall =< held[i].wall
      BY <1>1, <1>3, <1>5, <2>2, <2>7 DEF ClaimInv, HeldClaim
    <3> QED BY <3>1 DEF LocalClaim
  <2>8. ASSUME Premise, NEW j \in Instances \ {i}, Claim(j)
        PROVE  LocalSilent(r, ghost[i], held[i], watch[i])
    BY <1>1, <2>2, <2>8 DEF LocalSilent, Silent
  <2> QED BY <2>4, <2>5, <2>6, <2>7, <2>8, LocalKeeps
<1>6. CASE Lose(i) BY <1>2, <1>6, LoseKeeps
<1> QED BY <1>4, <1>5, <1>6 DEF RenewAnswered

\* The holder reads its record again before it writes it again.
LEMMA RereadKeeps == ASSUME IInv, NEW i \in Instances, Reread(i) PROVE IInv'
<1>1. /\ TypeInv /\ req[i] \in Requests /\ ghost[i] \in Requests
      /\ held[i] \in Helds /\ watch[i] \in Watches /\ ProbeInv(i) /\ StrictInv(i)
      /\ Premise => ClaimInv(i) /\ Conditional
      /\ Premise => \A j \in Instances \ {i} : Claim(j) => Silent(i) /\ lease.id = j
  BY Before DEF IInv
<1>2. phase[i] \in {"reread", "beRead"} /\ UNCHANGED <<service, lease, misdeleted, ghost, watch>>
  BY DEF Reread
<1>3. phase[i] \in Holding BY <1>2, PhaseSets
<1>4. CASE NamesUs(i)
  <2> DEFINE r == Send(IF phase[i] = "reread" THEN "update" ELSE "force",
                       phase[i] = "reread", req[i].mono, req[i].wall)
             p == IF phase[i] = "reread" THEN "reswap" ELSE "bePut"
  <2>1. req' = [req EXCEPT ![i] = r] /\ phase' = [phase EXCEPT ![i] = p] /\ held' = held
    BY <1>4 DEF Reread
  <2>2. req[i].mono \in Nat /\ req[i].wall \in Nat BY <1>1 DEF Requests
  <2>3. /\ r \in Requests /\ r.out = "sent" /\ r.wall = req[i].wall
        /\ r.op = IF phase[i] = "reread" THEN "update" ELSE "force"
    BY <2>2 DEF Send, Requests
  <2>4. p \in Phases /\ p = IF phase[i] = "reread" THEN "reswap" ELSE "bePut" BY PhaseSets
  <2> HIDE DEF r, p
  <2>5. Local(i, p, r, ghost[i], held[i], watch[i])
    BY <1>1, <1>2, <2>1, <2>3, <2>4, LocalShape
  <2>6. LocalProbe(p, r, held[i])
    BY <1>1, <1>2, <1>3, <2>3, <2>4, OpsFacts DEF LocalProbe, ProbeInv, Told
  <2>7. Conditional => phase[i] = "reread"
    BY <1>1, <1>2, OpsFacts DEF ProbeInv, StrictInv
  <2>8. LocalStrict(p, r, ghost[i], held[i])
    BY <1>1, <1>3, <2>3, <2>7 DEF LocalStrict, StrictInv
  <2>9. ASSUME Premise PROVE LocalClaim(i, p, r, ghost[i], held[i])
    <3>1. held[i].wall < Fence(i) =>
             /\ Ours(i, held[i].wall) /\ Alone(i) /\ r.wall =< held[i].wall
             /\ ghost[i].tok => ghost[i].op = "update" /\ ghost[i].wall =< held[i].wall
      BY <1>1, <1>3, <2>3, <2>7, <2>9 DEF ClaimInv, HeldClaim
    <3> QED BY <2>3, <3>1 DEF LocalClaim
  <2>10. ASSUME Premise, NEW j \in Instances \ {i}, Claim(j) PROVE FALSE
    BY <1>1, <1>4, <2>10 DEF NamesUs
  <2> QED BY <2>5, <2>6, <2>8, <2>9, <2>10, LocalKeeps
<1>5. CASE ~NamesUs(i) BY <1>2, <1>5, LoseKeeps DEF Reread
<1> QED BY <1>4, <1>5

\* A renewal fails: the holder stays what it is, its request may land later.
LEMMA RenewFailsKeeps == ASSUME IInv, NEW i \in Instances, RenewFails(i) PROVE IInv'
<1>1. /\ TypeInv /\ req[i] \in Requests /\ ghost[i] \in Requests
      /\ held[i] \in Helds /\ watch[i] \in Watches /\ ProbeInv(i) /\ StrictInv(i)
      /\ Premise => ClaimInv(i) /\ Conditional
      /\ Premise => \A j \in Instances \ {i} : Claim(j) => Silent(i) /\ lease.id = j
  BY Before DEF IInv
<1>2. /\ phase[i] \in Renewing /\ UNCHANGED <<service, lease, misdeleted, held, watch>>
      /\ Abandoned(i) /\ req' = [req EXCEPT ![i] = NoReq] /\ phase' = [phase EXCEPT ![i] = "held"]
  BY DEF RenewFails
<1>3. phase[i] \in Holding BY <1>2, PhaseSets
<1>4. PICK g \in Requests :
          /\ ghost' = [ghost EXCEPT ![i] = g] \/ (ghost' = ghost /\ g = ghost[i])
          /\ g = ghost[i] \/ (/\ g.op = req[i].op /\ g.tok = req[i].tok /\ g.wall = req[i].wall)
  BY <1>1, <1>2, AbandonedFacts
<1>5. "held" \in Phases BY PhaseSets
<1>6. Local(i, "held", NoReq, g, held[i], watch[i])
  BY <1>1, <1>2, <1>4, <1>5, RecordTypes, LocalShape
<1>7. LocalProbe("held", NoReq, held[i])
  BY <1>1, <1>3, OpsFacts, RecordTypes DEF LocalProbe, ProbeInv, Told
<1>8. LocalStrict("held", NoReq, g, held[i])
  BY <1>1, <1>3, <1>4, RecordTypes DEF LocalStrict, StrictInv
<1>9. ASSUME Premise PROVE LocalClaim(i, "held", NoReq, g, held[i])
  <2>1. phase[i] \in {"renew", "reread", "reswap"} /\ req[i].op = "update"
    BY <1>1, <1>2, <1>9, PhaseSets, OpsFacts DEF ProbeInv, StrictInv
  <2>2. held[i].wall < Fence(i) =>
             /\ Ours(i, held[i].wall) /\ Alone(i)
             /\ g.tok => g.op = "update" /\ g.wall =< held[i].wall
    BY <1>1, <1>3, <1>4, <1>9, <2>1 DEF ClaimInv, HeldClaim
  <2> QED BY <2>2 DEF LocalClaim
<1>10. ASSUME Premise, NEW j \in Instances \ {i}, Claim(j)
       PROVE  LocalSilent(NoReq, g, held[i], watch[i])
  BY <1>1, <1>4, <1>10, RecordTypes DEF LocalSilent, Silent
<1> QED BY <1>6, <1>7, <1>8, <1>9, <1>10, LocalKeeps

\* A release reads LEASE, and deletes its own record only.
LEMMA ReadReleaseKeeps == ASSUME IInv, NEW i \in Instances, ReadRelease(i) PROVE IInv'
<1>1. /\ TypeInv /\ req[i] \in Requests /\ ghost[i] \in Requests
      /\ held[i] \in Helds /\ watch[i] \in Watches /\ ProbeInv(i) /\ StrictInv(i)
      /\ Premise => ClaimInv(i) /\ Conditional
      /\ Premise => \A j \in Instances \ {i} : Claim(j) => Silent(i) /\ lease.id = j
  BY Before DEF IInv
<1>2. /\ phase[i] \in {"release", "handback"} /\ req[i] = NoReq
      /\ UNCHANGED <<service, lease, misdeleted, ghost, held, watch>>
  BY DEF ReadRelease
<1>3. CASE NamesUs(i)
  <2> DEFINE r == Send("delete", TRUE, 0, 0)
  <2>1. r \in Requests /\ r.op = "delete" /\ r.out = "sent" BY DEF Send, Requests
  <2>2. PICK p \in {"delete", "handback"} :
            req' = [req EXCEPT ![i] = r] /\ phase' = [phase EXCEPT ![i] = p]
    BY <1>3 DEF ReadRelease
  <2> HIDE DEF r
  <2>3. p \in Phases BY PhaseSets
  <2>4. Local(i, p, r, ghost[i], held[i], watch[i])
    BY <1>1, <1>2, <2>1, <2>2, <2>3, LocalShape
  <2>5. LocalProbe(p, r, held[i]) BY <2>1, OpsFacts, PhaseSets DEF LocalProbe, Told
  <2>6. LocalStrict(p, r, ghost[i], held[i])
    BY <1>1, <2>1, PhaseSets DEF LocalStrict, StrictInv, Probing
  <2>7. LocalClaim(i, p, r, ghost[i], held[i]) BY PhaseSets DEF LocalClaim, Probing
  <2>8. ASSUME Premise, NEW j \in Instances \ {i}, Claim(j) PROVE FALSE
    BY <1>1, <1>3, <2>8 DEF NamesUs
  <2> QED BY <2>4, <2>5, <2>6, <2>7, <2>8, LocalKeeps
<1>4. CASE ~NamesUs(i)
  <2>1. PICK p \in Out : phase' = [phase EXCEPT ![i] = p] BY <1>4 DEF ReadRelease, Out
  <2>2. p \in Phases BY PhaseSets DEF Out
  <2>3. req' = req BY <1>4 DEF ReadRelease
  <2>4. Local(i, p, req[i], ghost[i], held[i], watch[i])
    BY <1>1, <1>2, <2>1, <2>2, <2>3, LocalShape
  <2> QED BY <1>1, <1>2, <2>4, DropKeeps
<1> QED BY <1>3, <1>4

-----------------------------------------------------------------------------
(* A request lands.                                                        *)

\* The request q of instance i is accepted, and i waits for it or does not.
Landing(i, q, waits) ==
    /\ UNCHANGED <<service, phase>>
    /\ lease' = IF q.op = "delete" THEN NoLease ELSE Record(i, q.wall)
    /\ misdeleted' = IF q.op = "delete" /\ lease.there /\ ~q.tok /\ lease.id \in Instances
                     THEN misdeleted \cup {lease.id} ELSE misdeleted
    /\ req' \in [Instances -> Requests] /\ ghost' \in [Instances -> Requests]
    /\ held' \in [Instances -> Helds] /\ watch' \in [Instances -> Watches]
    /\ \A j \in Instances :
          /\ req'[j].op = req[j].op /\ req'[j].wall = req[j].wall
          /\ req'[j].out = req[j].out \/ (j = i /\ waits /\ req'[j].out = "ok")
          /\ j # i => ~req'[j].tok
          /\ ~ghost'[j].tok /\ ghost'[j].op \in {ghost[j].op, "none"}
          /\ ~held'[j].tok /\ held'[j].wall = held[j].wall /\ held'[j].excl = held[j].excl
          /\ ~watch'[j].tok

\* What is known of a request of i that is under way.
UnderWay(i, q, waits) ==
    /\ q \in Requests /\ q.op # "none"
    /\ Conditional => q.op # "force"
    /\ Premise /\ q.op # "create" /\ q.tok =>
          /\ HeldClaim(i) => q.op = "update" /\ q.wall =< held[i].wall
          /\ ~ReqClaim(i)
    /\ Premise => \A j \in Instances \ {i} : Claim(j) => ~q.tok
    /\ waits => req[i] = q /\ q.out = "sent" /\ (phase[i] \in {"put", "renew", "reswap"} => q.op # "delete")

LEMMA LandingKeeps ==
    ASSUME IInv, NEW i \in Instances, NEW q, NEW waits, UnderWay(i, q, waits), Verdict(q) = "ok",
           Landing(i, q, waits)
    PROVE  IInv'
<1>1. /\ TypeInv /\ \A j \in Instances : ProbeInv(j) /\ StrictInv(j) /\ (Premise => ClaimInv(j))
  BY DEF IInv
<1>2. /\ q \in Requests /\ q.op # "none" /\ q.wall \in Nat /\ q.tok \in BOOLEAN
      /\ q.op \in {"none", "create", "update", "fake", "force", "delete"}
  BY DEF UnderWay, Requests
<1>3. UNCHANGED <<service, phase>> BY DEF Landing
<1>4. /\ \A j \in Instances :
          /\ req'[j].op = req[j].op /\ req'[j].wall = req[j].wall
          /\ req'[j].out = req[j].out \/ (j = i /\ waits /\ req'[j].out = "ok")
          /\ j # i => ~req'[j].tok
          /\ ~ghost'[j].tok /\ ghost'[j].op \in {ghost[j].op, "none"}
          /\ ~held'[j].tok /\ held'[j].wall = held[j].wall /\ held'[j].excl = held[j].excl
          /\ ~watch'[j].tok
  BY DEF Landing
<1>5. TypeInv'
  <2>1. lease' \in RecordSet
    <3>1. Record(i, q.wall) \in RecordSet BY <1>2, RecordFacts
    <3> QED BY <3>1, RecordTypes DEF Landing
  <2>2. misdeleted' \subseteq Instances BY <1>1 DEF Landing, TypeInv
  <2> QED BY <1>1, <1>3, <2>1, <2>2 DEF Landing, TypeInv
<1>6. ASSUME NEW j \in Instances PROVE ProbeInv(j)' /\ StrictInv(j)'
  <2>1. ProbeInv(j) /\ StrictInv(j) BY <1>1
  <2>2. Told(req[j])'
    BY <1>2, <1>3, <1>4, <2>1 DEF ProbeInv, Told, UnderWay
  <2>3. Conditional' = Conditional BY <1>3 DEF Conditional
  <2> QED BY <1>3, <1>4, <2>1, <2>2, <2>3 DEF ProbeInv, StrictInv
<1>7. ASSUME Premise' PROVE \A j \in Instances : ClaimInv(j)'
  <2>1. /\ Premise
        /\ q.op = "delete" /\ lease.there /\ lease.id \in Instances => q.tok
    <3>1. misdeleted \subseteq misdeleted' BY DEF Landing
    <3>2. misdeleted = {} BY <1>7, <3>1 DEF Premise
    <3>3. q.op = "delete" /\ lease.there /\ lease.id \in Instances => q.tok
      BY <1>2, <1>7 DEF Landing, Premise
    <3> QED BY <1>3, <1>7, <3>2, <3>3 DEF Premise, Conditional, SkewAbsorbed
  <2>2. Conditional BY <2>1 DEF Premise
  <2>3. /\ q.op \in {"create", "update", "delete"}
        /\ q.op = "create" => ~lease.there
        /\ q.op = "update" => q.tok
    BY <1>1, <1>2, <2>2, VerdictFacts DEF UnderWay, TypeInv
  <2>4. ASSUME NEW j \in Instances PROVE HeldClaim(j)' = HeldClaim(j)
    BY <1>3, <1>4 DEF HeldClaim
  <2>5. ASSUME NEW j \in Instances, ReqClaim(j)'
        PROVE  ReqClaim(j) \/ (j = i /\ q.op # "delete" /\ req[i].wall = q.wall)
    <3>1. CASE req'[j].out = req[j].out BY <1>3, <1>4, <2>5, <3>1 DEF ReqClaim
    <3>2. CASE j = i /\ waits BY <1>3, <2>5, <3>2 DEF ReqClaim, UnderWay
    <3> QED BY <1>4, <3>1, <3>2
  <2>6. ASSUME NEW j \in Instances, Claim(j)
        PROVE  j = i /\ q.op = "update" /\ ~ReqClaim(i) /\ q.wall =< held[i].wall
    <3>1. lease.there /\ lease.id = j
      BY <1>1, <2>1, <2>6 DEF Claim, ClaimInv, Ours
    <3>2. q.op # "create" /\ q.tok BY <2>1, <2>3, <3>1
    <3>3. j = i BY <2>1, <2>6, <3>2 DEF UnderWay
    <3> QED BY <2>1, <2>6, <3>2, <3>3 DEF UnderWay, Claim
  <2>7. ASSUME NEW j \in Instances PROVE Alone(j)' \/ j # i
    BY <1>4 DEF Alone
  <2>8. q.op # "delete" => /\ lease'.there /\ lease'.parses /\ lease'.id = i /\ lease'.ttl = Ttl[i]
                           /\ lease'.age = q.wall
    <3>1. q.op # "delete" => lease' = Record(i, q.wall) BY DEF Landing
    <3> QED BY <1>2, <3>1, RecordFacts
  <2>9. ASSUME NEW j \in Instances, HeldClaim(j)'
        PROVE  /\ Ours(j, held[j].wall)' /\ Alone(j)' /\ ~ghost'[j].tok
               /\ phase'[j] \in {"renew", "reread", "reswap"} => req'[j].wall =< held'[j].wall
    <3>1. HeldClaim(j) BY <2>4, <2>9
    <3>2. j = i /\ q.op = "update" /\ q.wall =< held[i].wall BY <2>6, <3>1 DEF Claim
    <3>3. ClaimInv(j) BY <1>1, <2>1
    <3>4. Ours(j, held[j].wall)' BY <1>2, <1>4, <2>8, <3>2 DEF Ours
    <3>5. phase'[j] \in {"renew", "reread", "reswap"} => req'[j].wall =< held'[j].wall
      BY <1>3, <1>4, <3>1, <3>3 DEF ClaimInv
    <3> QED BY <1>4, <2>7, <3>2, <3>4, <3>5
  <2>10. ASSUME NEW j \in Instances, ReqClaim(j)'
         PROVE  Ours(j, req[j].wall)' /\ Alone(j)' /\ ~ghost'[j].tok
    <3>1. ~ReqClaim(j) BY <2>6 DEF Claim
    <3>2. j = i /\ q.op # "delete" /\ req[i].wall = q.wall BY <2>5, <2>10, <3>1
    <3>3. Ours(j, req[j].wall)' BY <1>2, <1>4, <2>8, <3>2 DEF Ours
    <3> QED BY <1>4, <2>7, <3>2, <3>3
  <2> QED BY <2>9, <2>10 DEF ClaimInv
<1> QED BY <1>5, <1>6, <1>7 DEF IInv

\* The versions remembered before an accepted write.
LEMMA OutdatedFacts ==
    ASSUME TypeInv
    PROVE  /\ Outdated(req) \in [Instances -> Requests]
           /\ \A j \in Instances : /\ ~Outdated(req)[j].tok /\ Outdated(req)[j].op = req[j].op
                                   /\ Outdated(req)[j].wall = req[j].wall /\ Outdated(req)[j].out = req[j].out
           /\ Pending(Outdated(ghost)) \in [Instances -> Requests]
           /\ \A j \in Instances : /\ ~Pending(Outdated(ghost))[j].tok
                                   /\ Pending(Outdated(ghost))[j].op \in {ghost[j].op, "none"}
           /\ Outdated(held) \in [Instances -> Helds]
           /\ \A j \in Instances : /\ ~Outdated(held)[j].tok /\ Outdated(held)[j].wall = held[j].wall
                                   /\ Outdated(held)[j].excl = held[j].excl
           /\ Outdated(watch) \in [Instances -> Watches]
           /\ \A j \in Instances : ~Outdated(watch)[j].tok
<1>1. ASSUME NEW r \in Requests
      PROVE  /\ [r EXCEPT !.tok = FALSE] \in Requests /\ ~[r EXCEPT !.tok = FALSE].tok
             /\ [r EXCEPT !.tok = FALSE].op = r.op /\ [r EXCEPT !.tok = FALSE].wall = r.wall
             /\ [r EXCEPT !.tok = FALSE].out = r.out
  BY DEF Requests
<1>2. ASSUME NEW r \in Helds
      PROVE  /\ [r EXCEPT !.tok = FALSE] \in Helds /\ ~[r EXCEPT !.tok = FALSE].tok
             /\ [r EXCEPT !.tok = FALSE].excl = r.excl /\ [r EXCEPT !.tok = FALSE].wall = r.wall
  BY DEF Helds
<1>3. ASSUME NEW r \in Watches
      PROVE  [r EXCEPT !.tok = FALSE] \in Watches /\ ~[r EXCEPT !.tok = FALSE].tok
  BY DEF Watches
<1>4. /\ \A j \in Instances : req[j] \in Requests /\ ghost[j] \in Requests
      /\ \A j \in Instances : held[j] \in Helds /\ watch[j] \in Watches
  BY DEF TypeInv
<1>5. /\ Outdated(req) \in [Instances -> Requests]
      /\ \A j \in Instances : Outdated(req)[j] = [req[j] EXCEPT !.tok = FALSE]
  BY <1>1, <1>4 DEF Outdated
<1>6. /\ Outdated(held) \in [Instances -> Helds]
      /\ \A j \in Instances : Outdated(held)[j] = [held[j] EXCEPT !.tok = FALSE]
  BY <1>2, <1>4 DEF Outdated
<1>7. /\ Outdated(watch) \in [Instances -> Watches]
      /\ \A j \in Instances : Outdated(watch)[j] = [watch[j] EXCEPT !.tok = FALSE]
  BY <1>3, <1>4 DEF Outdated
<1>8. /\ Outdated(ghost) \in [Instances -> Requests]
      /\ \A j \in Instances : Outdated(ghost)[j] = [ghost[j] EXCEPT !.tok = FALSE]
  BY <1>1, <1>4 DEF Outdated
<1>9. \A j \in Instances : ~Outdated(ghost)[j].tok /\ Outdated(ghost)[j].op = ghost[j].op
  BY <1>1, <1>4, <1>8
<1> DEFINE G == Outdated(ghost)
<1> HIDE DEF G
<1>10. /\ Pending(G) \in [Instances -> Requests]
       /\ \A j \in Instances : Pending(G)[j] = NoReq \/ Pending(G)[j] = G[j]
  BY <1>8, RecordTypes DEF Pending, G
<1>11. \A j \in Instances : /\ ~Pending(G)[j].tok /\ Pending(G)[j].op \in {ghost[j].op, "none"}
  BY <1>9, <1>10, RecordTypes DEF G
<1>12. \A j \in Instances : /\ ~Outdated(req)[j].tok /\ Outdated(req)[j].op = req[j].op
                            /\ Outdated(req)[j].wall = req[j].wall /\ Outdated(req)[j].out = req[j].out
  BY <1>1, <1>4, <1>5
<1>13. \A j \in Instances : /\ ~Outdated(held)[j].tok /\ Outdated(held)[j].wall = held[j].wall
                            /\ Outdated(held)[j].excl = held[j].excl
  BY <1>2, <1>4, <1>6
<1>14. \A j \in Instances : ~Outdated(watch)[j].tok BY <1>3, <1>4, <1>7
<1> QED BY <1>5, <1>6, <1>7, <1>10, <1>11, <1>12, <1>13, <1>14 DEF G

\* A request somebody waits for lands.
LEMMA LandKeeps == ASSUME IInv, NEW i \in Instances, Land(i) PROVE IInv'
<1> DEFINE v == Verdict(req[i])
<1>1. /\ TypeInv /\ phase[i] \in Phases /\ req[i] \in Requests /\ ghost[i] \in Requests
      /\ held[i] \in Helds /\ watch[i] \in Watches /\ ProbeInv(i) /\ StrictInv(i)
      /\ Premise => ClaimInv(i) /\ Conditional
      /\ Premise => \A j \in Instances \ {i} : Claim(j) => Silent(i)
  BY Before DEF IInv
<1>2. req[i].out = "sent" /\ req[i].op # "none" BY <1>1 DEF Land, ProbeInv, Told
<1>3. CASE v # "ok"
  <2>1. /\ v \in {"ok", "refused", "unimplemented"}
        /\ v = "refused" /\ req[i].op = "create" => service.create = "honours"
        /\ v = "refused" /\ req[i].op \in {"update", "fake"} => service.update = "honours"
        /\ req[i].op # "delete"
        /\ Conditional => v # "unimplemented"
    BY <1>1, <1>3, VerdictFacts DEF TypeInv
  <2>2. PICK r \in Requests : /\ req' = [req EXCEPT ![i] = r] /\ r.out = v /\ ~r.tok
                              /\ r.op = req[i].op /\ r.wall = req[i].wall
    <3>1. req' = [req EXCEPT ![i].out = v, ![i].tok = v = "ok" /\ req[i].op # "delete"]
      BY <1>3 DEF Land
    <3> HIDE DEF v
    <3> DEFINE y == [req[i] EXCEPT !.out = v, !.tok = FALSE]
    <3>2. req' = [req EXCEPT ![i] = y] BY <1>1, <1>3, <3>1 DEF TypeInv
    <3>3. y \in Requests BY <1>1, <2>1 DEF Requests
    <3>4. y.out = v /\ ~y.tok /\ y.op = req[i].op /\ y.wall = req[i].wall BY <1>1 DEF Requests
    <3> HIDE DEF y
    <3> QED BY <3>2, <3>3, <3>4
  <2>3. UNCHANGED <<service, lease, phase, held, watch, misdeleted, ghost>>
    BY <1>3, <2>1 DEF Land, Arrives
  <2> HIDE DEF v
  <2>4. Local(i, phase[i], r, ghost[i], held[i], watch[i])
    <3>1. phase' = [phase EXCEPT ![i] = phase[i]] BY <1>1, <2>3 DEF TypeInv
    <3> QED BY <1>1, <2>2, <2>3, <3>1, LocalShape
  <2>5. LocalProbe(phase[i], r, held[i]) BY <1>1, <1>2, <2>1, <2>2 DEF LocalProbe, ProbeInv, Told
  <2>6. LocalStrict(phase[i], r, ghost[i], held[i])
    BY <1>1, <2>1, <2>2 DEF LocalStrict, StrictInv
  <2>7. ASSUME Premise PROVE LocalClaim(i, phase[i], r, ghost[i], held[i])
    BY <1>1, <1>3, <2>2, <2>7 DEF LocalClaim, ClaimInv, HeldClaim
  <2>8. ASSUME Premise, NEW j \in Instances \ {i}, Claim(j)
        PROVE  LocalSilent(r, ghost[i], held[i], watch[i])
    BY <1>1, <2>2, <2>8 DEF LocalSilent, Silent
  <2> QED BY <2>4, <2>5, <2>6, <2>7, <2>8, LocalKeeps
<1>4. CASE v = "ok"
  <2> DEFINE R == Outdated(req)
  <2>1. /\ req' = [R EXCEPT ![i].out = "ok", ![i].tok = req[i].op # "delete"]
        /\ ghost' = Pending(Outdated(ghost)) /\ held' = Outdated(held) /\ watch' = Outdated(watch)
        /\ UNCHANGED <<service, phase>>
        /\ lease' = IF req[i].op = "delete" THEN NoLease ELSE Record(i, req[i].wall)
        /\ misdeleted' = IF req[i].op = "delete" /\ lease.there /\ ~req[i].tok /\ lease.id \in Instances
                         THEN misdeleted \cup {lease.id} ELSE misdeleted
    BY <1>4 DEF Land, Arrives
  <2>2. /\ R \in [Instances -> Requests]
        /\ \A j \in Instances : /\ ~R[j].tok /\ R[j].op = req[j].op
                                /\ R[j].wall = req[j].wall /\ R[j].out = req[j].out
    BY <1>1, OutdatedFacts
  <2> HIDE DEF R
  <2>3. /\ req' \in [Instances -> Requests] /\ req'[i].op = req[i].op /\ req'[i].wall = req[i].wall
        /\ req'[i].out = "ok" /\ \A j \in Instances \ {i} : req'[j] = R[j]
    <3> DEFINE b == req[i].op # "delete"
               y == [R[i] EXCEPT !.out = "ok", !.tok = b]
    <3>0. b \in BOOLEAN OBVIOUS
    <3>1. req' = [R EXCEPT ![i] = y] BY <2>1, <2>2
    <3> HIDE DEF b
    <3>2. y \in Requests BY <2>2, <3>0, ZenonT(30) DEF Requests
    <3>3. R[i] \in Requests BY <2>2
    <3>4. y.op = R[i].op /\ y.wall = R[i].wall /\ y.out = "ok" BY <3>3 DEF Requests
    <3> HIDE DEF y
    <3> QED BY <2>2, <3>1, <3>2, <3>4
  <2>4. ASSUME NEW j \in Instances
        PROVE  /\ req'[j].op = req[j].op /\ req'[j].wall = req[j].wall
               /\ req'[j].out = req[j].out \/ (j = i /\ req'[j].out = "ok")
               /\ j # i => ~req'[j].tok
    <3>1. CASE j = i BY <2>3, <3>1
    <3>2. CASE j # i BY <2>2, <2>3, <3>2
    <3> QED BY <3>1, <3>2
  <2>5. Landing(i, req[i], TRUE)
    BY <1>1, <2>1, <2>3, <2>4, OutdatedFacts DEF Landing
  <2>6. UnderWay(i, req[i], TRUE)
    <3>1. Premise /\ HeldClaim(i) /\ req[i].op # "create" /\ req[i].tok =>
             req[i].op = "update" /\ req[i].wall =< held[i].wall
      <4> SUFFICES ASSUME Premise, HeldClaim(i), req[i].op # "create"
                   PROVE  req[i].op = "update" /\ req[i].wall =< held[i].wall
        OBVIOUS
      <4>0. Verdict(req[i]) = "ok" /\ Conditional BY <1>1, <1>4
      <4>1. req[i].op # "fake" /\ req[i].op # "force"
        BY <1>1, <4>0, VerdictFacts DEF StrictInv, TypeInv
      <4>2. phase[i] \in {"renew", "reread", "reswap"} /\ req[i].op = "update"
        BY <1>1, <1>2, <4>1, PhaseSets, OpsFacts DEF ProbeInv, HeldClaim, Probing
      <4> QED BY <1>1, <4>2 DEF ClaimInv
    <3>2. ~ReqClaim(i) BY <1>2 DEF ReqClaim
    <3>3. Premise => \A j \in Instances \ {i} : Claim(j) => ~req[i].tok BY <1>1 DEF Silent
    <3>4. phase[i] \in {"put", "renew", "reswap"} => req[i].op # "delete"
      BY <1>1, OpsFacts DEF ProbeInv
    <3>5. Conditional => req[i].op # "force" BY <1>1 DEF StrictInv
    <3> QED BY <1>1, <1>2, <3>1, <3>2, <3>3, <3>4, <3>5 DEF UnderWay
  <2> QED BY <1>4, <2>5, <2>6, LandingKeeps
<1> QED BY <1>3, <1>4

\* A request lands that nobody waits for any more.
LEMMA LandLateKeeps == ASSUME IInv, NEW i \in Instances, LandLate(i) PROVE IInv'
<1> DEFINE v == Verdict(ghost[i])
<1>1. /\ TypeInv /\ phase[i] \in Phases /\ req[i] \in Requests /\ ghost[i] \in Requests
      /\ held[i] \in Helds /\ watch[i] \in Watches /\ ProbeInv(i) /\ StrictInv(i)
      /\ Premise => ClaimInv(i) /\ Conditional
      /\ Premise => \A j \in Instances \ {i} : Claim(j) => Silent(i)
  BY Before DEF IInv
<1>2. ghost[i].op # "none" BY DEF LandLate
<1>3. CASE v # "ok"
  <2>1. ghost[i].op # "delete" BY <1>1, <1>3, VerdictFacts DEF TypeInv
  <2>2. /\ UNCHANGED <<service, lease, phase, held, watch, misdeleted, req>>
        /\ ghost' = [ghost EXCEPT ![i] = NoReq]
    BY <1>3, <2>1 DEF LandLate, Arrives
  <2> HIDE DEF v
  <2>4. Local(i, phase[i], req[i], NoReq, held[i], watch[i])
    <3>1. phase' = [phase EXCEPT ![i] = phase[i]] BY <1>1, <2>2 DEF TypeInv
    <3> QED BY <1>1, <2>2, <3>1, RecordTypes, LocalShape
  <2>5. LocalProbe(phase[i], req[i], held[i]) BY <1>1 DEF LocalProbe, ProbeInv
  <2>6. LocalStrict(phase[i], req[i], NoReq, held[i])
    BY <1>1, RecordTypes DEF LocalStrict, StrictInv
  <2>7. ASSUME Premise PROVE LocalClaim(i, phase[i], req[i], NoReq, held[i])
    BY <1>1, <2>7, RecordTypes DEF LocalClaim, ClaimInv, HeldClaim, ReqClaim
  <2>8. ASSUME Premise, NEW j \in Instances \ {i}, Claim(j)
        PROVE  LocalSilent(req[i], NoReq, held[i], watch[i])
    BY <1>1, <2>8, RecordTypes DEF LocalSilent, Silent
  <2> QED BY <2>4, <2>5, <2>6, <2>7, <2>8, LocalKeeps
<1>4. CASE v = "ok"
  <2> DEFINE G == Pending(Outdated(ghost))
  <2>1. /\ req' = Outdated(req)
        /\ ghost' = [G EXCEPT ![i] = NoReq] /\ held' = Outdated(held) /\ watch' = Outdated(watch)
        /\ UNCHANGED <<service, phase>>
        /\ lease' = IF ghost[i].op = "delete" THEN NoLease ELSE Record(i, ghost[i].wall)
        /\ misdeleted' = IF ghost[i].op = "delete" /\ lease.there /\ ~ghost[i].tok /\ lease.id \in Instances
                         THEN misdeleted \cup {lease.id} ELSE misdeleted
    BY <1>4 DEF LandLate, Arrives
  <2>2. /\ G \in [Instances -> Requests]
        /\ \A j \in Instances : ~G[j].tok /\ G[j].op \in {ghost[j].op, "none"}
    BY <1>1, OutdatedFacts
  <2> HIDE DEF G
  <2>3. /\ ghost' \in [Instances -> Requests]
        /\ \A j \in Instances : ghost'[j] = NoReq \/ ghost'[j] = G[j]
    BY <2>1, <2>2, RecordTypes
  <2>4. \A j \in Instances : ~ghost'[j].tok /\ ghost'[j].op \in {ghost[j].op, "none"}
    BY <2>2, <2>3, RecordTypes
  <2>5. Landing(i, ghost[i], FALSE)
    BY <1>1, <2>1, <2>3, <2>4, OutdatedFacts DEF Landing
  <2>6. UnderWay(i, ghost[i], FALSE)
    <3>1. Premise /\ ghost[i].op # "create" /\ ghost[i].tok =>
             /\ HeldClaim(i) => ghost[i].op = "update" /\ ghost[i].wall =< held[i].wall
             /\ ~ReqClaim(i)
      BY <1>1 DEF ClaimInv
    <3>3. Premise => \A j \in Instances \ {i} : Claim(j) => ~ghost[i].tok BY <1>1 DEF Silent
    <3>5. Conditional => ghost[i].op # "force" BY <1>1 DEF StrictInv
    <3> QED BY <1>1, <1>2, <3>1, <3>3, <3>5 DEF UnderWay
  <2> QED BY <1>4, <2>5, <2>6, LandingKeeps
<1> QED BY <1>3, <1>4

-----------------------------------------------------------------------------
(* Time passes.                                                            *)

LEMMA OlderFacts ==
    ASSUME NEW a \in Nat, NEW cap \in Nat
    PROVE  /\ Older(a, cap) \in Nat /\ a =< Older(a, cap) /\ Older(a, cap) =< a + 1
           /\ Older(a, cap) < cap => Older(a, cap) = a + 1
           /\ a < cap => Older(a, cap) = a + 1
BY DEF Older

LEMMA AgedFacts ==
    ASSUME NEW i \in Instances, NEW r \in Requests, NEW moves \in BOOLEAN, NEW s, s = Aged(i, r, moves)
    PROVE  /\ s \in Requests /\ s.op = r.op /\ s.tok = r.tok /\ s.out = r.out
           /\ r.op \notin {"none", "delete"} => s.wall = Older(r.wall, AgeCap)
<1>1. Fence(i) \in Nat /\ AgeCap \in Nat BY ClockFacts
<1>2. r.wall \in Nat /\ r.mono \in Nat BY DEF Requests
<1>3. CASE r.op \in {"none", "delete"} BY <1>3 DEF Aged
<1>4. CASE r.op \notin {"none", "delete"}
  <2> DEFINE W == Older(r.wall, AgeCap)
             M == IF moves THEN Older(r.mono, Fence(i)) ELSE r.mono
  <2>1. W \in Nat /\ M \in Nat BY <1>1, <1>2, OlderFacts
  <2>2. s = [r EXCEPT !.wall = W, !.mono = M] BY <1>4 DEF Aged
  <2> HIDE DEF W, M
  <2>3. s \in Requests BY <2>1, <2>2 DEF Requests
  <2>4. s.op = r.op /\ s.tok = r.tok /\ s.out = r.out /\ s.wall = W BY <2>2 DEF Requests
  <2> QED BY <2>3, <2>4 DEF W
<1> QED BY <1>3, <1>4

\* What a moment does to what an instance keeps.
LEMMA TickFacts ==
    ASSUME TypeInv, NEW S, Tick(S), NEW i \in Instances
    PROVE  /\ req'[i] \in Requests /\ req'[i].op = req[i].op /\ req'[i].tok = req[i].tok
           /\ req'[i].out = req[i].out
           /\ req[i].op \notin {"none", "delete"} => req'[i].wall = Older(req[i].wall, AgeCap)
           /\ ghost'[i] \in Requests /\ ghost'[i].op = ghost[i].op /\ ghost'[i].tok = ghost[i].tok
           /\ ghost[i].op \notin {"none", "delete"} => ghost'[i].wall = Older(ghost[i].wall, AgeCap)
           /\ held'[i] \in Helds /\ held'[i].tok = held[i].tok /\ held'[i].excl = held[i].excl
           /\ held[i].excl # "none" => held'[i].wall = Older(held[i].wall, Fence(i))
           /\ watch'[i] \in Watches /\ watch'[i].on = watch[i].on /\ watch'[i].tok = watch[i].tok
           /\ watch'[i].age =< watch[i].age + 1
<1>1. /\ req[i] \in Requests /\ ghost[i] \in Requests /\ held[i] \in Helds /\ watch[i] \in Watches
      /\ Fence(i) \in Nat /\ Ttl[i] \in Nat
  BY ClockFacts DEF TypeInv
<1>2. req'[i] = Aged(i, req[i], i \notin S) /\ ghost'[i] = Aged(i, ghost[i], FALSE) BY DEF Tick
<1>3. /\ req'[i] \in Requests /\ req'[i].op = req[i].op /\ req'[i].tok = req[i].tok
      /\ req'[i].out = req[i].out
      /\ req[i].op \notin {"none", "delete"} => req'[i].wall = Older(req[i].wall, AgeCap)
  <2> DEFINE m == i \notin S
             s == req'[i]
  <2>1. m \in BOOLEAN OBVIOUS
  <2>2. s = Aged(i, req[i], m) BY <1>2
  <2> HIDE DEF m, s
  <2>3. /\ s \in Requests /\ s.op = req[i].op /\ s.tok = req[i].tok /\ s.out = req[i].out
        /\ req[i].op \notin {"none", "delete"} => s.wall = Older(req[i].wall, AgeCap)
    BY <1>1, <2>1, <2>2, AgedFacts
  <2> QED BY <2>3 DEF s
<1>4. /\ ghost'[i] \in Requests /\ ghost'[i].op = ghost[i].op /\ ghost'[i].tok = ghost[i].tok
      /\ ghost[i].op \notin {"none", "delete"} => ghost'[i].wall = Older(ghost[i].wall, AgeCap)
  <2> DEFINE s == ghost'[i]
  <2>1. s = Aged(i, ghost[i], FALSE) BY <1>2
  <2> HIDE DEF s
  <2>2. /\ s \in Requests /\ s.op = ghost[i].op /\ s.tok = ghost[i].tok
        /\ ghost[i].op \notin {"none", "delete"} => s.wall = Older(ghost[i].wall, AgeCap)
    BY <1>1, <2>1, AgedFacts, ZenonT(30)
  <2> QED BY <2>2 DEF s
<1>5. /\ held'[i] \in Helds /\ held'[i].tok = held[i].tok /\ held'[i].excl = held[i].excl
      /\ held[i].excl # "none" => held'[i].wall = Older(held[i].wall, Fence(i))
  <2> DEFINE W == Older(held[i].wall, Fence(i))
             M == IF i \in S THEN held[i].mono ELSE Older(held[i].mono, Fence(i))
             s == held'[i]
  <2>1. held'[i] = IF held[i] = NotHeld THEN NotHeld ELSE [held[i] EXCEPT !.wall = W, !.mono = M]
    BY DEF Tick
  <2>2. held[i].wall \in Nat /\ held[i].mono \in Nat BY <1>1 DEF Helds
  <2>3. W \in Nat /\ M \in Nat BY <1>1, <2>2, OlderFacts
  <2>4. s = IF held[i] = NotHeld THEN NotHeld ELSE [held[i] EXCEPT !.wall = W, !.mono = M] BY <2>1
  <2> HIDE DEF W, M, s
  <2>5. CASE held[i] = NotHeld
    <3>1. s = NotHeld BY <2>4, <2>5
    <3>2. /\ s \in Helds /\ s.tok = held[i].tok /\ s.excl = held[i].excl /\ held[i].excl = "none"
      BY <2>5, <3>1, RecordTypes
    <3> QED BY <3>2 DEF s
  <2>6. CASE held[i] # NotHeld
    <3>1. s = [held[i] EXCEPT !.wall = W, !.mono = M] BY <2>4, <2>6
    <3>2. s \in Helds BY <1>1, <2>3, <3>1 DEF Helds
    <3>3. s.tok = held[i].tok /\ s.excl = held[i].excl /\ s.wall = W BY <1>1, <3>1 DEF Helds
    <3> QED BY <3>2, <3>3 DEF s, W
  <2> QED BY <2>5, <2>6
<1>6. /\ watch'[i] \in Watches /\ watch'[i].on = watch[i].on /\ watch'[i].tok = watch[i].tok
      /\ watch'[i].age =< watch[i].age + 1
  <2> DEFINE A == Older(watch[i].age, Ttl[i])
             s == watch'[i]
  <2>1. s = IF watch[i].on /\ i \notin S THEN [watch[i] EXCEPT !.age = A] ELSE watch[i] BY DEF Tick
  <2>2. watch[i].age \in Nat BY <1>1 DEF Watches
  <2>3. A \in Nat /\ A =< watch[i].age + 1 BY <1>1, <2>2, OlderFacts
  <2> HIDE DEF A, s
  <2>4. CASE s = watch[i] BY <1>1, <2>2, <2>4 DEF s
  <2>5. CASE s = [watch[i] EXCEPT !.age = A]
    <3>1. s \in Watches BY <1>1, <2>3, <2>5 DEF Watches
    <3>2. s.on = watch[i].on /\ s.tok = watch[i].tok /\ s.age = A BY <1>1, <2>5 DEF Watches
    <3> QED BY <2>3, <3>1, <3>2 DEF s
  <2> QED BY <2>1, <2>4, <2>5
<1> QED BY <1>3, <1>4, <1>5, <1>6

LEMMA TickKeeps == ASSUME IInv, NEW S, Tick(S) PROVE IInv'
<1>1. TypeInv BY DEF IInv
<1>2. UNCHANGED <<service, phase, misdeleted>> BY DEF Tick
<1>3. /\ lease' \in RecordSet /\ lease'.id = lease.id /\ lease'.ttl = lease.ttl /\ lease'.there = lease.there
      /\ lease'.parses = lease.parses
      /\ lease.there => lease'.age = Older(lease.age, AgeCap)
  <2> DEFINE A == Older(lease.age, AgeCap)
  <2>1. lease' = IF lease.there THEN [lease EXCEPT !.age = A] ELSE lease BY DEF Tick
  <2>2. AgeCap \in Nat BY BoundAssumption
  <2>3. lease \in RecordSet /\ lease.age \in Int BY <1>1 DEF TypeInv, RecordSet
  <2>4. A \in Int BY <2>2, <2>3 DEF Older
  <2> HIDE DEF A
  <2>5. CASE ~lease.there
    <3>1. lease' = lease BY <2>1, <2>5
    <3> QED BY <2>3, <2>5, <3>1
  <2>6. CASE lease.there
    <3>1. lease' = [lease EXCEPT !.age = A] BY <2>1, <2>6
    <3>2. lease' \in RecordSet BY <2>3, <2>4, <3>1 DEF RecordSet
    <3>3. /\ lease'.id = lease.id /\ lease'.ttl = lease.ttl /\ lease'.there = lease.there
          /\ lease'.parses = lease.parses /\ lease'.age = A
      BY <2>3, <3>1 DEF RecordSet
    <3> QED BY <3>2, <3>3 DEF A
  <2> QED BY <2>5, <2>6
<1>4. TypeInv'
  <2>1. /\ req' = [i \in Instances |-> req'[i]] /\ ghost' = [i \in Instances |-> ghost'[i]]
        /\ held' = [i \in Instances |-> held'[i]] /\ watch' = [i \in Instances |-> watch'[i]]
    BY DEF Tick
  <2>2. \A i \in Instances : /\ req'[i] \in Requests /\ ghost'[i] \in Requests
                             /\ held'[i] \in Helds /\ watch'[i] \in Watches
    BY <1>1, TickFacts
  <2>3. req' \in [Instances -> Requests] BY <2>1, <2>2
  <2>4. ghost' \in [Instances -> Requests] BY <2>1, <2>2
  <2>5. held' \in [Instances -> Helds] BY <2>1, <2>2
  <2>6. watch' \in [Instances -> Watches] BY <2>1, <2>2
  <2> QED BY <1>1, <1>2, <1>3, <2>3, <2>4, <2>5, <2>6 DEF TypeInv
<1>5. ASSUME NEW i \in Instances PROVE ProbeInv(i)' /\ StrictInv(i)'
  <2>1. ProbeInv(i) /\ StrictInv(i) BY DEF IInv
  <2>2. /\ req'[i].op = req[i].op /\ req'[i].out = req[i].out /\ ghost'[i].op = ghost[i].op
        /\ held'[i].excl = held[i].excl
    BY <1>1, TickFacts
  <2> QED BY <1>2, <2>1, <2>2 DEF ProbeInv, StrictInv, Told, Conditional
<1>6. ASSUME Premise', NEW i \in Instances PROVE ClaimInv(i)'
  <2>1. Premise BY <1>2, <1>6 DEF Premise, Conditional, SkewAbsorbed
  <2>2. /\ ClaimInv(i) /\ ProbeInv(i) /\ StrictInv(i) /\ Conditional BY <2>1 DEF IInv, Premise
  <2>3. Fence(i) \in Nat /\ AgeCap \in Nat /\ Fence(i) =< AgeCap
    <3>1. Ttl[i] \in Nat /\ Fence(i) \in Nat /\ AgeCap \in Nat BY ClockFacts
    <3>2. Fence(i) =< Ttl[i] /\ Ttl[i] =< AgeCap BY ClockFacts
    <3> QED BY <3>1, <3>2
  <2>4. /\ req[i].wall \in Nat /\ ghost[i].wall \in Nat /\ held[i].wall \in Nat
        /\ ghost[i].tok \in BOOLEAN /\ lease.age \in Int
    BY <1>1 DEF TypeInv, Requests, Helds, RecordSet
  <2>5. ASSUME NEW x \in Nat, x < Fence(i), Ours(i, x), Alone(i)
        PROVE  /\ lease'.there /\ lease'.parses /\ lease'.id = i /\ lease'.ttl = Ttl[i]
               /\ 0 =< lease'.age /\ lease'.age =< x + 1 /\ Alone(i)'
    <3>1. /\ lease.there /\ lease.parses /\ lease.id = i /\ lease.ttl = Ttl[i]
          /\ 0 =< lease.age /\ lease.age =< x
      BY <2>5 DEF Ours
    <3>2. lease.age \in Nat /\ lease.age < AgeCap BY <2>3, <2>4, <2>5, <3>1
    <3>3. lease'.age = lease.age + 1 BY <1>3, <2>3, <3>1, <3>2, OlderFacts
    <3>4. 0 =< lease'.age /\ lease'.age =< x + 1 BY <3>1, <3>2, <3>3
    <3>6. ASSUME NEW j \in Instances \ {i}
          PROVE  /\ ~req'[j].tok /\ ~ghost'[j].tok /\ ~held'[j].tok
                 /\ watch'[j].on /\ watch'[j].tok => watch'[j].age =< lease'.age
      <4>1. /\ ~req[j].tok /\ ~ghost[j].tok /\ ~held[j].tok
            /\ watch[j].on /\ watch[j].tok => watch[j].age =< lease.age
        BY <2>5 DEF Alone
      <4>2. /\ req'[j].tok = req[j].tok /\ ghost'[j].tok = ghost[j].tok /\ held'[j].tok = held[j].tok
            /\ watch'[j].on = watch[j].on /\ watch'[j].tok = watch[j].tok
            /\ watch'[j].age =< watch[j].age + 1 /\ watch'[j].age \in Nat
        BY <1>1, TickFacts DEF Watches
      <4>3. watch[j].age \in Nat BY <1>1 DEF TypeInv, Watches
      <4> QED BY <3>2, <3>3, <4>1, <4>2, <4>3
    <3> QED BY <1>3, <3>1, <3>4, <3>6 DEF Alone
  <2>6. ASSUME HeldClaim(i)'
        PROVE  /\ Ours(i, held[i].wall)' /\ Alone(i)'
               /\ phase'[i] \in {"renew", "reread", "reswap"} => req'[i].wall =< held'[i].wall
               /\ ghost'[i].tok => ghost'[i].op = "update" /\ ghost'[i].wall =< held'[i].wall
    <3>1. phase[i] \in Holding \cup Probing /\ held'[i].wall < Fence(i)
      BY <1>2, <2>6 DEF HeldClaim
    <3>2. held[i].excl # "none" BY <2>2, <3>1 DEF StrictInv
    <3>3. held'[i].wall = Older(held[i].wall, Fence(i)) BY <1>1, <3>2, TickFacts
    <3>4. held'[i].wall = held[i].wall + 1 /\ held[i].wall < Fence(i)
      <4>1. Older(held[i].wall, Fence(i)) < Fence(i) BY <3>1, <3>3
      <4>2. Older(held[i].wall, Fence(i)) = held[i].wall + 1 BY <2>3, <2>4, <4>1, OlderFacts
      <4> QED BY <2>3, <2>4, <3>3, <4>1, <4>2
    <3>5. HeldClaim(i) BY <3>1, <3>4 DEF HeldClaim
    <3>6. /\ Ours(i, held[i].wall) /\ Alone(i)
          /\ phase[i] \in {"renew", "reread", "reswap"} => req[i].wall =< held[i].wall
          /\ ghost[i].tok => ghost[i].op = "update" /\ ghost[i].wall =< held[i].wall
      BY <2>2, <3>5 DEF ClaimInv
    <3>7. Ours(i, held[i].wall)' /\ Alone(i)'
      BY <2>4, <2>5, <3>4, <3>6 DEF Ours
    <3>8. phase'[i] \in {"renew", "reread", "reswap"} => req'[i].wall =< held'[i].wall
      <4> SUFFICES ASSUME phase[i] \in {"renew", "reread", "reswap"} PROVE req'[i].wall =< held'[i].wall
        BY <1>2
      <4>1. req[i].op = "update" BY <2>2, OpsFacts DEF ProbeInv
      <4>2. req'[i].wall = Older(req[i].wall, AgeCap) BY <1>1, <4>1, TickFacts
      <4>3. /\ Older(req[i].wall, AgeCap) \in Nat /\ Older(req[i].wall, AgeCap) =< req[i].wall + 1
        BY <2>3, <2>4, OlderFacts
      <4>4. req[i].wall =< held[i].wall BY <3>6
      <4> QED BY <2>4, <3>4, <4>2, <4>3, <4>4
    <3>9. ghost'[i].tok => ghost'[i].op = "update" /\ ghost'[i].wall =< held'[i].wall
      <4> SUFFICES ASSUME ghost'[i].tok PROVE ghost'[i].op = "update" /\ ghost'[i].wall =< held'[i].wall
        OBVIOUS
      <4>1. ghost'[i].op = ghost[i].op /\ ghost[i].tok BY <1>1, TickFacts
      <4>2. ghost[i].op = "update" /\ ghost[i].wall =< held[i].wall BY <3>6, <4>1
      <4>3. ghost'[i].wall = Older(ghost[i].wall, AgeCap) BY <1>1, <4>2, TickFacts
      <4>4. /\ Older(ghost[i].wall, AgeCap) \in Nat /\ Older(ghost[i].wall, AgeCap) =< ghost[i].wall + 1
        BY <2>3, <2>4, OlderFacts
      <4> QED BY <2>4, <3>4, <4>1, <4>2, <4>3, <4>4
    <3> QED BY <3>7, <3>8, <3>9
  <2>7. ASSUME ReqClaim(i)'
        PROVE  Ours(i, req[i].wall)' /\ Alone(i)' /\ ~ghost'[i].tok
    <3>1. phase[i] \in {"put", "renew", "reswap"} /\ req'[i].out = "ok" /\ req'[i].wall < Fence(i)
      BY <1>2, <2>7 DEF ReqClaim
    <3>2. req[i].op \in {"create", "update"} BY <2>2, <3>1, OpsFacts DEF ProbeInv
    <3>3. req'[i].wall = Older(req[i].wall, AgeCap) /\ req'[i].out = req[i].out
      BY <1>1, <3>2, TickFacts
    <3>4. req'[i].wall = req[i].wall + 1 /\ req[i].wall < Fence(i)
      <4>1. Older(req[i].wall, AgeCap) < Fence(i) BY <3>1, <3>3
      <4>2. Older(req[i].wall, AgeCap) \in Nat BY <2>3, <2>4, OlderFacts
      <4>3. Older(req[i].wall, AgeCap) < AgeCap BY <2>3, <4>1, <4>2
      <4>4. Older(req[i].wall, AgeCap) = req[i].wall + 1 BY <2>3, <2>4, <4>3, OlderFacts
      <4> QED BY <2>3, <2>4, <3>3, <4>1, <4>4
    <3>5. ReqClaim(i) BY <3>1, <3>3, <3>4 DEF ReqClaim
    <3>6. Ours(i, req[i].wall) /\ Alone(i) /\ ~ghost[i].tok BY <2>2, <3>5 DEF ClaimInv
    <3>7. Ours(i, req[i].wall)' /\ Alone(i)'
      BY <2>4, <2>5, <3>4, <3>6 DEF Ours
    <3>8. ~ghost'[i].tok BY <1>1, <3>6, TickFacts
    <3> QED BY <3>7, <3>8
  <2> QED BY <2>6, <2>7 DEF ClaimInv
<1> QED BY <1>4, <1>5, <1>6 DEF IInv

-----------------------------------------------------------------------------
(* The theorems.                                                           *)

LEMMA InitIInv == Init => IInv
<1> SUFFICES ASSUME Init PROVE IInv OBVIOUS
<1>1. TypeInv
  <2>1. service \in Services /\ lease \in RecordSet
    <3>1. PICK s \in Starts : service = s.service /\ lease = s.lease BY DEF Init
    <3> QED BY <3>1, StartsAssumption
  <2>2. "idle" \in Phases BY PhaseSets
  <2> QED BY <2>1, <2>2, RecordTypes DEF Init, TypeInv
<1>2. ASSUME NEW i \in Instances
      PROVE  ProbeInv(i) /\ StrictInv(i) /\ ClaimInv(i)
  <2>1. phase[i] = "idle" /\ req[i] = NoReq /\ ghost[i] = NoReq BY DEF Init
  <2>2. ProbeInv(i) BY <2>1, OpsFacts, PhaseSets, RecordTypes DEF ProbeInv, Told
  <2>3. StrictInv(i) BY <2>1, PhaseSets, RecordTypes DEF StrictInv, Probing
  <2>4. ClaimInv(i) BY <2>1, PhaseSets DEF ClaimInv, HeldClaim, ReqClaim, Probing
  <2> QED BY <2>2, <2>3, <2>4
<1> QED BY <1>1, <1>2 DEF IInv

LEMMA NextIInv == IInv /\ [Next]_vars => IInv'
<1> SUFFICES ASSUME IInv, [Next]_vars PROVE IInv' OBVIOUS
<1>1. ASSUME NEW i \in Instances, Proceed(i) PROVE IInv'
  BY <1>1, StartKeeps, BlockedKeeps, SendAcquireKeeps, PutAnsweredKeeps, ForceAnsweredKeeps,
     ProbeAnsweredKeeps, SendRenewKeeps, RenewAnsweredKeeps, RereadKeeps, ReadReleaseKeeps,
     GiveUpKeeps, LandKeeps DEF Proceed
<1>2. ASSUME NEW i \in Instances, Fault(i) PROVE IInv'
  BY <1>2, GiveUpKeeps, RenewFailsKeeps DEF Fault
<1>3. ASSUME NEW i \in Instances, LandLate(i) PROVE IInv' BY <1>3, LandLateKeeps
<1>4. ASSUME NEW S \in SUBSET Suspends, Tick(S) PROVE IInv' BY <1>4, TickKeeps
<1>5. CASE UNCHANGED vars
  BY <1>5 DEF vars, IInv, TypeInv, ProbeInv, StrictInv, ClaimInv, Premise, Told, Conditional,
     SkewAbsorbed, HeldClaim, ReqClaim, Ours, Alone
<1> QED BY <1>1, <1>2, <1>3, <1>4, <1>5 DEF Next

\* The inductive invariant: requests fit the phases, verdicts tell what the
\* service does, and every claim younger than the write fence is backed by the
\* object (acquire_as, probe, renew, reconcile, release_own_record).
THEOREM Invariance == Spec => []IInv
<1> QED BY InitIInv, NextIInv, PTL DEF Spec

\* Whoever may write has its own record in the bucket.
LEMMA WriterOwns ==
    ASSUME IInv, Premise, NEW i \in Instances, MayWrite(i)
    PROVE  lease.there /\ lease.id = i
<1>1. HeldClaim(i) BY DEF MayWrite, HeldClaim
<1>2. ClaimInv(i) BY DEF IInv
<1> QED BY <1>1, <1>2 DEF ClaimInv, Ours

\* Two instances never both pass may_write: for any number of instances, any
\* TTLs, any clocks a third of a TTL apart, any lost or late requests and any
\* suspensions, on a service that honours preconditions.
THEOREM NobodyWritesBeside == Spec => []OneWriter
<1>1. IInv => OneWriter
  <2> SUFFICES ASSUME IInv, Conditional, SkewAbsorbed, misdeleted = {},
                      NEW i \in Instances, NEW j \in Instances, MayWrite(i), MayWrite(j)
               PROVE  i = j
    BY DEF OneWriter
  <2>1. Premise BY DEF Premise
  <2>2. lease.id = i /\ lease.id = j BY <2>1, WriterOwns
  <2> QED BY <2>2
<1> QED BY <1>1, Invariance, PTL

\* An instance that holds a conditional lease works on a service that honours
\* both preconditions: the probe never lets a weaker one pass for it.
THEOREM ExclusionIsNeverWeakened == Spec => []NeverSilentlyWeak
<1>1. IInv => NeverSilentlyWeak
  <2> SUFFICES ASSUME IInv, NEW i \in Instances, phase[i] \in Holding, held[i].excl = "Conditional"
               PROVE  Conditional
    BY DEF NeverSilentlyWeak
  <2>1. ProbeInv(i) /\ service \in Services BY DEF IInv, TypeInv
  <2>2. service.create = "honours" /\ service.update = "honours" BY <2>1 DEF ProbeInv
  <2> QED BY <2>1, <2>2 DEF Conditional, Services
<1> QED BY <1>1, Invariance, PTL

\* A holder that is told its lease stands finds its own record in the bucket.
THEOREM ToldIsTrue == Spec => ConfirmedIsOurs
<1>1. IInv /\ IInv' /\ [Next]_vars =>
        [\A i \in Instances :
           Conditional /\ SkewAbsorbed /\ misdeleted' = {} /\ ~MayWrite(i) /\ MayWrite(i)'
               => lease'.there /\ lease'.id = i]_vars
  <2> SUFFICES ASSUME IInv', [Next]_vars, NEW i \in Instances, Conditional, SkewAbsorbed,
                      misdeleted' = {}, MayWrite(i)'
               PROVE  lease'.there /\ lease'.id = i
    OBVIOUS
  <2>1. service' = service
    BY ZenonT(30) DEF Next, vars, Proceed, Fault, StartAcquire, Blocked, SendAcquire, PutAnswered, ForceAnswered,
           ProbeAnswered, SendRenew, RenewAnswered, Reread, DropLost, ReadRelease, ReleaseEnds, Land,
           AcquireFails, RenewFails, MarkLost, Shutdown, Crash, LandLate, Tick
  <2>2. Premise' BY <2>1 DEF Premise, Conditional, SkewAbsorbed
  <2>3. HeldClaim(i)' BY DEF MayWrite, HeldClaim
  <2>4. ClaimInv(i)' BY <2>2 DEF IInv
  <2> QED BY <2>3, <2>4 DEF ClaimInv, Ours
<1> QED BY <1>1, Invariance, PTL DEF ConfirmedIsOurs, Spec
=============================================================================
