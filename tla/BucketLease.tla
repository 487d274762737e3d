----------------------------- MODULE BucketLease -----------------------------
(***************************************************************************)
(* The bucket lease (crates/backup/src/lease.rs): one object, LEASE, in an  *)
(* object store names the instance that may upload to a backup prefix.     *)
(* An instance takes it with one conditional PUT, probes that the service  *)
(* really honours preconditions, renews it every third of a TTL, stops     *)
(* writing two thirds of a TTL after its last confirmed write, and deletes *)
(* it at shutdown.  The loop around it is worker.rs (take_lease,           *)
(* renew_loop, release_lease).                                             *)
(*                                                                         *)
(* Time is kept as ages: every stamp is the time since it was taken, and   *)
(* Tick makes all of them older, so runs are finite without a last moment. *)
(* A version (ETag) is kept as a token: whether the version somebody       *)
(* remembers is still the object's.  A PUT is sent, lands at the service   *)
(* (or does not) and is answered (or is not) in separate steps; one the    *)
(* client gave up on may still land.                                       *)
(***************************************************************************)
EXTENDS Integers, FiniteSets

CONSTANTS
    Instances,   \* processes configured with the same prefix
    Stranger,    \* the id in a record none of them wrote
    Ttl,         \* Ttl[i]: the lease_ttl_s of instance i, a multiple of 3
    Skew,        \* Skew[i]: how far i's wall clock runs ahead of true time
    Starts,      \* what the service does with each precondition, what LEASE holds
                 \* when the instances start, and the faults that are left out
    Suspends,    \* instances whose machine may be suspended
    MaxSane,     \* MAX_SANE_TTL_S
    Races,       \* ACQUIRE_RACES
    MaxFaults,   \* bound: failed or late requests, leases marked lost, suspensions
    AgeCap       \* bound: ages are not told apart beyond this one

Treatments == {"honours", "ignores", "none"}
Diff(c, h) == Skew[c] - (IF h = Stranger THEN 0 ELSE Skew[h])

ASSUME InstancesAssumption == Stranger \notin Instances
ASSUME ClockAssumption ==
    /\ \A i \in Instances : Ttl[i] \in 3 .. MaxSane /\ Skew[i] \in Int
    /\ \A i, j \in Instances : Ttl[i] + Diff(j, i) =< AgeCap
ASSUME BoundAssumption ==
    MaxFaults \in Nat /\ Races \in Nat \ {0} /\ AgeCap \in Nat /\ MaxSane \in Nat

VARIABLES
    service,     \* the treatment this service gives preconditions
    lease,       \* the LEASE object, or NoLease
    phase,       \* where each instance is
    tries,       \* rounds left of acquire_as
    req,         \* the request each instance waits for
    ghost,       \* one request of each instance that its client gave up on
    held,        \* Held: version token, confirmation ages, exclusion
    watch,       \* LeaseWatch: the suspect record seen, and for how long
    faults,      \* faults so far
    misdeleted   \* ids whose record a release deleted that had read another one

vars == <<service, lease, phase, tries, req, ghost, held, watch, faults, misdeleted>>

NoLease == [id |-> Stranger, age |-> 0, ttl |-> 0, parses |-> FALSE, there |-> FALSE]
NoReq   == [op |-> "none", tok |-> FALSE, mono |-> 0, wall |-> 0, out |-> "none"]
NotHeld == [tok |-> FALSE, mono |-> 0, wall |-> 0, excl |-> "none"]
NoWatch == [on |-> FALSE, tok |-> FALSE, age |-> 0]

Ages == 0 .. AgeCap
RecordSet ==
    [id : Instances \cup {Stranger}, age : Int, ttl : Nat, parses : BOOLEAN, there : BOOLEAN]
RequestSet ==
    [op : {"none", "create", "update", "fake", "force", "delete"}, tok : BOOLEAN,
     mono : Ages, wall : Ages, out : {"none", "sent", "ok", "refused", "unimplemented"}]
HeldSet  == [tok : BOOLEAN, mono : Ages, wall : Ages,
             excl : {"none", "Conditional", "BestEffort"}]
WatchSet == [on : BOOLEAN, tok : BOOLEAN, age : Ages]

Acquiring  == {"read", "put", "force", "probeCreate", "probeUpdate", "handback"}
Renewing   == {"renew", "reread", "reswap", "beRead", "bePut"}
Holding    == {"held"} \cup Renewing
Waiting    == {"put", "force", "probeCreate", "probeUpdate", "renew", "reswap", "bePut"}
Phases     == {"idle", "lost", "release", "delete", "gone"} \cup Acquiring \cup Holding

Services   == [create : Treatments, update : Treatments]

ASSUME StartsAssumption == 
    Starts \subseteq [service : Services, lease : RecordSet, faults : 0 .. MaxFaults]

TypeOK ==
    /\ service \in Services
    /\ lease \in RecordSet
    /\ phase \in [Instances -> Phases]
    /\ tries \in [Instances -> 0 .. Races]
    /\ req \in [Instances -> RequestSet]
    /\ ghost \in [Instances -> RequestSet]
    /\ held \in [Instances -> HeldSet]
    /\ watch \in [Instances -> WatchSet]
    /\ faults \in 0 .. MaxFaults
    /\ misdeleted \subseteq Instances

Init ==
    /\ \E s \in Starts : service = s.service /\ lease = s.lease /\ faults = s.faults
    /\ phase = [i \in Instances |-> "idle"]
    /\ tries = [i \in Instances |-> 0]
    /\ req = [i \in Instances |-> NoReq]
    /\ ghost = [i \in Instances |-> NoReq]
    /\ held = [i \in Instances |-> NotHeld]
    /\ watch = [i \in Instances |-> NoWatch]
    /\ misdeleted = {}

-----------------------------------------------------------------------------
(* Clocks.                                                                 *)

\* write_deadline: two thirds of a TTL, on the monotonic and on the wall clock.
Fence(i) == (Ttl[i] * 2) \div 3

\* One moment older; beyond the cap ages are not told apart.
Older(a, cap) == IF a < cap THEN a + 1 ELSE a

\* A mutant of MayWrite: the monotonic clock alone.
MayWriteMono(i) == phase[i] \in Holding /\ held[i].mono < Fence(i)

MayWrite(i) ==
    /\ phase[i] \in Holding
    /\ held[i].mono < Fence(i)
    /\ held[i].wall < Fence(i)

\* now - renewed_at, both on the clock of whoever stamped or reads it.
Elapsed(c) == lease.age + Diff(c, lease.id)
IsFresh(c) == Elapsed(c) < lease.ttl
IsSuspect(c) == lease.ttl > MaxSane \/ -Elapsed(c) > lease.ttl

Aged(i, r, moves) ==
    IF r.op \in {"none", "delete"} THEN r
    ELSE [r EXCEPT !.wall = Older(r.wall, AgeCap),
                   !.mono = IF moves THEN Older(r.mono, Fence(i)) ELSE r.mono]

\* Time passes.  The monotonic clock of a suspended machine stands still.
Tick(S) ==
    /\ IF S = {} THEN UNCHANGED faults ELSE faults < MaxFaults /\ faults' = faults + 1
    /\ lease' = IF lease.there THEN [lease EXCEPT !.age = Older(lease.age, AgeCap)] ELSE lease
    /\ req' = [i \in Instances |-> Aged(i, req[i], i \notin S)]
    /\ ghost' = [i \in Instances |-> Aged(i, ghost[i], FALSE)]
    /\ held' = [i \in Instances |->
                  IF held[i] = NotHeld THEN NotHeld
                  ELSE [held[i] EXCEPT !.wall = Older(held[i].wall, Fence(i)),
                                       !.mono = IF i \in S THEN held[i].mono
                                                ELSE Older(held[i].mono, Fence(i))]]
    /\ watch' = [i \in Instances |->
                  IF watch[i].on /\ i \notin S
                  THEN [watch[i] EXCEPT !.age = Older(watch[i].age, Ttl[i])] ELSE watch[i]]
    /\ UNCHANGED <<service, phase, tries, misdeleted>>

-----------------------------------------------------------------------------
(* The service.                                                            *)

Verdict(r) ==
    LET by(treatment, meets) ==
            CASE treatment = "honours" -> IF meets THEN "ok" ELSE "refused"
              [] treatment = "ignores" -> "ok"
              [] OTHER -> "unimplemented"
    IN CASE r.op = "create" -> by(service.create, ~lease.there)
         [] r.op = "update" -> by(service.update, r.tok)
         [] r.op = "fake"   -> by(service.update, FALSE)
         [] OTHER -> "ok"

Record(i, age) == [id |-> i, age |-> age, ttl |-> Ttl[i], parses |-> TRUE, there |-> TRUE]

\* No version remembered before a write of the object matches it afterwards.
Outdated(f) == [i \in Instances |-> [f[i] EXCEPT !.tok = FALSE]]

\* A late request that the service would refuse changes nothing when it lands.
Hopeless(r) == r.op = "update" /\ ~r.tok /\ service.update # "ignores"
Pending(f) == [i \in Instances |-> IF Hopeless(f[i]) THEN NoReq ELSE f[i]]

\* Request r of instance i arrives: the object's new value, and what becomes
\* of the versions the instances remember.
Arrives(i, r) ==
    LET v == Verdict(r) IN
    /\ lease' = IF v # "ok" THEN lease
                ELSE IF r.op = "delete" THEN NoLease ELSE Record(i, r.wall)
    /\ held' = IF v = "ok" THEN Outdated(held) ELSE held
    /\ watch' = IF v = "ok" THEN Outdated(watch) ELSE watch
    /\ misdeleted' =
         IF r.op = "delete" /\ lease.there /\ ~r.tok /\ lease.id \in Instances
         THEN misdeleted \cup {lease.id} ELSE misdeleted

\* A request somebody waits for lands; the answer carries the new version.
Land(i) ==
    /\ req[i].out = "sent"
    /\ Arrives(i, req[i])
    /\ LET v == Verdict(req[i])
           before == IF v = "ok" THEN Outdated(req) ELSE req IN
       /\ req' = [before EXCEPT ![i].out = v,
                                ![i].tok = v = "ok" /\ req[i].op # "delete"]
       /\ ghost' = IF v = "ok" THEN Pending(Outdated(ghost)) ELSE ghost
    /\ UNCHANGED <<service, phase, tries, faults>>

\* A request nobody waits for any more lands late.
LandLate(i) ==
    /\ ghost[i].op # "none"
    /\ Arrives(i, ghost[i])
    /\ LET ok == Verdict(ghost[i]) = "ok" IN
       /\ ghost' = [(IF ok THEN Pending(Outdated(ghost)) ELSE ghost) EXCEPT ![i] = NoReq]
       /\ req' = IF ok THEN Outdated(req) ELSE req
    /\ UNCHANGED <<service, phase, tries, faults>>

Send(op, tok, mono, wall) ==
    [op |-> op, tok |-> tok, mono |-> mono, wall |-> wall, out |-> "sent"]

\* The client stops waiting for its request.  If that has not landed it is
\* lost, or lands later (as the instance's ghost).
Abandoned(i) ==
    \/ ghost' = ghost
    \/ /\ req[i].out = "sent"
       /\ faults < MaxFaults
       /\ ghost[i].op = "none" /\ ~Hopeless(req[i])
       /\ ghost' = [ghost EXCEPT ![i] = [req[i] EXCEPT !.mono = 0]]

-----------------------------------------------------------------------------
(* Taking the lease: acquire_as, one round after the other.                *)

\* take_lease starts an attempt.
StartAcquire(i) ==
    /\ phase[i] = "idle"
    /\ phase' = [phase EXCEPT ![i] = "read"]
    /\ tries' = [tries EXCEPT ![i] = Races]
    /\ UNCHANGED <<service, lease, req, ghost, held, watch, faults, misdeleted>>

\* foreign_blocks: a fresh foreign record keeps the contender out, unless it
\* is suspect and has not changed for one of the contender's TTLs.
ForeignBlocks(i) ==
    /\ lease.there /\ lease.parses /\ lease.id # i
    /\ IsFresh(i)
    /\ ~ (IsSuspect(i) /\ watch[i].on /\ watch[i].tok /\ watch[i].age >= Ttl[i])

\* A mutant of Blocked: every look at a suspect record starts the watch again.
BlockedRewatch(i) ==
    /\ phase[i] = "read" /\ ForeignBlocks(i)
    /\ watch' = [watch EXCEPT ![i] =
                   IF IsSuspect(i) THEN [on |-> TRUE, tok |-> TRUE, age |-> 0] ELSE NoWatch]
    /\ phase' = [phase EXCEPT ![i] = "idle"]
    /\ tries' = [tries EXCEPT ![i] = 0]
    /\ UNCHANGED <<service, lease, req, ghost, held, faults, misdeleted>>

\* A round reads LEASE and finds it fresh and foreign: ForeignActive.
Blocked(i) ==
    /\ phase[i] = "read"
    /\ ForeignBlocks(i)
    /\ watch' = [watch EXCEPT ![i] =
                   IF ~IsSuspect(i) THEN NoWatch
                   ELSE IF watch[i].on /\ watch[i].tok THEN watch[i]
                   ELSE [on |-> TRUE, tok |-> TRUE, age |-> 0]]
    /\ phase' = [phase EXCEPT ![i] = "idle"]
    /\ tries' = [tries EXCEPT ![i] = 0]
    /\ UNCHANGED <<service, lease, req, ghost, held, faults, misdeleted>>

\* A round reads LEASE, takes the time and sends the conditional PUT.
SendAcquire(i) ==
    /\ phase[i] = "read"
    /\ ~ForeignBlocks(i)
    /\ req' = [req EXCEPT ![i] = Send(IF lease.there THEN "update" ELSE "create",
                                      lease.there, 0, 0)]
    /\ phase' = [phase EXCEPT ![i] = "put"]
    /\ UNCHANGED <<service, lease, tries, ghost, held, watch, faults, misdeleted>>

\* A mutant of Confirm: the time is taken when the answer comes.
ConfirmNow(i, excl) ==
    held' = [held EXCEPT ![i] = [tok |-> req[i].tok, mono |-> 0, wall |-> 0, excl |-> excl]]

\* The lease is as the answered request left it, since the moment just before
\* that was sent.
Confirm(i, excl) ==
    held' = [held EXCEPT ![i] =
               [tok |-> req[i].tok, mono |-> req[i].mono,
                wall |-> IF req[i].wall < Fence(i) THEN req[i].wall ELSE Fence(i),
                excl |-> excl]]

\* The conditional PUT is answered.
PutAnswered(i) ==
    /\ phase[i] = "put"
    /\ \/ /\ req[i].out = "ok"
          /\ Confirm(i, "Conditional")
          /\ req' = [req EXCEPT ![i] = Send("create", FALSE, req[i].mono, req[i].wall)]
          /\ phase' = [phase EXCEPT ![i] = "probeCreate"]
          /\ tries' = [tries EXCEPT ![i] = 0]
       \/ /\ req[i].out = "refused"
          /\ tries' = [tries EXCEPT ![i] = @ - 1]
          /\ phase' = [phase EXCEPT ![i] = IF tries[i] > 1 THEN "read" ELSE "idle"]
          /\ req' = [req EXCEPT ![i] = NoReq]
          /\ UNCHANGED held
       \/ /\ req[i].out = "unimplemented"
          /\ req' = [req EXCEPT ![i] = Send("force", FALSE, req[i].mono, req[i].wall)]
          /\ phase' = [phase EXCEPT ![i] = "force"]
          /\ tries' = [tries EXCEPT ![i] = 0]
          /\ UNCHANGED held
    /\ UNCHANGED <<service, lease, ghost, watch, faults, misdeleted>>

\* The unconditional PUT of a client without preconditions is answered.
ForceAnswered(i) ==
    /\ phase[i] = "force"
    /\ req[i].out = "ok"
    /\ Confirm(i, "BestEffort")
    /\ req' = [req EXCEPT ![i] = NoReq]
    /\ watch' = [watch EXCEPT ![i] = NoWatch]
    /\ phase' = [phase EXCEPT ![i] = "held"]
    /\ UNCHANGED <<service, lease, tries, ghost, faults, misdeleted>>

\* A mutant of ProbeAnswered: a probe that cannot be sent is as good as a refusal.
ProbeAnsweredStrong(i) ==
    /\ phase[i] \in {"probeCreate", "probeUpdate"}
    /\ req[i].out \in {"refused", "unimplemented"}
    /\ req' = [req EXCEPT ![i] = IF phase[i] = "probeCreate"
                                 THEN Send("fake", FALSE, req[i].mono, req[i].wall) ELSE NoReq]
    /\ phase' = [phase EXCEPT ![i] = IF @ = "probeCreate" THEN "probeUpdate" ELSE "held"]
    /\ UNCHANGED <<service, lease, tries, ghost, held, watch, faults, misdeleted>>

\* probe: a write that must be refused is answered.  One that was accepted
\* shows that the service ignores the header: the prefix is handed back.
ProbeAnswered(i) ==
    /\ phase[i] \in {"probeCreate", "probeUpdate"}
    /\ \/ /\ req[i].out \in {"refused", "unimplemented"}
          /\ held' = [held EXCEPT ![i].excl =
                        IF req[i].out = "unimplemented" THEN "BestEffort" ELSE @]
          /\ IF phase[i] = "probeCreate"
             THEN /\ req' = [req EXCEPT ![i] = Send("fake", FALSE, req[i].mono, req[i].wall)]
                  /\ phase' = [phase EXCEPT ![i] = "probeUpdate"]
                  /\ UNCHANGED watch
             ELSE /\ req' = [req EXCEPT ![i] = NoReq]
                  /\ phase' = [phase EXCEPT ![i] = "held"]
                  /\ watch' = [watch EXCEPT ![i] = NoWatch]
       \/ /\ req[i].out = "ok"
          /\ held' = [held EXCEPT ![i] = NotHeld]
          /\ req' = [req EXCEPT ![i] = NoReq]
          /\ phase' = [phase EXCEPT ![i] = "handback"]
          /\ UNCHANGED watch
    /\ UNCHANGED <<service, lease, tries, ghost, faults, misdeleted>>

\* An attempt fails: a request fails, or the attempt's time is up.
AcquireFails(i) ==
    /\ phase[i] \in Acquiring
    /\ faults < MaxFaults
    /\ faults' = faults + 1
    /\ Abandoned(i)
    /\ req' = [req EXCEPT ![i] = NoReq]
    /\ held' = [held EXCEPT ![i] = NotHeld]
    /\ phase' = [phase EXCEPT ![i] = "idle"]
    /\ tries' = [tries EXCEPT ![i] = 0]
    /\ UNCHANGED <<service, lease, watch, misdeleted>>

-----------------------------------------------------------------------------
(* Renewing the lease.                                                     *)

\* renew_loop wakes a third of a TTL after the last renewal.
SendRenew(i) ==
    /\ phase[i] = "held"
    /\ held[i].mono >= Ttl[i] \div 3
    /\ IF held[i].excl = "Conditional"
       THEN /\ req' = [req EXCEPT ![i] = Send("update", held[i].tok, 0, 0)]
            /\ phase' = [phase EXCEPT ![i] = "renew"]
       ELSE /\ req' = [req EXCEPT ![i] = [Send("force", FALSE, 0, 0) EXCEPT !.out = "none"]]
            /\ phase' = [phase EXCEPT ![i] = "beRead"]
    /\ UNCHANGED <<service, lease, tries, ghost, held, watch, faults, misdeleted>>

Lose(i) ==
    /\ phase' = [phase EXCEPT ![i] = "lost"]
    /\ req' = [req EXCEPT ![i] = NoReq]
    /\ held' = [held EXCEPT ![i] = NotHeld]

\* The renewal, or reconcile's second one, is answered.  The code also meets
\* a client without conditional writes here, which only a probe that found
\* them would leave to it: the treatment of a service does not change.
RenewAnswered(i) ==
    /\ phase[i] \in {"renew", "reswap", "bePut"}
    /\ \/ /\ req[i].out = "ok"
          /\ Confirm(i, held[i].excl)
          /\ req' = [req EXCEPT ![i] = NoReq]
          /\ phase' = [phase EXCEPT ![i] = "held"]
       \/ /\ req[i].out = "refused"
          /\ phase[i] = "renew"
          /\ req' = [req EXCEPT ![i].out = "none"]
          /\ phase' = [phase EXCEPT ![i] = "reread"]
          /\ UNCHANGED held
       \/ /\ req[i].out = "refused"
          /\ phase[i] = "reswap"
          /\ Lose(i)
    /\ UNCHANGED <<service, lease, tries, ghost, watch, faults, misdeleted>>

NamesUs(i) == lease.there /\ lease.parses /\ lease.id = i

\* reconcile and renew_best_effort read LEASE before they write again.
Reread(i) ==
    /\ phase[i] \in {"reread", "beRead"}
    /\ IF NamesUs(i)
       THEN /\ req' = [req EXCEPT ![i] =
                         Send(IF phase[i] = "reread" THEN "update" ELSE "force",
                              phase[i] = "reread", req[i].mono, req[i].wall)]
            /\ phase' = [phase EXCEPT ![i] = IF @ = "reread" THEN "reswap" ELSE "bePut"]
            /\ UNCHANGED held
       ELSE Lose(i)
    /\ UNCHANGED <<service, lease, tries, ghost, watch, faults, misdeleted>>

\* A request of the renewal fails or times out; the loop tries again later.
RenewFails(i) ==
    /\ phase[i] \in Renewing
    /\ faults < MaxFaults
    /\ faults' = faults + 1
    /\ Abandoned(i)
    /\ req' = [req EXCEPT ![i] = NoReq]
    /\ phase' = [phase EXCEPT ![i] = "held"]
    /\ UNCHANGED <<service, lease, tries, held, watch, misdeleted>>

\* mark_lost: the bucket refused another write, so somebody else is writing.
MarkLost(i) ==
    /\ phase[i] \in Holding
    /\ faults < MaxFaults
    /\ faults' = faults + 1
    /\ Abandoned(i)
    /\ Lose(i)
    /\ UNCHANGED <<service, lease, tries, watch, misdeleted>>

\* take_lease drops a handle that was lost, and starts over.
DropLost(i) ==
    /\ phase[i] = "lost"
    /\ phase' = [phase EXCEPT ![i] = "idle"]
    /\ UNCHANGED <<service, lease, tries, req, ghost, held, watch, faults, misdeleted>>

-----------------------------------------------------------------------------
(* Giving the lease up, and dying with it.                                 *)

\* Shutdown: the renewer or the pending attempt is cancelled and the record
\* is released; a lost handle releases nothing.
Shutdown(i) ==
    /\ phase[i] \in {"idle", "lost"} \cup Acquiring \cup Holding
    /\ Abandoned(i)
    /\ req' = [req EXCEPT ![i] = NoReq]
    /\ held' = [held EXCEPT ![i] = NotHeld]
    /\ phase' = [phase EXCEPT ![i] = IF @ = "lost" THEN "gone" ELSE "release"]
    /\ tries' = [tries EXCEPT ![i] = 0]
    /\ faults' = IF ghost' = ghost THEN faults ELSE faults + 1
    /\ UNCHANGED <<service, lease, watch, misdeleted>>

\* release_own_record reads LEASE; it deletes the record only if it is its own.
ReadRelease(i) ==
    /\ phase[i] \in {"release", "handback"}
    /\ IF NamesUs(i)
       THEN /\ req' = [req EXCEPT ![i] = Send("delete", TRUE, 0, 0)]
            /\ phase' = [phase EXCEPT ![i] = IF @ = "release" THEN "delete" ELSE "handback"]
       ELSE /\ phase' = [phase EXCEPT ![i] = IF @ = "release" THEN "gone" ELSE "idle"]
            /\ UNCHANGED req
    /\ req[i] = NoReq
    /\ UNCHANGED <<service, lease, tries, ghost, held, watch, faults, misdeleted>>

\* The DELETE is answered, or nobody waits for it any longer.
ReleaseEnds(i) ==
    /\ phase[i] \in {"delete", "handback"}
    /\ req[i].op = "delete"
    /\ \/ req[i].out = "ok" /\ UNCHANGED <<ghost, faults>>
       \/ /\ faults < MaxFaults
          /\ faults' = faults + 1
          /\ Abandoned(i)
    /\ req' = [req EXCEPT ![i] = NoReq]
    /\ phase' = [phase EXCEPT ![i] = IF @ = "delete" THEN "gone" ELSE "idle"]
    /\ UNCHANGED <<service, lease, tries, held, watch, misdeleted>>

\* The process dies.  A process started in its place has another id.
Crash(i) ==
    /\ phase[i] # "gone"
    /\ Abandoned(i)
    /\ req' = [req EXCEPT ![i] = NoReq]
    /\ held' = [held EXCEPT ![i] = NotHeld]
    /\ watch' = [watch EXCEPT ![i] = NoWatch]
    /\ phase' = [phase EXCEPT ![i] = "gone"]
    /\ tries' = [tries EXCEPT ![i] = 0]
    /\ faults' = IF ghost' = ghost THEN faults ELSE faults + 1
    /\ UNCHANGED <<service, lease, misdeleted>>

-----------------------------------------------------------------------------
Proceed(i) ==
    \/ StartAcquire(i) \/ Blocked(i) \/ SendAcquire(i)
    \/ PutAnswered(i) \/ ForceAnswered(i) \/ ProbeAnswered(i)
    \/ SendRenew(i) \/ RenewAnswered(i) \/ Reread(i) \/ DropLost(i)
    \/ ReadRelease(i) \/ ReleaseEnds(i)
    \/ Land(i)

Fault(i) == AcquireFails(i) \/ RenewFails(i) \/ MarkLost(i) \/ Shutdown(i) \/ Crash(i)

Next ==
    \/ \E i \in Instances : Proceed(i) \/ Fault(i) \/ LandLate(i)
    \/ \E S \in SUBSET Suspends : Tick(S)

\* The worker's loop and its tasks go on, the service answers all but finitely
\* many requests (MaxFaults), and time passes.
Fairness ==
    /\ \A i \in Instances : WF_vars(Proceed(i))
    /\ WF_vars(Tick({}))

Spec == Init /\ [][Next]_vars
FairSpec == Spec /\ Fairness

-----------------------------------------------------------------------------
(* Properties.                                                             *)

Conditional == service = [create |-> "honours", update |-> "honours"]
SkewAbsorbed == \A i, j \in Instances : Diff(j, i) =< Ttl[i] \div 3

\* Nobody writes beside the holder (lease.rs, "A holder fences itself"): on a
\* service that honours preconditions, with clocks a third of a TTL apart, two
\* instances never both pass may_write, whatever answers were lost, however
\* late requests landed, and however long a holder or its machine slept.  The
\* one exception is the documented one: a release whose DELETE removed another
\* record than the one it had read.
OneWriter ==
    Conditional /\ SkewAbsorbed /\ misdeleted = {} =>
        \A i, j \in Instances : MayWrite(i) /\ MayWrite(j) => i = j

\* "Exclusion is never weakened silently": an instance that works with a
\* conditional lease works on a service that honours both preconditions.
NeverSilentlyWeak ==
    \A i \in Instances :
        phase[i] \in Holding /\ held[i].excl = "Conditional" => Conditional

\* A holder that is told its lease stands really had it: from a renewal's
\* landing to the holder's hearing of it, nobody else's write came between
\* unless the holder is fenced when it hears.
ConfirmedIsOurs ==
    [][\A i \in Instances :
         Conditional /\ SkewAbsorbed /\ misdeleted' = {} /\ ~MayWrite(i) /\ MayWrite(i)'
             => lease'.there /\ lease'.id = i]_vars

\* The record of a holder that died, or a suspect one nobody renews, does not
\* block the prefix for ever: as long as an instance keeps trying, it is
\* replaced or removed (worker.rs, "takes over within a TTL").
Orphaned == lease.there /\ (lease.id = Stranger \/ phase[lease.id] = "gone")
DeadLeaseIsTaken ==
    Orphaned ~> (~Orphaned \/ \A i \in Instances : phase[i] \in {"release", "delete", "gone"})
=============================================================================
