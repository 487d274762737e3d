------------------------------ MODULE TxStore ------------------------------
(***************************************************************************)
(* The server's registry of open transactions: crates/server/src/tx.rs.    *)
(*                                                                         *)
(* An HTTP request checks a transaction out of the registry, works on it   *)
(* on a blocking thread with no lock held, and hands it back or ends it.   *)
(* Meanwhile the reaper, other requests and the shutdown act on the same   *)
(* registry.  Each operation here is one critical section of the registry  *)
(* mutex, with the handler code around it.                                 *)
(*                                                                         *)
(* Time is relative: a slot counts down to its deadline and to the end of  *)
(* its lifetime, a tombstone to the end of its retention.  Ids are random  *)
(* 128-bit numbers, so an id is never given twice.                         *)
(***************************************************************************)
EXTENDS Integers, FiniteSets

CONSTANTS
    Ids,
    Owners,        \* credentials
    Requests,      \* requests under way at once
    MaxOpen,       \* TxLimits::max_open
    Idle,          \* TxLimits::idle_timeout, in ticks
    Lifetime,      \* TxLimits::max_lifetime
    Retention,     \* how long a tombstone is kept
    MaxTombstones

ASSUME TxStoreConstants ==
    /\ IsFiniteSet(Ids)
    /\ MaxOpen \in Nat \ {0} /\ Idle \in Nat \ {0} /\ Lifetime \in Nat \ {0}
    /\ Retention \in Nat \ {0} /\ MaxTombstones \in Nat \ {0}
    /\ "nobody" \notin Owners /\ "none" \notin Ids

VARIABLES
    open,     \* the ids of Registry::open
    slot,     \* their slots
    expired,  \* the ids of Registry::expired
    tomb,     \* their tombstones
    closed,   \* Registry::closed
    request,  \* what each request is doing, for whom, on which transaction
    belongs,  \* who began each transaction
    outcome,  \* what became of each transaction
    leaked    \* transactions a stranger heard of

registry == <<open, slot, expired, tomb, closed>>
vars == <<registry, request, belongs, outcome, leaked>>

\* `left` counts to the deadline, `life` to the end of the lifetime; `body` is
\* FALSE while a request has the transaction checked out.
NoSlot == [owner |-> "nobody", left |-> 0, life |-> 0, body |-> FALSE]
NoTomb == [owner |-> "nobody", left |-> 0, why |-> "none"]
NoRequest == [doing |-> "none", owner |-> "nobody", id |-> "none"]

Init ==
    /\ open = {} /\ slot = [i \in Ids |-> NoSlot]
    /\ expired = {} /\ tomb = [i \in Ids |-> NoTomb]
    /\ closed = FALSE
    /\ request = [r \in Requests |-> NoRequest]
    /\ belongs = [i \in Ids |-> "nobody"]
    /\ outcome = [i \in Ids |-> "unborn"]
    /\ leaked = {}

-----------------------------------------------------------------------------
(* The registry.                                                           *)

Smaller(a, b) == IF a < b THEN a ELSE b

\* next_deadline
NextDeadline(life) == Smaller(Idle, life)

\* expiry: which limit a due slot ran into.
Expiry(i) == IF ~slot[i].body \/ slot[i].left >= slot[i].life THEN "Lifetime" ELSE "Idle"

\* Mutants of Due: a request's time on a slot counts as idle; no lifetime.
DueHeld == {i \in open : slot[i].left <= 0 \/ slot[i].life <= 0}
DueIdle == {i \in open : slot[i].body /\ slot[i].left <= 0}

\* reap_locked: the slots to expire, and the tombstones it does not retain.
Due == {i \in open : (slot[i].body /\ slot[i].left <= 0) \/ slot[i].life <= 0}
Retained == {i \in expired : tomb[i].left > 0}

\* remember, for each of `ids`: the oldest tombstones make room.
Remember(ids, before) ==
    \E kept \in SUBSET (before \cup ids) :
        /\ Cardinality(kept) = Smaller(MaxTombstones, Cardinality(before \cup ids))
        /\ \A i \in before \ kept : \A j \in kept \cap before : tomb[i].left <= tomb[j].left
        /\ before \cap kept # {} => ids \subseteq kept
        /\ expired' = kept
        /\ tomb' = [i \in Ids |->
              IF i \notin kept THEN NoTomb
              ELSE IF i \in ids
              THEN [owner |-> slot[i].owner, left |-> Retention, why |-> Expiry(i)]
              ELSE tomb[i]]

SlotsWithout(ids) == [i \in Ids |-> IF i \in ids THEN NoSlot ELSE slot[i]]

\* The bodies in these slots are dropped, which rolls them back.
Dropped(ids) ==
    [i \in Ids |-> IF i \in ids /\ slot[i].body THEN "rolled back" ELSE outcome[i]]

\* expire, for each of `ids`.
Expire(ids, before) ==
    /\ open' = open \ ids /\ slot' = SlotsWithout(ids)
    /\ Remember(ids, before)
    /\ outcome' = Dropped(ids)

\* missing: the answer for an id that is not open.
Missing(i, o) == IF i \in expired /\ tomb[i].owner = o THEN "Expired" ELSE "NotFound"

\* What checkout answers; info answers the same.
Lookup(i, o) ==
    IF i \notin open THEN Missing(i, o)
    ELSE IF slot[i].owner # o THEN "NotFound"
    ELSE IF ~slot[i].body THEN "Busy"
    ELSE IF slot[i].left <= 0 THEN "Expired" ELSE "Ok"

\* A lookup that meets a due slot expires it.
Touch(i, answer) ==
    IF answer = "Expired" /\ i \in open THEN Expire({i}, expired)
    ELSE UNCHANGED <<open, slot, expired, tomb, outcome>>

\* The answer reaches the caller.
Answer(i, o, answer) ==
    leaked' = IF answer # "NotFound" /\ belongs[i] # o THEN leaked \cup {i} ELSE leaked

Frees(r) == request' = [request EXCEPT ![r] = NoRequest]

-----------------------------------------------------------------------------
(* The handlers.                                                           *)

\* begin, up to freezing the snapshot: has_room.
HasRoom(r, o) ==
    /\ request[r].doing = "none" /\ ~closed
    /\ Expire(Due, Retained)
    /\ request' = IF Cardinality(open') >= MaxOpen THEN request
                  ELSE [request EXCEPT ![r] = [doing |-> "begins", owner |-> o, id |-> "none"]]
    /\ UNCHANGED <<closed, belongs, leaked>>

\* The future is dropped, or the task that freezes the snapshot panics.
BeginDropped(r) ==
    /\ request[r].doing = "begins"
    /\ Frees(r)
    /\ UNCHANGED <<registry, belongs, outcome, leaked>>

\* TxStore::begin, refusing.
BeginRefused(r) ==
    /\ request[r].doing = "begins"
    /\ \/ closed /\ UNCHANGED <<registry, outcome>>
       \/ /\ ~closed
          /\ Expire(Due, Retained) /\ UNCHANGED closed
          /\ Cardinality(open') >= MaxOpen
    /\ Frees(r)
    /\ UNCHANGED <<belongs, leaked>>

\* TxStore::begin, registering a transaction.
Begin(r, i) ==
    /\ request[r].doing = "begins" /\ ~closed
    /\ outcome[i] = "unborn"
    /\ Cardinality(open \ Due) < MaxOpen
    /\ open' = (open \ Due) \cup {i}
    /\ slot' = [SlotsWithout(Due) EXCEPT ![i] =
                  [owner |-> request[r].owner, left |-> NextDeadline(Lifetime),
                   life |-> Lifetime, body |-> TRUE]]
    /\ Remember(Due, Retained)
    /\ outcome' = [Dropped(Due) EXCEPT ![i] = "open"]
    /\ belongs' = [belongs EXCEPT ![i] = request[r].owner]
    /\ Frees(r)
    /\ UNCHANGED <<closed, leaked>>

\* A mutant of Checkout: the body is used in place.
CheckoutShared(r, o, i, doing) ==
    /\ request[r].doing = "none" /\ Lookup(i, o) = "Ok"
    /\ request' = [request EXCEPT ![r] = [doing |-> doing, owner |-> o, id |-> i]]
    /\ UNCHANGED <<registry, belongs, outcome, leaked>>

\* run and commit, up to the blocking task: checkout takes the body.
Checkout(r, o, i, doing) ==
    /\ request[r].doing = "none" /\ Lookup(i, o) = "Ok"
    /\ slot' = [slot EXCEPT ![i].body = FALSE]
    /\ request' = [request EXCEPT ![r] = [doing |-> doing, owner |-> o, id |-> i]]
    /\ Answer(i, o, "Ok")
    /\ UNCHANGED <<open, expired, tomb, closed, belongs, outcome>>

\* run, commit, rollback or info, refused.
Refused(o, i) ==
    /\ Lookup(i, o) # "Ok" /\ Touch(i, Lookup(i, o))
    /\ Answer(i, o, Lookup(i, o))
    /\ UNCHANGED <<closed, request, belongs>>

\* rollback: checkout and finish.
Rollback(o, i) ==
    /\ Lookup(i, o) = "Ok"
    /\ open' = open \ {i} /\ slot' = SlotsWithout({i}) /\ outcome' = Dropped({i})
    /\ Answer(i, o, "Ok")
    /\ UNCHANGED <<expired, tomb, closed, request, belongs>>

\* Mutants of RunEnds: no look at `closed`; the lifetime starts again.
RunEndsAnyway(r) ==
    LET i == request[r].id IN
    /\ request[r].doing = "runs"
    /\ slot' = IF i \in open THEN [slot EXCEPT ![i].body = TRUE] ELSE slot
    /\ outcome' = IF i \in open THEN outcome ELSE [outcome EXCEPT ![i] = "rolled back"]
    /\ Frees(r) /\ UNCHANGED <<open, expired, tomb, closed, belongs, leaked>>
RunEndsReborn(r) ==
    LET i == request[r].id IN
    /\ request[r].doing = "runs"
    /\ slot' = IF i \in open /\ ~closed
               THEN [slot EXCEPT ![i].body = TRUE, ![i].left = Idle, ![i].life = Lifetime]
               ELSE SlotsWithout({i})
    /\ open' = IF closed THEN open \ {i} ELSE open
    /\ outcome' = IF i \in open /\ ~closed THEN outcome ELSE [outcome EXCEPT ![i] = "rolled back"]
    /\ Frees(r) /\ UNCHANGED <<expired, tomb, closed, belongs, leaked>>

\* checkin, when the statement has run: the transaction goes back unless the
\* server is closed or the slot is gone.
RunEnds(r) ==
    LET i == request[r].id
        kept == ~closed /\ i \in open
    IN  /\ request[r].doing = "runs"
        /\ IF kept
           THEN /\ slot' = [slot EXCEPT ![i].body = TRUE, ![i].left = NextDeadline(slot[i].life)]
                /\ UNCHANGED <<open, outcome>>
           ELSE /\ open' = open \ {i} /\ slot' = SlotsWithout({i})
                /\ outcome' = [outcome EXCEPT ![i] = "rolled back"]
        /\ Frees(r)
        /\ UNCHANGED <<expired, tomb, closed, belongs, leaked>>

\* The statement panics: the armed Lease ends the slot as the body unwinds.
RunPanics(r) ==
    LET i == request[r].id IN
    /\ request[r].doing = "runs"
    /\ open' = open \ {i} /\ slot' = SlotsWithout({i})
    /\ outcome' = [outcome EXCEPT ![i] = "rolled back"]
    /\ Frees(r)
    /\ UNCHANGED <<expired, tomb, closed, belongs, leaked>>

\* Transaction::commit on the blocking thread: it commits or is refused.
CommitApplies(r, result) ==
    /\ request[r].doing = "commits"
    /\ outcome' = [outcome EXCEPT ![request[r].id] = result]
    /\ request' = [request EXCEPT ![r].doing = "ends"]
    /\ UNCHANGED <<registry, belongs, leaked>>

\* The Lease's finish.
CommitEnds(r) ==
    LET i == request[r].id IN
    /\ request[r].doing = "ends"
    /\ open' = open \ {i} /\ slot' = SlotsWithout({i})
    /\ Frees(r)
    /\ UNCHANGED <<expired, tomb, closed, belongs, outcome, leaked>>

\* close, at the shutdown signal.
Close ==
    LET idle == {i \in open : slot[i].body} IN
    /\ ~closed /\ closed' = TRUE
    /\ open' = open \ idle /\ slot' = SlotsWithout(idle) /\ outcome' = Dropped(idle)
    /\ UNCHANGED <<expired, tomb, request, belongs, leaked>>

\* The reaper thread, which ends when the store is closed.
Reap ==
    /\ ~closed /\ Expire(Due, Retained)
    /\ UNCHANGED <<closed, request, belongs, leaked>>

\* Time passes.  A slot past its lifetime need not count further.
Tick ==
    /\ slot' = [i \in Ids |-> IF slot[i].life > 0
                              THEN [slot[i] EXCEPT !.left = @ - 1, !.life = @ - 1] ELSE slot[i]]
    /\ tomb' = [i \in Ids |-> IF tomb[i].left > 0 THEN [tomb[i] EXCEPT !.left = @ - 1] ELSE tomb[i]]
    /\ UNCHANGED <<open, expired, closed, request, belongs, outcome, leaked>>

-----------------------------------------------------------------------------
RequestEnds(r) ==
    \/ BeginDropped(r) \/ BeginRefused(r) \/ \E i \in Ids : Begin(r, i)
    \/ RunEnds(r) \/ RunPanics(r)
    \/ \E result \in {"committed", "rolled back"} : CommitApplies(r, result)
    \/ CommitEnds(r)

Next ==
    \/ \E r \in Requests : RequestEnds(r)
    \/ \E r \in Requests, o \in Owners :
         \/ HasRoom(r, o)
         \/ \E i \in Ids, doing \in {"runs", "commits"} : Checkout(r, o, i, doing)
    \/ \E o \in Owners, i \in Ids : Refused(o, i) \/ Rollback(o, i)
    \/ Close \/ Reap \/ Tick

Spec == Init /\ [][Next]_vars

\* Time passes and the reaper thread keeps waking.
ReaperSpec == Spec /\ WF_vars(Tick) /\ WF_vars(Reap)

\* A further assumption, of some properties only: every request's blocking task
\* ends.
RequestsEnd == \A r \in Requests : WF_vars(RequestEnds(r))

-----------------------------------------------------------------------------
(* Properties.                                                             *)

Slots == [owner : Owners \cup {"nobody"}, left : Int, life : 0..Lifetime, body : BOOLEAN]
Tombs == [owner : Owners \cup {"nobody"}, left : 0..Retention, why : {"none", "Idle", "Lifetime"}]
Doings == {"none", "begins", "runs", "commits", "ends"}

\* Every variable holds a value of its kind.
TypeOK ==
    /\ open \subseteq Ids /\ slot \in [Ids -> Slots]
    /\ expired \subseteq Ids /\ tomb \in [Ids -> Tombs]
    /\ closed \in BOOLEAN
    /\ request \in [Requests -> [doing : Doings, owner : Owners \cup {"nobody"},
                                 id : Ids \cup {"none"}]]
    /\ belongs \in [Ids -> Owners \cup {"nobody"}]
    /\ outcome \in [Ids -> {"unborn", "open", "committed", "rolled back"}]
    /\ leaked \subseteq Ids

Holds(r, i) == request[r].doing \in {"runs", "commits", "ends"} /\ request[r].id = i

\* "At most MUSHROOMDB_TX_MAX open at once", although begin checks for room, lets
\* go of the lock to freeze a snapshot, and registers later.
AtMostOpen == Cardinality(open) <= MaxOpen

\* "two statements never interleave on one transaction": no two requests hold one
\* transaction, and none holds one that another could still check out.
OneRequestAtATime ==
    \A i \in Ids : \A r \in Requests : Holds(r, i) =>
        /\ i \in open => ~slot[i].body
        /\ \A q \in Requests : Holds(q, i) => q = r

\* A slot that is checked out belongs to a request that will end it: no panic,
\* expiry or shutdown leaves one that answers Busy with nobody to hand it back.
NoStranded == \A i \in open : slot[i].body \/ \E r \in Requests : Holds(r, i)

\* After the shutdown only transactions that a request holds are left, and no
\* new one appears: what ends later is rolled back, not put back.
ClosedIsHeld == closed => \A i \in open : ~slot[i].body

\* Nobody but the credential that began a transaction gets another answer for it
\* than for an id that never existed.
OnlyOwnerHears == leaked = {}

\* An open transaction is still undecided and one that is decided is not given
\* out again: a slot with its body is never of a committed or rolled-back one.
OpenIsUndecided == \A i \in open : slot[i].body => outcome[i] = "open"

\* What every interleaving of the registry's critical sections keeps: one request
\* at a time on a transaction, the limit, a taker for every slot that is out,
\* nothing left in after close but what is out, no answer to a stranger, and
\* nothing decided given out again.
RegistrySound ==
    /\ OneRequestAtATime
    /\ AtMostOpen
    /\ NoStranded
    /\ ClosedIsHeld
    /\ OnlyOwnerHears
    /\ OpenIsUndecided

\* A transaction is expired for its lifetime only past it, and for idleness only
\* past its deadline with no request on it, whichever of the reaper, begin,
\* checkout or info notices and however late.
OnlyDueExpire ==
    [][\A i \in expired' \ expired :
         /\ i \in open
         /\ IF tomb'[i].why = "Lifetime" THEN slot[i].life <= 0
            ELSE slot[i].body /\ slot[i].left <= 0]_vars

\* "Past it the transaction is rolled back, even if a request is running on it":
\* every slot is freed though its request may never end, until the shutdown.
EverySlotIsFreed == \A i \in Ids : i \in open ~> (i \notin open \/ closed)

\* If requests end, every transaction that is begun is decided, however busy its
\* client keeps it.
EveryTransactionEnds ==
    RequestsEnd => \A i \in Ids :
        outcome[i] = "open" ~> outcome[i] \in {"committed", "rolled back"}

\* If requests end, the registry empties after the shutdown signal.
ShutdownDrains == RequestsEnd => (closed ~> open = {})
=============================================================================
