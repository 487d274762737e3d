--------------------------- MODULE TxStoreProofs ---------------------------
(***************************************************************************)
(* TLAPS proofs about TxStore, for every number of ids, owners and         *)
(* requests and for all limits.  The inductive invariant adds to the       *)
(* checked properties what ties the registry to the requests: a held       *)
(* transaction is undecided until its commit is applied, an id in the      *)
(* registry has been given out, and slots and tombstones name the owner    *)
(* that began them.                                                        *)
(***************************************************************************)
EXTENDS TxStore, FiniteSetTheorems, TLAPS

\* A request that holds a transaction holds one that was begun, and nothing
\* decides it before the request's own commit is applied.
HeldIsUndecided ==
    \A r \in Requests : request[r].doing \in {"runs", "commits", "ends"} =>
        /\ request[r].id \in Ids
        /\ outcome[request[r].id] # "unborn"
        /\ request[r].doing # "ends" => outcome[request[r].id] = "open"

\* An id is in the registry, open or expired, only after begin gave it out.
InUseIsBorn == \A i \in open \cup expired : outcome[i] # "unborn"

\* Slots and tombstones name the credential that began the transaction.
OwnersAgree ==
    /\ \A i \in open : slot[i].owner = belongs[i]
    /\ \A i \in expired : tomb[i].owner = belongs[i]

\* The conjuncts about which request has what.
Custody == OneRequestAtATime /\ NoStranded /\ ClosedIsHeld /\ OpenIsUndecided
           /\ HeldIsUndecided /\ InUseIsBorn

\* The inductive invariant.
Inv == TypeOK /\ AtMostOpen /\ Custody /\ OwnersAgree /\ OnlyOwnerHears

-----------------------------------------------------------------------------
(* The registry's operators.                                               *)

\* Sets of ids are finite, and a smaller one has no more elements.
LEMMA SmallerSets ==
    ASSUME NEW A \in SUBSET Ids, NEW B \in SUBSET A
    PROVE  IsFiniteSet(A) /\ Cardinality(A) \in Nat /\ Cardinality(B) \in Nat
           /\ Cardinality(B) <= Cardinality(A)
<1>1. IsFiniteSet(A) BY TxStoreConstants, FS_Subset
<1>2. IsFiniteSet(B) BY <1>1, FS_Subset
<1> QED BY <1>1, <1>2, FS_Subset, FS_CardinalityType

\* Dropping slots keeps the registry within its limit.
LEMMA FewerOpen ==
    ASSUME TypeOK, AtMostOpen, NEW B \in SUBSET open
    PROVE  Cardinality(B) <= MaxOpen
<1>1. open \in SUBSET Ids BY DEF TypeOK
<1>2. Cardinality(open) \in Nat /\ Cardinality(B) \in Nat /\ Cardinality(B) <= Cardinality(open)
  BY <1>1, SmallerSets
<1> QED BY <1>2, TxStoreConstants DEF AtMostOpen

\* A deadline is a number, whatever is left of the lifetime.
LEMMA DeadlineType ==
    ASSUME NEW life \in 0..Lifetime
    PROVE  NextDeadline(life) \in Int
BY TxStoreConstants DEF NextDeadline, Smaller

\* What remember leaves: tombstones that were there or that it was given, each
\* with its owner, and for a new one the limit its slot ran into.
LEMMA RememberKeeps ==
    ASSUME TypeOK, NEW ids \in SUBSET open, NEW before \in SUBSET expired, Remember(ids, before)
    PROVE  /\ expired' \subseteq expired \cup ids
           /\ tomb' \in [Ids -> Tombs]
           /\ \A i \in expired' : IF i \in ids THEN tomb'[i].owner = slot[i].owner
                                                    /\ tomb'[i].why = Expiry(i)
                                  ELSE tomb'[i].owner = tomb[i].owner
<1>1. PICK kept \in SUBSET (before \cup ids) :
          /\ expired' = kept
          /\ tomb' = [i \in Ids |->
                IF i \notin kept THEN NoTomb
                ELSE IF i \in ids
                THEN [owner |-> slot[i].owner, left |-> Retention, why |-> Expiry(i)]
                ELSE tomb[i]]
  BY DEF Remember
<1>2. NoTomb \in Tombs BY TxStoreConstants DEF NoTomb, Tombs
<1>3. \A i \in ids : [owner |-> slot[i].owner, left |-> Retention, why |-> Expiry(i)] \in Tombs
  <2> SUFFICES ASSUME NEW i \in ids
               PROVE  [owner |-> slot[i].owner, left |-> Retention, why |-> Expiry(i)] \in Tombs
    OBVIOUS
  <2>1. slot[i] \in Slots BY DEF TypeOK
  <2>2. slot[i].owner \in Owners \cup {"nobody"} BY <2>1 DEF Slots
  <2>3. Retention \in 0..Retention BY TxStoreConstants
  <2>4. Expiry(i) \in {"none", "Idle", "Lifetime"} BY DEF Expiry
  <2> QED BY <2>2, <2>3, <2>4 DEF Tombs
<1>4. tomb' \in [Ids -> Tombs] BY <1>1, <1>2, <1>3 DEF TypeOK
<1> QED BY <1>1, <1>4 DEF TypeOK

\* Slots that are taken away leave the others as they were.
LEMMA SlotsWithoutType ==
    ASSUME TypeOK, NEW ids \in SUBSET Ids
    PROVE  /\ SlotsWithout(ids) \in [Ids -> Slots]
           /\ \A i \in Ids \ ids : SlotsWithout(ids)[i] = slot[i]
<1>1. NoSlot \in Slots BY TxStoreConstants DEF NoSlot, Slots
<1> QED BY <1>1 DEF TypeOK, SlotsWithout

\* Rolling back the bodies in slots decides only those.
LEMMA DroppedType ==
    ASSUME TypeOK, NEW ids \in SUBSET Ids
    PROVE  /\ Dropped(ids) \in [Ids -> {"unborn", "open", "committed", "rolled back"}]
           /\ \A i \in Ids : IF i \in ids /\ slot[i].body THEN Dropped(ids)[i] = "rolled back"
                             ELSE Dropped(ids)[i] = outcome[i]
BY DEF TypeOK, Dropped

\* The slots and tombstones reap_locked chooses are of the registry.
LEMMA DueIsOpen == Due \subseteq open /\ Retained \subseteq expired
BY DEF Due, Retained

\* No request holds a slot whose body expiry or shutdown drops.
LEMMA DroppedIsFree ==
    ASSUME TypeOK, Custody, NEW i \in open, slot[i].body, NEW r \in Requests,
           request[r].doing \in {"runs", "commits", "ends"}
    PROVE  request[r].id # i
BY DEF TypeOK, Custody, OneRequestAtATime, Holds

\* No request begins or stops holding a transaction.
SameHolders ==
    \A r \in Requests :
        (request[r].doing \in {"runs", "commits", "ends"}
           \/ request'[r].doing \in {"runs", "commits", "ends"}) => request'[r] = request[r]

\* expire keeps custody and owners, whichever slots and tombstones it is given.
LEMMA ExpireKeeps ==
    ASSUME Inv, NEW ids \in SUBSET open, NEW before \in SUBSET expired, Expire(ids, before),
           UNCHANGED <<closed, belongs, leaked>>
    PROVE  /\ open' \subseteq Ids /\ slot' \in [Ids -> Slots] /\ expired' \subseteq Ids
           /\ tomb' \in [Ids -> Tombs]
           /\ outcome' \in [Ids -> {"unborn", "open", "committed", "rolled back"}]
           /\ AtMostOpen' /\ OwnersAgree' /\ OnlyOwnerHears'
           /\ SameHolders => Custody'
<1>1. open' = open \ ids /\ slot' = SlotsWithout(ids) /\ outcome' = Dropped(ids)
      /\ Remember(ids, before) BY DEF Expire
<1>2. TypeOK /\ ids \subseteq Ids /\ Custody BY DEF Inv, TypeOK
<1>3. /\ expired' \subseteq expired \cup ids /\ tomb' \in [Ids -> Tombs]
      /\ \A i \in expired' : IF i \in ids THEN tomb'[i].owner = slot[i].owner
                             ELSE tomb'[i].owner = tomb[i].owner
  BY <1>1, <1>2, RememberKeeps
<1>4. slot' \in [Ids -> Slots] /\ \A i \in open' : slot'[i] = slot[i]
  BY <1>1, <1>2, SlotsWithoutType DEF TypeOK
<1>5. /\ outcome' \in [Ids -> {"unborn", "open", "committed", "rolled back"}]
      /\ \A i \in Ids : IF i \in ids /\ slot[i].body THEN outcome'[i] = "rolled back"
                        ELSE outcome'[i] = outcome[i]
  BY <1>1, <1>2, DroppedType
<1>6. open' \subseteq Ids /\ expired' \subseteq Ids BY <1>1, <1>2, <1>3 DEF TypeOK
<1>7. AtMostOpen'
  BY <1>1, FewerOpen DEF Inv, AtMostOpen
<1>8. OwnersAgree' /\ OnlyOwnerHears'
  BY <1>1, <1>2, <1>3, <1>4 DEF Inv, OwnersAgree, OnlyOwnerHears, TypeOK
<1>9. ASSUME SameHolders PROVE Custody'
  <2>1. OneRequestAtATime'
    BY <1>1, <1>2, <1>4, <1>9 DEF Custody, OneRequestAtATime, Holds, SameHolders
  <2>5. NoStranded'
    BY <1>1, <1>2, <1>4, <1>9 DEF Custody, NoStranded, Holds, SameHolders
  <2>6. ClosedIsHeld'
    BY <1>1, <1>2, <1>4 DEF Custody, ClosedIsHeld
  <2>2. OpenIsUndecided'
    BY <1>1, <1>2, <1>4, <1>5 DEF Custody, OpenIsUndecided, TypeOK
  <2>3. HeldIsUndecided'
    <3> SUFFICES ASSUME NEW r \in Requests, request[r].doing \in {"runs", "commits", "ends"}
                 PROVE  /\ request[r].id \in Ids
                        /\ outcome'[request[r].id] # "unborn"
                        /\ request[r].doing # "ends" => outcome'[request[r].id] = "open"
      BY <1>9 DEF HeldIsUndecided, SameHolders
    <3>1. request[r].id \in Ids BY <1>2 DEF Custody, HeldIsUndecided
    <3>2. ~(request[r].id \in ids /\ slot[request[r].id].body) BY <1>2, DroppedIsFree
    <3> QED BY <1>2, <1>5, <3>1, <3>2 DEF Custody, HeldIsUndecided
  <2>4. InUseIsBorn'
    BY <1>1, <1>2, <1>3, <1>5, <1>6 DEF Custody, InUseIsBorn, TypeOK
  <2> QED BY <2>1, <2>5, <2>6, <2>2, <2>3, <2>4 DEF Custody
<1> QED BY <1>3, <1>4, <1>5, <1>6, <1>7, <1>8, <1>9

\* Custody does not depend on requests that hold nothing.
LEMMA CustodyKept ==
    ASSUME TypeOK, Custody, SameHolders, UNCHANGED <<open, slot, expired, closed, outcome>>
    PROVE  Custody'
<1>1. OneRequestAtATime'
  BY DEF Custody, OneRequestAtATime, Holds, SameHolders
<1>2. NoStranded'
  BY DEF Custody, NoStranded, Holds, SameHolders
<1>4. ClosedIsHeld' /\ OpenIsUndecided' /\ InUseIsBorn'
  BY DEF Custody, ClosedIsHeld, OpenIsUndecided, InUseIsBorn
<1>3. HeldIsUndecided'
  BY DEF Custody, HeldIsUndecided, SameHolders
<1> QED BY <1>1, <1>2, <1>3, <1>4 DEF Custody

-----------------------------------------------------------------------------
(* Each action keeps the invariant.                                        *)

\* has_room reaps and may let a begin proceed.
LEMMA HasRoomInv ==
    ASSUME Inv, NEW r \in Requests, NEW o \in Owners, HasRoom(r, o)
    PROVE  Inv'
<1>0. TypeOK BY DEF Inv
<1>1. Due \in SUBSET open /\ Retained \in SUBSET expired BY DueIsOpen
<1>2. Expire(Due, Retained) /\ UNCHANGED <<closed, belongs, leaked>> BY DEF HasRoom
<1>3. \/ UNCHANGED request
      \/ request' = [request EXCEPT ![r] = [doing |-> "begins", owner |-> o, id |-> "none"]]
  BY DEF HasRoom
<1>4. SameHolders BY <1>0, <1>3 DEF SameHolders, HasRoom, TypeOK
<1>5. request' \in [Requests -> [doing : Doings, owner : Owners \cup {"nobody"},
                                 id : Ids \cup {"none"}]]
  <2>1. [doing |-> "begins", owner |-> o, id |-> "none"]
          \in [doing : Doings, owner : Owners \cup {"nobody"}, id : Ids \cup {"none"}]
    BY DEF Doings
  <2> QED BY <1>0, <1>3, <2>1 DEF TypeOK
<1> QED BY <1>0, <1>1, <1>2, <1>4, <1>5, ExpireKeeps DEF Inv, TypeOK
\* A begin that is dropped changes nothing in the registry.
LEMMA BeginDroppedInv ==
    ASSUME Inv, NEW r \in Requests, BeginDropped(r)
    PROVE  Inv'
<1>1. TypeOK BY DEF Inv
<1>2. request' = [request EXCEPT ![r] = NoRequest]
      /\ UNCHANGED <<open, slot, expired, tomb, closed, belongs, outcome, leaked>>
  BY DEF BeginDropped, Frees, registry
<1>3. TypeOK' BY <1>1, <1>2 DEF TypeOK, NoRequest, Doings
<1>4. SameHolders BY <1>1, <1>2 DEF SameHolders, BeginDropped, TypeOK, NoRequest
<1>5. Custody' BY <1>1, <1>2, <1>4, CustodyKept DEF Inv
<1> QED BY <1>2, <1>3, <1>5 DEF Inv, AtMostOpen, OwnersAgree, OnlyOwnerHears
\* A begin that is refused reaps, unless the store is closed.
LEMMA BeginRefusedInv ==
    ASSUME Inv, NEW r \in Requests, BeginRefused(r)
    PROVE  Inv'
<1>0. TypeOK BY DEF Inv
<1>1. Due \in SUBSET open /\ Retained \in SUBSET expired BY DueIsOpen
<1>2. request' = [request EXCEPT ![r] = NoRequest] /\ UNCHANGED <<belongs, leaked>>
  BY DEF BeginRefused, Frees
<1>3. SameHolders BY <1>0, <1>2 DEF SameHolders, BeginRefused, TypeOK, NoRequest
<1>4. request' \in [Requests -> [doing : Doings, owner : Owners \cup {"nobody"},
                                 id : Ids \cup {"none"}]]
  BY <1>0, <1>2 DEF TypeOK, Doings, NoRequest
<1>5. CASE UNCHANGED <<registry, outcome>>
  <2>1. Custody' BY <1>0, <1>2, <1>3, <1>5, CustodyKept DEF Inv, registry
  <2> QED BY <1>2, <1>4, <1>5, <2>1 DEF Inv, TypeOK, AtMostOpen, OwnersAgree, OnlyOwnerHears, registry
<1>6. CASE Expire(Due, Retained) /\ UNCHANGED closed
  BY <1>0, <1>1, <1>2, <1>3, <1>4, <1>6, ExpireKeeps DEF Inv, TypeOK
<1> QED BY <1>5, <1>6 DEF BeginRefused

\* A request that ends lets go of its transaction, which leaves the registry.
LEMMA HolderEnds ==
    ASSUME Inv, NEW r \in Requests, request[r].doing \in {"runs", "commits", "ends"},
           open' = open \ {request[r].id}, slot' = SlotsWithout({request[r].id}),
           \/ UNCHANGED outcome
           \/ outcome' = [outcome EXCEPT ![request[r].id] = "rolled back"],
           request' = [request EXCEPT ![r] = NoRequest],
           UNCHANGED <<expired, tomb, closed, belongs, leaked>>
    PROVE  Inv'
<1> DEFINE i == request[r].id
<1>1. TypeOK /\ Custody BY DEF Inv
<1>2. i \in Ids /\ Holds(r, i) BY <1>1 DEF Custody, HeldIsUndecided, Holds
<1>3. slot' \in [Ids -> Slots] /\ \A j \in open' : slot'[j] = slot[j]
  <2>1. {i} \in SUBSET Ids BY <1>2
  <2>2. SlotsWithout({i}) \in [Ids -> Slots] /\ \A j \in Ids \ {i} : SlotsWithout({i})[j] = slot[j]
    BY <1>1, <2>1, SlotsWithoutType
  <2> QED BY <1>1, <2>2 DEF TypeOK
<1>4. /\ outcome' \in [Ids -> {"unborn", "open", "committed", "rolled back"}]
      /\ \A j \in Ids \ {i} : outcome'[j] = outcome[j]
      /\ outcome'[i] # "unborn"
  BY <1>1, <1>2 DEF TypeOK, Custody, HeldIsUndecided
<1>5. NoRequest \in [doing : Doings, owner : Owners \cup {"nobody"}, id : Ids \cup {"none"}]
  BY DEF NoRequest, Doings
<1>6. TypeOK' BY <1>1, <1>3, <1>4, <1>5 DEF TypeOK
<1>7. \A q \in Requests : request'[q].doing \in {"runs", "commits", "ends"} =>
          q # r /\ request'[q] = request[q]
  BY <1>1 DEF TypeOK, NoRequest
<1>8. \A q \in Requests : request'[q].doing \in {"runs", "commits", "ends"} => request[q].id # i
  BY <1>1, <1>2, <1>7 DEF Custody, OneRequestAtATime, Holds
<1>9. OneRequestAtATime'
  <2> SUFFICES ASSUME NEW j \in Ids, NEW q \in Requests, Holds(q, j)'
               PROVE  /\ j \in open' => ~slot'[j].body
                      /\ \A p \in Requests : Holds(p, j)' => p = q
    BY DEF OneRequestAtATime
  <2>1. Holds(q, j) BY <1>7 DEF Holds
  <2>2. \A p \in Requests : Holds(p, j)' => Holds(p, j) BY <1>7 DEF Holds
  <2> QED BY <1>1, <1>3, <2>1, <2>2 DEF Custody, OneRequestAtATime
<1>10. NoStranded'
  <2> SUFFICES ASSUME NEW j \in open', ~slot'[j].body
               PROVE  \E q \in Requests : Holds(q, j)'
    BY DEF NoStranded
  <2>1. PICK q \in Requests : Holds(q, j) BY <1>1, <1>3 DEF Custody, NoStranded
  <2>2. q # r BY <2>1 DEF Holds
  <2>3. request'[q] = request[q] BY <2>2, <1>1 DEF TypeOK
  <2> QED BY <2>1, <2>3 DEF Holds
<1>11. ClosedIsHeld' BY <1>1, <1>3 DEF Custody, ClosedIsHeld
<1>12. OpenIsUndecided' BY <1>1, <1>3, <1>4 DEF Custody, OpenIsUndecided, TypeOK
<1>13. HeldIsUndecided'
  <2> SUFFICES ASSUME NEW q \in Requests, request'[q].doing \in {"runs", "commits", "ends"}
               PROVE  /\ request'[q].id \in Ids
                      /\ outcome'[request'[q].id] # "unborn"
                      /\ request'[q].doing # "ends" => outcome'[request'[q].id] = "open"
    BY DEF HeldIsUndecided
  <2>1. request'[q] = request[q] /\ request[q].id # i BY <1>7, <1>8
  <2> QED BY <1>1, <1>4, <2>1, ZenonT(30) DEF Custody, HeldIsUndecided
<1>14. InUseIsBorn' BY <1>1, <1>4 DEF Custody, InUseIsBorn, TypeOK
<1>15. AtMostOpen' BY <1>1, FewerOpen DEF Inv, AtMostOpen
<1>16. OwnersAgree' /\ OnlyOwnerHears' BY <1>3 DEF Inv, OwnersAgree, OnlyOwnerHears
<1> QED BY <1>6, <1>9, <1>10, <1>11, <1>12, <1>13, <1>14, <1>15, <1>16 DEF Inv, Custody

\* begin reaps and registers a transaction when there is room.
LEMMA BeginInv ==
    ASSUME Inv, NEW r \in Requests, NEW i \in Ids, Begin(r, i)
    PROVE  Inv'
<1>0. TypeOK /\ Custody BY DEF Inv
<1>1. Due \in SUBSET open /\ Retained \in SUBSET expired BY DueIsOpen
<1>2. i \notin open /\ i \notin expired /\ ~ \E q \in Requests : Holds(q, i)
  BY <1>0 DEF Begin, Custody, InUseIsBorn, HeldIsUndecided, Holds
<1>3. Due \in SUBSET Ids /\ i \notin Due BY <1>0, <1>1, <1>2 DEF TypeOK
<1>4. open' = (open \ Due) \cup {i} /\ UNCHANGED <<closed, leaked>> /\ ~closed BY DEF Begin
<1>5. NextDeadline(Lifetime) \in Int BY TxStoreConstants, DeadlineType
<1>6. request[r].owner \in Owners \cup {"nobody"} BY <1>0 DEF TypeOK
<1>7. [owner |-> request[r].owner, left |-> NextDeadline(Lifetime), life |-> Lifetime,
       body |-> TRUE] \in Slots
  BY <1>5, <1>6, TxStoreConstants DEF Slots
<1>8. /\ slot' \in [Ids -> Slots]
      /\ \A j \in open \ Due : slot'[j] = slot[j]
      /\ slot'[i].body /\ slot'[i].owner = request[r].owner
  BY <1>0, <1>2, <1>3, <1>7, SlotsWithoutType, ZenonT(30) DEF Begin, TypeOK
<1>9. /\ outcome' \in [Ids -> {"unborn", "open", "committed", "rolled back"}]
      /\ \A j \in Ids \ {i} : IF j \in Due /\ slot[j].body THEN outcome'[j] = "rolled back"
                              ELSE outcome'[j] = outcome[j]
      /\ outcome'[i] = "open"
  BY <1>0, <1>3, DroppedType DEF Begin
<1>10. /\ expired' \subseteq expired \cup Due /\ tomb' \in [Ids -> Tombs]
       /\ \A j \in expired' : IF j \in Due THEN tomb'[j].owner = slot[j].owner
                              ELSE tomb'[j].owner = tomb[j].owner
  BY <1>0, <1>1, RememberKeeps DEF Begin
<1>11. /\ belongs' \in [Ids -> Owners \cup {"nobody"}]
       /\ \A j \in Ids \ {i} : belongs'[j] = belongs[j]
       /\ belongs'[i] = request[r].owner
  BY <1>0, <1>6 DEF Begin, TypeOK
<1>12. NoRequest \in [doing : Doings, owner : Owners \cup {"nobody"}, id : Ids \cup {"none"}]
  BY DEF NoRequest, Doings
<1>13. request' = [request EXCEPT ![r] = NoRequest] BY DEF Begin, Frees
<1>14. TypeOK'
  BY <1>0, <1>3, <1>4, <1>8, <1>9, <1>10, <1>11, <1>12, <1>13, ZenonT(30) DEF TypeOK
<1>15. SameHolders BY <1>0, <1>13 DEF SameHolders, Begin, TypeOK, NoRequest
<1>16. AtMostOpen'
  <2>1. IsFiniteSet(open \ Due) /\ Cardinality(open \ Due) \in Nat
    BY <1>0, SmallerSets DEF TypeOK
  <2>2. Cardinality((open \ Due) \cup {i}) = Cardinality(open \ Due) + 1
    BY <1>2, <2>1, FS_AddElement
  <2>3. Cardinality(open \ Due) < MaxOpen BY DEF Begin
  <2> QED BY <1>4, <2>1, <2>2, <2>3, TxStoreConstants DEF AtMostOpen
<1>17. OneRequestAtATime'
  BY <1>0, <1>2, <1>4, <1>8, <1>15 DEF Custody, OneRequestAtATime, Holds, SameHolders
<1>18. NoStranded'
  BY <1>0, <1>4, <1>8, <1>15 DEF Custody, NoStranded, Holds, SameHolders
<1>19. ClosedIsHeld' BY <1>4 DEF ClosedIsHeld
<1>20. OpenIsUndecided'
  BY <1>0, <1>4, <1>8, <1>9 DEF Custody, OpenIsUndecided, TypeOK
<1>21. HeldIsUndecided'
  <2> SUFFICES ASSUME NEW q \in Requests, request[q].doing \in {"runs", "commits", "ends"}
               PROVE  /\ request[q].id \in Ids
                      /\ outcome'[request[q].id] # "unborn"
                      /\ request[q].doing # "ends" => outcome'[request[q].id] = "open"
    BY <1>15 DEF HeldIsUndecided, SameHolders
  <2>1. request[q].id \in Ids /\ request[q].id # i
    BY <1>0, <1>2 DEF Custody, HeldIsUndecided, Holds
  <2>2. ~(request[q].id \in Due /\ slot[request[q].id].body) BY <1>0, <1>1, DroppedIsFree
  <2> QED BY <1>0, <1>9, <2>1, <2>2 DEF Custody, HeldIsUndecided
<1>22. InUseIsBorn'
  <2> SUFFICES ASSUME NEW j \in open' \cup expired' PROVE outcome'[j] # "unborn"
    BY DEF InUseIsBorn
  <2>1. j = i \/ (j \in open \cup expired /\ j \in Ids)
    BY <1>0, <1>1, <1>4, <1>10 DEF TypeOK
  <2> QED BY <1>0, <1>9, <2>1 DEF Custody, InUseIsBorn
<1>23. OwnersAgree'
  BY <1>0, <1>1, <1>2, <1>4, <1>8, <1>10, <1>11, ZenonT(30) DEF Inv, OwnersAgree, TypeOK
<1>24. OnlyOwnerHears' BY <1>4 DEF Inv, OnlyOwnerHears
<1> QED BY <1>14, <1>16, <1>17, <1>18, <1>19, <1>20, <1>21, <1>22, <1>23, <1>24 DEF Inv, Custody

\* checkout takes the body of an undecided transaction for its owner.
LEMMA CheckoutInv ==
    ASSUME Inv, NEW r \in Requests, NEW o \in Owners, NEW i \in Ids, NEW doing \in {"runs", "commits"},
           Checkout(r, o, i, doing)
    PROVE  Inv'
<1>0. TypeOK /\ Custody BY DEF Inv
<1>1. i \in open /\ slot[i].owner = o /\ slot[i].body
  BY DEF Checkout, Lookup, Missing
<1>2. outcome[i] = "open" /\ ~ \E q \in Requests : Holds(q, i)
  BY <1>0, <1>1 DEF Custody, OpenIsUndecided, OneRequestAtATime
<1>3. belongs[i] = o BY <1>1 DEF Inv, OwnersAgree
<1>4. /\ slot' = [slot EXCEPT ![i].body = FALSE]
      /\ request' = [request EXCEPT ![r] = [doing |-> doing, owner |-> o, id |-> i]]
      /\ UNCHANGED <<open, expired, tomb, closed, belongs, outcome>>
      /\ leaked' = leaked
  BY <1>3 DEF Checkout, Answer
<1>5. /\ slot' \in [Ids -> Slots] /\ \A j \in Ids \ {i} : slot'[j] = slot[j]
      /\ slot'[i].owner = slot[i].owner /\ ~slot'[i].body
  <2>1. slot[i] \in Slots BY <1>0 DEF TypeOK
  <2>2. [slot[i] EXCEPT !.body = FALSE] \in Slots BY <2>1 DEF Slots
  <2>3. slot' = [slot EXCEPT ![i] = [slot[i] EXCEPT !.body = FALSE]] BY <1>4
  <2>4. slot'[i] = [slot[i] EXCEPT !.body = FALSE] BY <1>0, <2>3 DEF TypeOK
  <2> QED BY <1>0, <2>1, <2>2, <2>3, <2>4 DEF TypeOK, Slots
<1>6. [doing |-> doing, owner |-> o, id |-> i]
         \in [doing : Doings, owner : Owners \cup {"nobody"}, id : Ids \cup {"none"}]
  BY DEF Doings
<1>7. TypeOK' BY <1>0, <1>4, <1>5, <1>6 DEF TypeOK
<1>8. /\ \A q \in Requests \ {r} : request'[q] = request[q]
      /\ request'[r].doing = doing /\ request'[r].id = i
      /\ request[r].doing = "none"
  <2>1. \A q \in Requests : request'[q] = IF q = r THEN [doing |-> doing, owner |-> o, id |-> i]
                                           ELSE request[q]
    BY <1>0, <1>4 DEF TypeOK
  <2> QED BY <2>1 DEF Checkout
<1>9. OneRequestAtATime'
  BY <1>0, <1>2, <1>4, <1>5, <1>8 DEF Custody, OneRequestAtATime, Holds
<1>10. NoStranded'
  <2> SUFFICES ASSUME NEW j \in open, ~slot'[j].body
               PROVE  \E q \in Requests : Holds(q, j)'
    BY <1>4 DEF NoStranded
  <2>1. CASE j = i BY <1>8, <2>1 DEF Holds
  <2>2. CASE j # i
    <3>1. PICK q \in Requests : Holds(q, j)
      BY <1>0, <1>5, <2>2 DEF Custody, NoStranded, TypeOK
    <3> QED BY <1>8, <3>1 DEF Holds
  <2> QED BY <2>1, <2>2
<1>11. ClosedIsHeld' BY <1>0, <1>4, <1>5 DEF Custody, ClosedIsHeld, TypeOK
<1>12. OpenIsUndecided' /\ InUseIsBorn'
  BY <1>0, <1>4, <1>5 DEF Custody, OpenIsUndecided, InUseIsBorn, TypeOK
<1>13. HeldIsUndecided'
  BY <1>0, <1>2, <1>4, <1>8 DEF Custody, HeldIsUndecided
<1>14. AtMostOpen' /\ OwnersAgree' /\ OnlyOwnerHears'
  BY <1>0, <1>4, <1>5 DEF Inv, AtMostOpen, OwnersAgree, OnlyOwnerHears, TypeOK
<1> QED BY <1>7, <1>9, <1>10, <1>11, <1>12, <1>13, <1>14 DEF Inv, Custody

\* A refused lookup changes nothing, unless it meets a due slot and expires it.
LEMMA RefusedInv ==
    ASSUME Inv, NEW o \in Owners, NEW i \in Ids, Refused(o, i)
    PROVE  Inv'
<1>0. TypeOK /\ Custody BY DEF Inv
<1>1. UNCHANGED <<closed, request, belongs>> BY DEF Refused
<1>2. Lookup(i, o) # "NotFound" => belongs[i] = o
  BY <1>0 DEF Lookup, Missing, Inv, OwnersAgree
<1>3. leaked' = leaked BY <1>2 DEF Refused, Answer
<1>4. SameHolders BY <1>1 DEF SameHolders
<1>5. CASE Lookup(i, o) = "Expired" /\ i \in open
  <2>1. Expire({i}, expired) BY <1>5 DEF Refused, Touch
  <2>2. {i} \in SUBSET open /\ expired \in SUBSET expired BY <1>5
  <2> QED BY <1>0, <1>1, <1>3, <1>4, <2>1, <2>2, ExpireKeeps DEF Inv, TypeOK
<1>6. CASE ~(Lookup(i, o) = "Expired" /\ i \in open)
  <2>1. UNCHANGED <<open, slot, expired, tomb, outcome>> BY <1>6 DEF Refused, Touch
  <2>2. Custody' BY <1>0, <1>1, <1>4, <2>1, CustodyKept
  <2> QED BY <1>1, <1>3, <2>1, <2>2 DEF Inv, TypeOK, AtMostOpen, OwnersAgree, OnlyOwnerHears
<1> QED BY <1>5, <1>6

\* rollback takes an idle transaction out and drops it.
LEMMA RollbackInv ==
    ASSUME Inv, NEW o \in Owners, NEW i \in Ids, Rollback(o, i)
    PROVE  Inv'
<1>0. TypeOK /\ Custody BY DEF Inv
<1>1. {i} \subseteq open /\ {i} \subseteq Ids /\ belongs[i] = o
  BY DEF Rollback, Lookup, Missing, Inv, OwnersAgree
<1>2. /\ open' = open \ {i} /\ slot' = SlotsWithout({i}) /\ outcome' = Dropped({i})
      /\ UNCHANGED <<expired, tomb, closed, request, belongs>> /\ leaked' = leaked
  BY <1>1 DEF Rollback, Answer
<1>3. open' \subseteq open /\ open' \subseteq Ids BY <1>0, <1>2 DEF TypeOK
<1>4. slot' \in [Ids -> Slots] /\ \A j \in open' : slot'[j] = slot[j]
  BY <1>0, <1>1, <1>2, SlotsWithoutType DEF TypeOK
<1>5. /\ outcome' \in [Ids -> {"unborn", "open", "committed", "rolled back"}]
      /\ \A j \in Ids : IF j \in {i} /\ slot[j].body THEN outcome'[j] = "rolled back"
                        ELSE outcome'[j] = outcome[j]
  BY <1>0, <1>1, <1>2, DroppedType
<1>6. TypeOK' BY <1>0, <1>2, <1>3, <1>4, <1>5 DEF TypeOK
<1>7. OpenIsUndecided'
  BY <1>0, <1>2, <1>3, <1>4, <1>5 DEF Custody, OpenIsUndecided
<1>14. OneRequestAtATime'
  BY <1>0, <1>2, <1>3, <1>4 DEF Custody, OneRequestAtATime, Holds
<1>8. NoStranded'
  BY <1>0, <1>2, <1>3, <1>4 DEF Custody, NoStranded, Holds
<1>9. ClosedIsHeld'
  BY <1>0, <1>2, <1>3, <1>4 DEF Custody, ClosedIsHeld
<1>10. HeldIsUndecided'
  <2> SUFFICES ASSUME NEW q \in Requests, request[q].doing \in {"runs", "commits", "ends"}
               PROVE  /\ request[q].id \in Ids
                      /\ outcome'[request[q].id] # "unborn"
                      /\ request[q].doing # "ends" => outcome'[request[q].id] = "open"
    BY <1>2 DEF HeldIsUndecided
  <2>1. request[q].id \in Ids BY <1>0 DEF Custody, HeldIsUndecided
  <2>2. ~(request[q].id \in {i} /\ slot[request[q].id].body) BY <1>0, <1>1, DroppedIsFree
  <2> QED BY <1>0, <1>5, <2>1, <2>2 DEF Custody, HeldIsUndecided
<1>11. InUseIsBorn'
  BY <1>0, <1>2, <1>3, <1>5 DEF Custody, InUseIsBorn, TypeOK
<1>12. AtMostOpen' BY <1>0, <1>3, FewerOpen DEF Inv, AtMostOpen
<1>13. OwnersAgree' /\ OnlyOwnerHears'
  BY <1>2, <1>3, <1>4 DEF Inv, OwnersAgree, OnlyOwnerHears
<1> QED BY <1>6, <1>7, <1>8, <1>9, <1>10, <1>11, <1>12, <1>13, <1>14 DEF Inv, Custody

\* close drops every transaction that no request holds.
LEMMA CloseInv ==
    ASSUME Inv, Close
    PROVE  Inv'
<1> DEFINE idle == {i \in open : slot[i].body}
<1>0. TypeOK /\ Custody BY DEF Inv
<1>1. idle \subseteq open /\ idle \subseteq Ids BY <1>0 DEF TypeOK
<1>2. /\ open' = open \ idle /\ slot' = SlotsWithout(idle) /\ outcome' = Dropped(idle)
      /\ UNCHANGED <<expired, tomb, request, belongs, leaked>> /\ closed' = TRUE
  BY DEF Close
<1>3. open' \subseteq open /\ open' \subseteq Ids BY <1>0, <1>2 DEF TypeOK
<1>4. slot' \in [Ids -> Slots] /\ \A j \in open' : slot'[j] = slot[j]
  BY <1>0, <1>1, <1>2, SlotsWithoutType DEF TypeOK
<1>5. /\ outcome' \in [Ids -> {"unborn", "open", "committed", "rolled back"}]
      /\ \A j \in Ids : IF j \in idle /\ slot[j].body THEN outcome'[j] = "rolled back"
                        ELSE outcome'[j] = outcome[j]
  BY <1>0, <1>1, <1>2, DroppedType
<1>6. TypeOK' BY <1>0, <1>2, <1>3, <1>4, <1>5 DEF TypeOK
<1>7. OpenIsUndecided'
  BY <1>0, <1>2, <1>3, <1>4, <1>5 DEF Custody, OpenIsUndecided
<1>14. OneRequestAtATime'
  BY <1>0, <1>2, <1>3, <1>4 DEF Custody, OneRequestAtATime, Holds
<1>8. NoStranded'
  BY <1>0, <1>2, <1>3, <1>4 DEF Custody, NoStranded, Holds
<1>9. ClosedIsHeld'
  BY <1>0, <1>2, <1>3, <1>4 DEF Custody, ClosedIsHeld
<1>10. HeldIsUndecided'
  <2> SUFFICES ASSUME NEW q \in Requests, request[q].doing \in {"runs", "commits", "ends"}
               PROVE  /\ request[q].id \in Ids
                      /\ outcome'[request[q].id] # "unborn"
                      /\ request[q].doing # "ends" => outcome'[request[q].id] = "open"
    BY <1>2 DEF HeldIsUndecided
  <2>1. request[q].id \in Ids BY <1>0 DEF Custody, HeldIsUndecided
  <2>2. ~(request[q].id \in idle /\ slot[request[q].id].body) BY <1>0, <1>1, DroppedIsFree
  <2> QED BY <1>0, <1>5, <2>1, <2>2 DEF Custody, HeldIsUndecided
<1>11. InUseIsBorn'
  BY <1>0, <1>2, <1>3, <1>5 DEF Custody, InUseIsBorn, TypeOK
<1>12. AtMostOpen' BY <1>0, <1>3, FewerOpen DEF Inv, AtMostOpen
<1>13. OwnersAgree' /\ OnlyOwnerHears'
  BY <1>2, <1>3, <1>4 DEF Inv, OwnersAgree, OnlyOwnerHears
<1> QED BY <1>6, <1>7, <1>8, <1>9, <1>10, <1>11, <1>12, <1>13, <1>14 DEF Inv, Custody

\* checkin hands the transaction back, or lets it go when its slot is gone.
LEMMA RunEndsInv ==
    ASSUME Inv, NEW r \in Requests, RunEnds(r)
    PROVE  Inv'
<1> DEFINE i == request[r].id
<1>0. TypeOK /\ Custody /\ request[r].doing = "runs" BY DEF Inv, RunEnds
<1>1. i \in Ids /\ Holds(r, i) /\ outcome[i] = "open"
  BY <1>0 DEF Custody, HeldIsUndecided, Holds
<1>2. request' = [request EXCEPT ![r] = NoRequest]
      /\ UNCHANGED <<expired, tomb, closed, belongs, leaked>> BY DEF RunEnds, Frees
<1>3. CASE ~(~closed /\ i \in open)
  <2>1. open' = open \ {i} /\ slot' = SlotsWithout({i})
        /\ outcome' = [outcome EXCEPT ![i] = "rolled back"] BY <1>3 DEF RunEnds
  <2> QED BY <1>0, <1>2, <2>1, HolderEnds
<1>4. CASE ~closed /\ i \in open
  <2>1. /\ slot' = [slot EXCEPT ![i].body = TRUE, ![i].left = NextDeadline(slot[i].life)]
        /\ UNCHANGED <<open, outcome>> BY <1>4 DEF RunEnds
  <2>2. slot[i] \in Slots /\ NextDeadline(slot[i].life) \in Int
    BY <1>0, <1>1, DeadlineType DEF TypeOK, Slots
  <2>3. /\ slot' \in [Ids -> Slots] /\ \A j \in Ids \ {i} : slot'[j] = slot[j]
        /\ slot'[i].owner = slot[i].owner /\ slot'[i].body
    BY <1>0, <1>1, <2>1, <2>2 DEF TypeOK, Slots
  <2>4. NoRequest \in [doing : Doings, owner : Owners \cup {"nobody"}, id : Ids \cup {"none"}]
    BY DEF NoRequest, Doings
  <2>5. TypeOK' BY <1>0, <1>2, <2>1, <2>3, <2>4 DEF TypeOK
  <2>6. \A q \in Requests : request'[q].doing \in {"runs", "commits", "ends"} =>
            q # r /\ request'[q] = request[q]
    BY <1>0, <1>2 DEF TypeOK, NoRequest
  <2>7. \A q \in Requests : request'[q].doing \in {"runs", "commits", "ends"} => request[q].id # i
    BY <1>0, <1>1, <2>6 DEF Custody, OneRequestAtATime, Holds
  <2>8. OneRequestAtATime'
    BY <1>0, <2>1, <2>3, <2>6, <2>7 DEF Custody, OneRequestAtATime, Holds
  <2>9. NoStranded'
    <3> SUFFICES ASSUME NEW j \in open, ~slot'[j].body
                 PROVE  \E q \in Requests : Holds(q, j)'
      BY <2>1 DEF NoStranded
    <3>1. j # i BY <2>3
    <3>2. PICK q \in Requests : Holds(q, j)
      BY <1>0, <2>3, <3>1 DEF Custody, NoStranded, TypeOK
    <3>3. q # r BY <3>1, <3>2 DEF Holds
    <3>4. request'[q] = request[q] BY <1>0, <1>2, <3>3 DEF TypeOK
    <3> QED BY <3>2, <3>4 DEF Holds
  <2>10. ClosedIsHeld' BY <1>2, <1>4 DEF ClosedIsHeld
  <2>11. OpenIsUndecided' /\ InUseIsBorn'
    BY <1>0, <1>1, <1>2, <2>1, <2>3 DEF Custody, OpenIsUndecided, InUseIsBorn, TypeOK
  <2>12. HeldIsUndecided' BY <1>0, <2>1, <2>6 DEF Custody, HeldIsUndecided
  <2>13. AtMostOpen' /\ OnlyOwnerHears' BY <1>2, <2>1 DEF Inv, AtMostOpen, OnlyOwnerHears
  <2>14. OwnersAgree'
    <3>1. \A j \in open : slot'[j].owner = slot[j].owner BY <1>0, <2>3 DEF TypeOK
    <3> QED BY <1>2, <2>1, <3>1 DEF Inv, OwnersAgree
  <2> QED BY <2>5, <2>8, <2>9, <2>10, <2>11, <2>12, <2>13, <2>14 DEF Inv, Custody
<1> QED BY <1>3, <1>4

\* A panicking statement ends its slot.
LEMMA RunPanicsInv ==
    ASSUME Inv, NEW r \in Requests, RunPanics(r)
    PROVE  Inv'
<1>1. /\ request[r].doing = "runs"
      /\ open' = open \ {request[r].id} /\ slot' = SlotsWithout({request[r].id})
      /\ outcome' = [outcome EXCEPT ![request[r].id] = "rolled back"]
      /\ request' = [request EXCEPT ![r] = NoRequest]
      /\ UNCHANGED <<expired, tomb, closed, belongs, leaked>>
  BY DEF RunPanics, Frees
<1> QED BY <1>1, HolderEnds

\* A commit's Lease ends its slot.
LEMMA CommitEndsInv ==
    ASSUME Inv, NEW r \in Requests, CommitEnds(r)
    PROVE  Inv'
<1>1. /\ request[r].doing = "ends"
      /\ open' = open \ {request[r].id} /\ slot' = SlotsWithout({request[r].id})
      /\ request' = [request EXCEPT ![r] = NoRequest]
      /\ UNCHANGED <<expired, tomb, closed, belongs, outcome, leaked>>
  BY DEF CommitEnds, Frees
<1> QED BY <1>1, HolderEnds

\* A commit decides the transaction its request holds.
LEMMA CommitAppliesInv ==
    ASSUME Inv, NEW r \in Requests, NEW result \in {"committed", "rolled back"},
           CommitApplies(r, result)
    PROVE  Inv'
<1> DEFINE i == request[r].id
<1>0. TypeOK /\ Custody /\ request[r].doing = "commits" BY DEF Inv, CommitApplies
<1>1. i \in Ids /\ Holds(r, i) BY <1>0 DEF Custody, HeldIsUndecided, Holds
<1>2. /\ outcome' = [outcome EXCEPT ![i] = result]
      /\ request' = [request EXCEPT ![r].doing = "ends"]
      /\ UNCHANGED <<open, slot, expired, tomb, closed, belongs, leaked>>
  BY DEF CommitApplies, registry
<1>3. TypeOK'
  BY <1>0, <1>1, <1>2, ZenonT(30) DEF TypeOK, Doings
<1>4. /\ \A q \in Requests \ {r} : request'[q] = request[q]
      /\ request'[r].doing = "ends" /\ request'[r].id = i
  BY <1>0, <1>2 DEF TypeOK
<1>5. \A q \in Requests : \A j \in Ids : Holds(q, j)' <=> Holds(q, j)
  BY <1>0, <1>4 DEF Holds
<1>6. OneRequestAtATime'
  BY <1>0, <1>2, <1>5 DEF Custody, OneRequestAtATime
<1>7. NoStranded' /\ ClosedIsHeld'
  BY <1>0, <1>2, <1>5 DEF Custody, NoStranded, ClosedIsHeld, TypeOK
<1>8. OpenIsUndecided'
  BY <1>0, <1>1, <1>2 DEF Custody, OpenIsUndecided, OneRequestAtATime, TypeOK
<1>9. \A q \in Requests \ {r} : request[q].doing \in {"runs", "commits", "ends"} => request[q].id # i
  BY <1>0, <1>1 DEF Custody, OneRequestAtATime, Holds
<1>10. HeldIsUndecided'
  BY <1>0, <1>1, <1>2, <1>4, <1>9, ZenonT(30) DEF Custody, HeldIsUndecided, TypeOK
<1>11. InUseIsBorn' BY <1>0, <1>1, <1>2 DEF Custody, InUseIsBorn, TypeOK
<1>12. AtMostOpen' /\ OwnersAgree' /\ OnlyOwnerHears'
  BY <1>2 DEF Inv, AtMostOpen, OwnersAgree, OnlyOwnerHears
<1> QED BY <1>3, <1>6, <1>7, <1>8, <1>10, <1>11, <1>12 DEF Inv, Custody

\* The reaper expires what is due.
LEMMA ReapInv ==
    ASSUME Inv, Reap
    PROVE  Inv'
<1>0. TypeOK BY DEF Inv
<1>1. Due \in SUBSET open /\ Retained \in SUBSET expired BY DueIsOpen
<1>2. Expire(Due, Retained) /\ UNCHANGED <<closed, request, belongs, leaked>> BY DEF Reap
<1>3. SameHolders BY <1>2 DEF SameHolders
<1> QED BY <1>0, <1>1, <1>2, <1>3, ExpireKeeps DEF Inv, TypeOK

\* Time passing changes only the countdowns.
LEMMA TickInv ==
    ASSUME Inv, Tick
    PROVE  Inv'
<1>0. TypeOK /\ Custody BY DEF Inv
<1>1. UNCHANGED <<open, expired, closed, request, belongs, outcome, leaked>> BY DEF Tick
<1>2. /\ slot' \in [Ids -> Slots]
      /\ \A i \in Ids : slot'[i].body = slot[i].body /\ slot'[i].owner = slot[i].owner
  <2>1. \A i \in Ids : slot[i] \in Slots BY <1>0 DEF TypeOK
  <2>2. \A i \in Ids : slot'[i] = IF slot[i].life > 0
                                  THEN [slot[i] EXCEPT !.left = @ - 1, !.life = @ - 1] ELSE slot[i]
    BY DEF Tick
  <2>3. \A i \in Ids : slot'[i] \in Slots /\ slot'[i].body = slot[i].body
                       /\ slot'[i].owner = slot[i].owner
    <3> SUFFICES ASSUME NEW i \in Ids
                 PROVE  slot'[i] \in Slots /\ slot'[i].body = slot[i].body
                        /\ slot'[i].owner = slot[i].owner
      OBVIOUS
    <3>1. slot[i] \in Slots BY <2>1
    <3>2. CASE slot[i].life > 0
      <4>1. slot'[i] = [slot[i] EXCEPT !.left = @ - 1, !.life = @ - 1] BY <2>2, <3>2
      <4>2. slot[i].left - 1 \in Int /\ slot[i].life - 1 \in 0..Lifetime
        BY <3>1, <3>2, TxStoreConstants DEF Slots
      <4> QED BY <3>1, <4>1, <4>2 DEF Slots
    <3>3. CASE ~(slot[i].life > 0) BY <2>2, <3>1, <3>3
    <3> QED BY <3>2, <3>3
  <2>4. slot' = [i \in Ids |-> slot'[i]] BY DEF Tick
  <2> QED BY <2>3, <2>4
<1>3. tomb' \in [Ids -> Tombs] /\ \A i \in Ids : tomb'[i].owner = tomb[i].owner
  <2>1. \A i \in Ids : tomb[i] \in Tombs BY <1>0 DEF TypeOK
  <2>2. \A i \in Ids : tomb'[i] = IF tomb[i].left > 0 THEN [tomb[i] EXCEPT !.left = @ - 1] ELSE tomb[i]
    BY DEF Tick
  <2>3. \A i \in Ids : tomb'[i] \in Tombs /\ tomb'[i].owner = tomb[i].owner
    <3> SUFFICES ASSUME NEW i \in Ids
                 PROVE  tomb'[i] \in Tombs /\ tomb'[i].owner = tomb[i].owner
      OBVIOUS
    <3>1. tomb[i] \in Tombs BY <2>1
    <3>2. CASE tomb[i].left > 0
      <4>1. tomb'[i] = [tomb[i] EXCEPT !.left = @ - 1] BY <2>2, <3>2
      <4>2. tomb[i].left - 1 \in 0..Retention BY <3>1, <3>2, TxStoreConstants DEF Tombs
      <4> QED BY <3>1, <4>1, <4>2 DEF Tombs
    <3>3. CASE ~(tomb[i].left > 0) BY <2>2, <3>1, <3>3
    <3> QED BY <3>2, <3>3
  <2>4. tomb' = [i \in Ids |-> tomb'[i]] BY DEF Tick
  <2> QED BY <2>3, <2>4
<1>4. TypeOK' BY <1>0, <1>1, <1>2, <1>3 DEF TypeOK
<1>5. OneRequestAtATime' BY <1>0, <1>1, <1>2 DEF Custody, OneRequestAtATime, Holds
<1>6. NoStranded' BY <1>0, <1>1, <1>2 DEF Custody, NoStranded, Holds, TypeOK
<1>7. ClosedIsHeld' /\ OpenIsUndecided' /\ HeldIsUndecided' /\ InUseIsBorn'
  BY <1>0, <1>1, <1>2 DEF Custody, ClosedIsHeld, OpenIsUndecided, HeldIsUndecided, InUseIsBorn, TypeOK
<1>8. AtMostOpen' /\ OwnersAgree' /\ OnlyOwnerHears'
  BY <1>0, <1>1, <1>2, <1>3 DEF Inv, AtMostOpen, OwnersAgree, OnlyOwnerHears, TypeOK
<1> QED BY <1>4, <1>5, <1>6, <1>7, <1>8 DEF Inv, Custody

-----------------------------------------------------------------------------
\* The initial state satisfies the invariant.
LEMMA InitInv == Init => Inv
<1> SUFFICES ASSUME Init PROVE Inv OBVIOUS
<1> USE DEF Init
<1>1. TypeOK
  <2>1. NoSlot \in Slots BY TxStoreConstants DEF NoSlot, Slots
  <2>2. NoTomb \in Tombs BY TxStoreConstants DEF NoTomb, Tombs
  <2>3. NoRequest \in [doing : Doings, owner : Owners \cup {"nobody"}, id : Ids \cup {"none"}]
    BY DEF NoRequest, Doings
  <2> QED BY <2>1, <2>2, <2>3 DEF TypeOK
<1>2. AtMostOpen
  BY TxStoreConstants, FS_EmptySet DEF AtMostOpen
<1>3. Custody /\ OwnersAgree /\ OnlyOwnerHears
  BY DEF Custody, OneRequestAtATime, NoStranded, ClosedIsHeld, OpenIsUndecided,
         HeldIsUndecided, InUseIsBorn, OwnersAgree, OnlyOwnerHears, Holds, NoRequest
<1> QED BY <1>1, <1>2, <1>3 DEF Inv

\* Every step keeps the invariant.
LEMMA NextInv == Inv /\ [Next]_vars => Inv'
<1> SUFFICES ASSUME Inv, [Next]_vars PROVE Inv' OBVIOUS
<1>1. CASE UNCHANGED vars
  <2>1. SameHolders BY <1>1 DEF vars, SameHolders
  <2>2. Custody' BY <1>1, <2>1, CustodyKept DEF Inv, vars, registry
  <2> QED BY <1>1, <2>2 DEF vars, registry, Inv, TypeOK, AtMostOpen, OwnersAgree, OnlyOwnerHears
<1>2. ASSUME NEW r \in Requests, RequestEnds(r) PROVE Inv'
  BY <1>2, BeginDroppedInv, BeginRefusedInv, BeginInv, RunEndsInv, RunPanicsInv,
     CommitAppliesInv, CommitEndsInv DEF RequestEnds
<1>3. ASSUME NEW r \in Requests, NEW o \in Owners, HasRoom(r, o) PROVE Inv'
  BY <1>3, HasRoomInv
<1>4. ASSUME NEW r \in Requests, NEW o \in Owners, NEW i \in Ids,
             NEW doing \in {"runs", "commits"}, Checkout(r, o, i, doing) PROVE Inv'
  BY <1>4, CheckoutInv
<1>5. ASSUME NEW o \in Owners, NEW i \in Ids, Refused(o, i) \/ Rollback(o, i) PROVE Inv'
  BY <1>5, RefusedInv, RollbackInv
<1>6. CASE Close \/ Reap \/ Tick BY <1>6, CloseInv, ReapInv, TickInv
<1> QED BY <1>1, <1>2, <1>3, <1>4, <1>5, <1>6 DEF Next

\* The server's registry keeps its invariant in every behaviour.
THEOREM Invariance == Spec => []Inv
BY InitInv, NextInv, PTL DEF Spec

\* Every variable holds a value of its kind.
THEOREM TypeCorrect == Spec => []TypeOK
<1>1. Inv => TypeOK BY DEF Inv
<1> QED BY Invariance, <1>1, PTL

\* tx.rs "Limit": at no time are more than max_open transactions open.
THEOREM OpenIsBounded == Spec => []AtMostOpen
<1>1. Inv => AtMostOpen BY DEF Inv
<1> QED BY Invariance, <1>1, PTL

\* tx.rs "One request at a time": no two requests work on one transaction.
THEOREM RequestsExclude == Spec => []OneRequestAtATime
<1>1. Inv => OneRequestAtATime BY DEF Inv, Custody
<1> QED BY Invariance, <1>1, PTL

\* tx.rs: a cancelled or panicking request "cannot strand the transaction".
THEOREM NothingStranded == Spec => []NoStranded
<1>1. Inv => NoStranded BY DEF Inv, Custody
<1> QED BY Invariance, <1>1, PTL

\* tx.rs "Shutdown": what is open after close is what a request holds.
THEOREM CloseIsFinal == Spec => []ClosedIsHeld
<1>1. Inv => ClosedIsHeld BY DEF Inv, Custody
<1> QED BY Invariance, <1>1, PTL

\* tx.rs "Ownership": a stranger hears the answer of an id that never existed.
THEOREM IdsRevealNothing == Spec => []OnlyOwnerHears
<1>1. Inv => OnlyOwnerHears BY DEF Inv
<1> QED BY Invariance, <1>1, PTL

\* A transaction that can be checked out is neither committed nor rolled back.
THEOREM CheckoutIsUndecided == Spec => []OpenIsUndecided
<1>1. Inv => OpenIsUndecided BY DEF Inv, Custody
<1> QED BY Invariance, <1>1, PTL

\* The registry keeps all six, whatever the ids, credentials, requests and limits.
THEOREM RegistryIsSound == Spec => []RegistrySound
BY RequestsExclude, OpenIsBounded, NothingStranded, CloseIsFinal, IdsRevealNothing,
   CheckoutIsUndecided, PTL DEF RegistrySound

-----------------------------------------------------------------------------
\* The tombstones remember makes are of due slots and say why.
LEMMA RememberOnlyDue ==
    ASSUME TypeOK, NEW ids \in SUBSET Due, NEW before \in SUBSET expired, Remember(ids, before)
    PROVE  \A i \in expired' \ expired :
              /\ i \in open
              /\ IF tomb'[i].why = "Lifetime" THEN slot[i].life <= 0
                 ELSE slot[i].body /\ slot[i].left <= 0
<1> SUFFICES ASSUME NEW i \in expired' \ expired
             PROVE  /\ i \in open
                    /\ IF tomb'[i].why = "Lifetime" THEN slot[i].life <= 0
                       ELSE slot[i].body /\ slot[i].left <= 0
  OBVIOUS
<1>1. ids \in SUBSET open BY DueIsOpen
<1>2. i \in ids /\ tomb'[i].why = Expiry(i) BY <1>1, RememberKeeps
<1>3. i \in open /\ i \in Due BY <1>1, <1>2
<1>4. slot[i] \in Slots BY <1>3 DEF TypeOK
<1>5. slot[i].left \in Int /\ slot[i].life \in Int BY <1>4 DEF Slots
<1> QED BY <1>2, <1>3, <1>5 DEF Due, Expiry

\* Every step either makes no tombstone or makes them for due slots.
LEMMA StepRemembers ==
    ASSUME TypeOK, Next
    PROVE  \/ expired' \subseteq expired
           \/ \E ids \in SUBSET Due, before \in SUBSET expired : Remember(ids, before)
<1>1. Due \in SUBSET Due /\ Retained \in SUBSET expired /\ expired \in SUBSET expired
  BY DueIsOpen
<1>2. ASSUME NEW r \in Requests, RequestEnds(r)
      PROVE  expired' = expired \/ Remember(Due, Retained)
  BY <1>2 DEF RequestEnds, BeginDropped, BeginRefused, Begin, RunEnds, RunPanics, CommitApplies,
              CommitEnds, Expire, registry
<1>3. ASSUME NEW r \in Requests, NEW o \in Owners, HasRoom(r, o)
      PROVE  Remember(Due, Retained)
  BY <1>3 DEF HasRoom, Expire
<1>4. ASSUME NEW r \in Requests, NEW o \in Owners, NEW i \in Ids,
             NEW doing \in {"runs", "commits"}, Checkout(r, o, i, doing)
      PROVE  expired' = expired
  BY <1>4 DEF Checkout
<1>5. ASSUME NEW o \in Owners, NEW i \in Ids, Refused(o, i)
      PROVE  expired' = expired \/ ({i} \in SUBSET Due /\ Remember({i}, expired))
  <2>1. CASE Lookup(i, o) = "Expired" /\ i \in open
    <3>1. Remember({i}, expired) BY <1>5, <2>1 DEF Refused, Touch, Expire
    <3>2. i \in Due BY <2>1 DEF Lookup, Due
    <3> QED BY <3>1, <3>2
  <2>2. CASE ~(Lookup(i, o) = "Expired" /\ i \in open) BY <1>5, <2>2 DEF Refused, Touch
  <2> QED BY <2>1, <2>2
<1>6. ASSUME NEW o \in Owners, NEW i \in Ids, Rollback(o, i) PROVE expired' = expired
  BY <1>6 DEF Rollback
<1>7. CASE Close BY <1>7 DEF Close
<1>8. CASE Reap BY <1>1, <1>8 DEF Reap, Expire
<1>9. CASE Tick BY <1>9 DEF Tick
<1> QED BY <1>1, <1>2, <1>3, <1>4, <1>5, <1>6, <1>7, <1>8, <1>9 DEF Next

\* tx.rs "Idle timeout" and "Lifetime": nothing is expired before its time, and a
\* transaction a request holds only past its lifetime.
THEOREM NothingExpiresEarly == Spec => OnlyDueExpire
<1>1. ASSUME TypeOK, [Next]_vars
      PROVE  [\A i \in expired' \ expired :
                 /\ i \in open
                 /\ IF tomb'[i].why = "Lifetime" THEN slot[i].life <= 0
                    ELSE slot[i].body /\ slot[i].left <= 0]_vars
  <2>1. CASE UNCHANGED vars BY <2>1
  <2>2. CASE Next
    <3>1. CASE expired' \subseteq expired BY <3>1
    <3>2. ASSUME NEW ids \in SUBSET Due, NEW before \in SUBSET expired, Remember(ids, before)
          PROVE  \A i \in expired' \ expired :
                    /\ i \in open
                    /\ IF tomb'[i].why = "Lifetime" THEN slot[i].life <= 0
                       ELSE slot[i].body /\ slot[i].left <= 0
      BY <1>1, <3>2, RememberOnlyDue
    <3> QED BY <1>1, <2>2, <3>1, <3>2, StepRemembers
  <2> QED BY <1>1, <2>1, <2>2
<1> QED BY TypeCorrect, <1>1, PTL DEF Spec, OnlyDueExpire
=============================================================================
