----------------------------- MODULE BoltProofs -----------------------------
(***************************************************************************)
(* TLAPS proofs about Bolt, for every set of requests and all bounds.  The *)
(* inductive invariant says what the connection's state tells of the       *)
(* engine (its transactions are the one of InTx, used by the identity the  *)
(* connection has), and where the RESET is that an interrupt is for: in    *)
(* the bytes read, in the batch, or now handled.                           *)
(***************************************************************************)
EXTENDS Bolt, FiniteSetTheorems, TLAPS

Kinds      == {"reset", "oversized", "request"}
Identities == {0, 1, 2}
States     == {"NotAuthenticated", "Ready", "Streaming", "InTx", "Failed", "Interrupted",
               "Defunct"}

TypeInv ==
    /\ buffer \in Seq(Kinds) /\ batch \in Seq(Kinds)
    /\ msg \in Requests \cup {"none", "reset"}
    /\ at \in {"wait", "next", "running", "closed"}
    /\ state \in States
    /\ open \in Nat
    /\ pending \in BOOLEAN /\ interrupted \in BOOLEAN /\ gone \in BOOLEAN
    /\ identity \in Identities /\ key \in Identities

\* The loop handles a message only while a batch runs, and waits with an empty one.
LoopInv ==
    /\ at # "running" => msg = "none"
    /\ at \in {"wait", "closed"} => batch = << >>

\* The engine holds the transaction of the state InTx, used by the connection's
\* present identity alone, and no other; results are open only within it.
OneTransaction ==
    /\ txs = IF state = "InTx" THEN <<{identity}>> ELSE << >>
    /\ open > 0 => state = "InTx"

\* What was committed was used by one identity.
CommittedAlone == \A who \in committed : \E x \in Identities : who = {x}

\* The RESET an interrupt is for is still to be answered.
ResetIsDue == gone \/ msg = "reset" \/ Has(buffer, "reset") \/ Has(batch, "reset")
InterruptInv ==
    /\ state # "Defunct" /\ (interrupted \/ state = "Interrupted") => ResetIsDue
    /\ pending => state \in {"Failed", "Interrupted", "Defunct"}

IInv == TypeInv /\ LoopInv /\ OneTransaction /\ CommittedAlone /\ InterruptInv

-----------------------------------------------------------------------------
(* Sequences of messages.                                                  *)

\* A message is in a concatenation if it is in one of the two.
LEMMA HasJoin ==
    ASSUME NEW a \in Seq(Kinds), NEW b \in Seq(Kinds), NEW k
    PROVE  /\ a \o b \in Seq(Kinds)
           /\ Has(a \o b, k) <=> Has(a, k) \/ Has(b, k)
<1>1. a \o b \in Seq(Kinds) OBVIOUS
<1>2. ASSUME Has(a \o b, k) PROVE Has(a, k) \/ Has(b, k)
  <2>1. PICK i \in 1 .. Len(a) + Len(b) : (a \o b)[i] = k BY <1>2 DEF Has
  <2>2. CASE i =< Len(a) BY <2>1, <2>2 DEF Has
  <2>3. CASE ~(i =< Len(a))
    <3>1. i - Len(a) \in 1 .. Len(b) /\ b[i - Len(a)] = k BY <2>1, <2>3
    <3> QED BY <3>1 DEF Has
  <2> QED BY <2>2, <2>3
<1>3. ASSUME Has(a, k) PROVE Has(a \o b, k)
  <2>1. PICK i \in 1 .. Len(a) : a[i] = k BY <1>3 DEF Has
  <2>2. i \in 1 .. Len(a \o b) /\ (a \o b)[i] = k BY <2>1
  <2> QED BY <2>2, <1>1 DEF Has
<1>4. ASSUME Has(b, k) PROVE Has(a \o b, k)
  <2>1. PICK i \in 1 .. Len(b) : b[i] = k BY <1>4 DEF Has
  <2>2. i + Len(a) \in 1 .. Len(a \o b) /\ (a \o b)[i + Len(a)] = k BY <2>1
  <2> QED BY <2>2, <1>1 DEF Has
<1> QED BY <1>1, <1>2, <1>3, <1>4

\* A message of a batch is its first or among the rest.
LEMMA HasTail ==
    ASSUME NEW s \in Seq(Kinds), s # << >>, NEW k
    PROVE  /\ Tail(s) \in Seq(Kinds)
           /\ Has(s, k) => Head(s) = k \/ Has(Tail(s), k)
<1>1. Tail(s) \in Seq(Kinds) OBVIOUS
<1>2. ASSUME Has(s, k), Head(s) # k PROVE Has(Tail(s), k)
  <2>1. PICK i \in 1 .. Len(s) : s[i] = k BY <1>2 DEF Has
  <2>2. i # 1 BY <2>1, <1>2
  <2>3. i - 1 \in 1 .. Len(Tail(s)) /\ Tail(s)[i - 1] = k BY <2>1, <2>2
  <2> QED BY <2>3, <1>1 DEF Has
<1> QED BY <1>1, <1>2

\* Nothing is in no messages.
LEMMA HasNothing == ASSUME NEW k PROVE ~Has(<< >>, k)
BY DEF Has

\* A read brings messages.
LEMMA ArrivalTypes == ASSUME NEW ms \in Arrivals PROVE ms \in Seq(Kinds)
<1>1. ms \in BoundedSeq(Kinds, 2) BY DEF Arrivals, Kinds
<1>2. PICK n \in 0 .. 2 : ms \in [1 .. n -> Kinds] BY <1>1 DEF BoundedSeq, SeqOf
<1>3. n \in Nat BY <1>2
<1> QED BY <1>2, <1>3

-----------------------------------------------------------------------------
(* The transaction.                                                        *)

\* Rolling back, of whatever state, leaves the engine without a transaction.
LEMMA RollbackEnds == ASSUME TypeInv, OneTransaction, Rollback PROVE txs' = << >>
<1>1. CASE state = "InTx"
  <2>1. txs = <<{identity}>> BY <1>1 DEF OneTransaction
  <2>2. Front(<<{identity}>>) = << >> BY DEF Front
  <2> QED BY <1>1, <2>1, <2>2 DEF Rollback
<1>2. CASE state # "InTx" BY <1>2 DEF Rollback, OneTransaction
<1> QED BY <1>1, <1>2

\* discard_work leaves no transaction and no result.
LEMMA DiscardEnds ==
    ASSUME TypeInv, OneTransaction, DiscardWork
    PROVE  txs' = << >> /\ open' = 0
BY RollbackEnds DEF DiscardWork

\* An interrupt leaves none, unless the connection has no work to discard.
LEMMA InterruptEnds ==
    ASSUME TypeInv, OneTransaction, Interrupt
    PROVE  /\ txs' = << >> /\ open' = 0
           /\ state' \in {"NotAuthenticated", "Defunct", "Interrupted"}
           /\ state' = "NotAuthenticated" => state = "NotAuthenticated"
           /\ state = "Defunct" => state' = "Defunct"
<1>1. CASE state \in {"NotAuthenticated", "Defunct", "Interrupted"}
  <2>1. state' = state /\ open' = open /\ txs' = txs BY <1>1 DEF Interrupt
  <2> QED BY <1>1, <2>1 DEF TypeInv, OneTransaction
<1>2. CASE state \notin {"NotAuthenticated", "Defunct", "Interrupted"}
  <2>1. DiscardWork /\ state' = "Interrupted" BY <1>2 DEF Interrupt
  <2> QED BY <1>2, <2>1, DiscardEnds
<1> QED BY <1>1, <1>2

-----------------------------------------------------------------------------
(* One message.                                                            *)

\* What a handler does to the connection: types, transaction and commits stay
\* as the invariant says, an interrupt only follows the flag, and a failure
\* that is still to be told keeps the connection from serving.
Handled ==
    /\ state' \in States /\ open' \in Nat
    /\ pending' \in BOOLEAN /\ interrupted' \in BOOLEAN /\ identity' \in Identities
    /\ OneTransaction' /\ CommittedAlone'
    /\ state' # "Defunct" /\ (interrupted' \/ state' = "Interrupted") =>
          msg # "reset" /\ state # "Defunct" /\ (interrupted \/ state = "Interrupted")
    /\ pending' => state' \in {"Failed", "Interrupted", "Defunct"}

\* A FAILURE, also one that ends the connection.
LEMMA FailHandles ==
    ASSUME IInv, Fail \/ Violate, identity' \in Identities, msg # "reset", state # "Defunct"
    PROVE  Handled
<1>1. DiscardWork BY DEF Fail, Violate
<1>2. txs' = << >> /\ open' = 0 BY <1>1, DiscardEnds DEF IInv
<1>3. state' \in {"Failed", "Defunct"} /\ UNCHANGED <<pending, interrupted, committed>>
  BY DEF Fail, Violate
<1> QED BY <1>2, <1>3 DEF IInv, TypeInv, OneTransaction, CommittedAlone, Handled, States, InterruptInv

LEMMA HandleConnectedHandles == ASSUME IInv, HandleConnected PROVE Handled
BY DEF IInv, TypeInv, OneTransaction, CommittedAlone, Handled, States, InterruptInv, HandleConnected,
   engine, Identities

LEMMA HandleFailedHandles == ASSUME IInv, HandleFailed PROVE Handled
BY DEF IInv, TypeInv, OneTransaction, CommittedAlone, Handled, States, InterruptInv, HandleFailed,
   ResetSuccess, engine

LEMMA GoodbyeHandles == ASSUME IInv, Goodbye PROVE Handled
<1>1. txs' = << >> /\ open' = 0 BY DiscardEnds DEF IInv, Goodbye
<1> QED BY <1>1 DEF IInv, TypeInv, OneTransaction, CommittedAlone, Handled, States, InterruptInv, Goodbye

LEMMA ResetHandles == ASSUME IInv, Reset PROVE Handled
<1>1. txs' = << >> /\ open' = 0 BY DiscardEnds DEF IInv, Reset
<1>2. state \in {"Ready", "Streaming", "InTx"} BY DEF Reset, Active
<1>3. ~pending BY <1>2 DEF IInv, InterruptInv
<1>4. /\ state' = "Ready" /\ interrupted' = FALSE
      /\ pending' = pending /\ identity' = identity /\ committed' = committed
  BY DEF Reset, ResetSuccess
<1>5. ~pending' BY <1>3, <1>4
<1>6. OneTransaction' BY <1>1, <1>4 DEF OneTransaction
<1>7. CommittedAlone' BY <1>4 DEF IInv, CommittedAlone
<1>8. pending' \in BOOLEAN /\ interrupted' \in BOOLEAN BY <1>4 DEF IInv, TypeInv
<1>9. state' \in States /\ open' \in Nat /\ identity' \in Identities
  BY <1>1, <1>4 DEF IInv, TypeInv, States
<1>10. ~interrupted' /\ state' # "Interrupted" BY <1>4
<1> QED BY <1>5, <1>6, <1>7, <1>8, <1>9, <1>10 DEF Handled

LEMMA NotAllowedHandles == ASSUME IInv, NotAllowed PROVE Handled
BY FailHandles DEF NotAllowed, Active, IInv, TypeInv

LEMMA HandleRouteHandles == ASSUME IInv, HandleRoute PROVE Handled
<1>1. msg = "route" /\ state = "Ready" /\ identity' = identity BY DEF HandleRoute, Allowed
<1>2. CASE UNCHANGED <<state, open, pending, interrupted, engine>>
  BY <1>1, <1>2 DEF IInv, TypeInv, OneTransaction, CommittedAlone, Handled, InterruptInv, engine
<1>3. CASE Fail \/ Violate BY <1>1, <1>3, FailHandles DEF IInv, TypeInv
<1> QED BY <1>2, <1>3 DEF HandleRoute

\* A key that is looked at again gives the identity it has, or leaves the old one.
LEMMA RecheckTypes == ASSUME TypeInv, Recheck PROVE identity' \in Identities
BY DEF TypeInv, Recheck

LEMMA RefusedHandles == ASSUME IInv, Refused PROVE Handled
<1>1. /\ msg \in {"run", "begin", "commit"} /\ state # "Defunct"
      /\ Recheck
  BY DEF Refused, Allowed
<1>2. identity' \in Identities BY <1>1, RecheckTypes DEF IInv
<1>3. CASE Fail \/ Violate BY <1>1, <1>2, <1>3, FailHandles
<1>4. CASE FailOrIgnore /\ ~interrupted BY <1>1, <1>2, <1>4, FailHandles DEF FailOrIgnore
<1>5. CASE FailOrIgnore /\ interrupted
  <2>1. Interrupt /\ UNCHANGED <<pending, interrupted, committed>> BY <1>5 DEF FailOrIgnore
  <2>2. /\ txs' = << >> /\ open' = 0
        /\ state' \in {"NotAuthenticated", "Defunct", "Interrupted"}
        /\ state' = "NotAuthenticated" => state = "NotAuthenticated"
    BY <2>1, InterruptEnds DEF IInv
  <2> QED BY <1>1, <1>2, <1>5, <2>1, <2>2
          DEF IInv, TypeInv, OneTransaction, CommittedAlone, Handled, InterruptInv, States
<1> QED BY <1>3, <1>4, <1>5 DEF Refused

\* A statement, BEGIN or COMMIT whose key holds runs under the identity the
\* connection has, and within a transaction had when that began.
LEMMA KeyHoldsMeans ==
    ASSUME TypeInv, Recheck, KeyHolds
    PROVE  key \in Identities /\ identity' = key /\ (state = "InTx" => identity' = identity)
BY DEF TypeInv, Recheck, KeyHolds

LEMMA RunAutoCommitHandles == ASSUME IInv, RunAutoCommit PROVE Handled
<1>1. key \in Identities /\ identity' = key BY KeyHoldsMeans DEF IInv, RunAutoCommit
<1>2. CommittedAlone' BY <1>1 DEF IInv, CommittedAlone, RunAutoCommit
<1> QED BY <1>1, <1>2 DEF IInv, TypeInv, OneTransaction, Handled, InterruptInv, States, RunAutoCommit

LEMMA RunInTxHandles == ASSUME IInv, RunInTx PROVE Handled
<1>1. key \in Identities /\ identity' = key /\ identity' = identity
  BY KeyHoldsMeans DEF IInv, RunInTx
<1>2. txs = <<{identity}>> BY DEF IInv, OneTransaction, RunInTx
<1>3. txs' = <<{identity}>>
  <2>1. txs' = [txs EXCEPT ![1] = txs[1] \cup {key}] BY <1>2 DEF RunInTx
  <2>2. txs[1] \cup {key} = {identity} BY <1>1, <1>2
  <2> QED BY <1>2, <2>1, <2>2
<1> QED BY <1>1, <1>3
        DEF IInv, TypeInv, OneTransaction, CommittedAlone, Handled, InterruptInv, States, RunInTx

LEMMA HandleBeginHandles == ASSUME IInv, HandleBegin PROVE Handled
<1>1. key \in Identities /\ identity' = key BY KeyHoldsMeans DEF IInv, HandleBegin
<1>2. txs' = <<{identity'}>>
  <2>1. txs = << >> BY DEF IInv, OneTransaction, HandleBegin
  <2> QED BY <1>1, <2>1 DEF HandleBegin
<1> QED BY <1>1, <1>2
        DEF IInv, TypeInv, OneTransaction, CommittedAlone, Handled, InterruptInv, States, HandleBegin

LEMMA HandleCommitHandles == ASSUME IInv, HandleCommit PROVE Handled
<1>1. /\ msg = "commit" /\ state = "InTx" /\ open = 0
      /\ txs = <<{identity}>>
  BY DEF HandleCommit, IInv, OneTransaction
<1>2. CASE /\ Recheck /\ KeyHolds
           /\ state' = "Ready"
           /\ committed' = committed \cup {Last(txs) \cup {key}}
           /\ Rollback
           /\ UNCHANGED <<open, pending, interrupted>>
  <2>1. key \in Identities /\ identity' = key /\ identity' = identity
    BY <1>1, <1>2, KeyHoldsMeans DEF IInv
  <2>2. Last(txs) \cup {key} = {identity} BY <1>1, <2>1 DEF Last
  <2>3. CommittedAlone' BY <1>2, <2>1, <2>2 DEF IInv, CommittedAlone
  <2>4. txs' = << >> BY <1>2, RollbackEnds DEF IInv
  <2> QED BY <1>1, <1>2, <2>1, <2>3, <2>4
          DEF IInv, TypeInv, OneTransaction, Handled, InterruptInv, States
<1>3. CASE Recheck /\ KeyHolds /\ Fail BY <1>1, <1>3, FailHandles, RecheckTypes DEF IInv
<1>4. CASE Violate /\ UNCHANGED identity BY <1>1, <1>4, FailHandles DEF IInv, TypeInv
<1> QED BY <1>2, <1>3, <1>4 DEF HandleCommit

LEMMA HandleRollbackHandles == ASSUME IInv, HandleRollback PROVE Handled
<1>1. msg = "rollback" /\ state = "InTx" /\ identity' = identity BY DEF HandleRollback
<1>2. CASE Rollback /\ state' = "Ready" /\ UNCHANGED <<open, pending, interrupted, committed>>
  <2>1. txs' = << >> BY <1>2, RollbackEnds DEF IInv
  <2> QED BY <1>1, <1>2, <2>1
          DEF IInv, TypeInv, OneTransaction, CommittedAlone, Handled, InterruptInv, States, HandleRollback
<1>3. CASE Violate BY <1>1, <1>3, FailHandles DEF IInv, TypeInv
<1> QED BY <1>2, <1>3 DEF HandleRollback

LEMMA HandleStreamHandles == ASSUME IInv, HandleStream PROVE Handled
<1>1. /\ msg = "pull" /\ identity' = identity
      /\ state = "Streaming" \/ (state = "InTx" /\ open > 0)
  BY DEF HandleStream, Allowed, IInv, TypeInv
<1>2. CASE UNCHANGED <<state, open, pending, interrupted, engine>>
  BY <1>1, <1>2 DEF IInv, TypeInv, OneTransaction, CommittedAlone, Handled, InterruptInv, engine
<1>3. CASE /\ IF state = "InTx" THEN open' = open - 1 /\ UNCHANGED state
              ELSE state' = "Ready" /\ UNCHANGED open
           /\ UNCHANGED <<pending, interrupted, engine>>
  BY <1>1, <1>3 DEF IInv, TypeInv, OneTransaction, CommittedAlone, Handled, InterruptInv, engine, States
<1>4. CASE Fail \/ Violate BY <1>1, <1>4, FailHandles DEF IInv, TypeInv
<1> QED BY <1>2, <1>3, <1>4 DEF HandleStream

\* A connection that has ended answers nothing.
LEMMA DefunctHandles ==
    ASSUME IInv, state = "Defunct", UNCHANGED <<conn, engine, resets>>
    PROVE  Handled
BY DEF IInv, TypeInv, OneTransaction, CommittedAlone, Handled, InterruptInv, engine, conn

\* Every message, in every state.
LEMMA HandleHandles == ASSUME IInv, Handle PROVE Handled
<1>1. CASE msg = "malformed"
  <2>1. CASE state = "Defunct" BY <1>1, <2>1, DefunctHandles DEF Handle, HandleMalformed
  <2>2. CASE state # "Defunct"
    <3>1. Violate /\ identity' = identity BY <1>1, <2>2 DEF Handle, HandleMalformed
    <3> QED BY <1>1, <2>2, <3>1, FailHandles DEF IInv, TypeInv
  <2> QED BY <2>1, <2>2
<1>2. CASE msg # "malformed"
  <2>1. HandleAt BY <1>2 DEF Handle
  <2> QED BY <2>1, DefunctHandles, HandleConnectedHandles, HandleFailedHandles, GoodbyeHandles,
             ResetHandles, NotAllowedHandles, HandleRouteHandles, RefusedHandles,
             RunAutoCommitHandles, RunInTxHandles, HandleBeginHandles, HandleCommitHandles,
             HandleRollbackHandles, HandleStreamHandles DEF HandleAt
<1> QED BY <1>1, <1>2

-----------------------------------------------------------------------------
(* The steps of the loop.                                                  *)

LEMMA HandleKeeps == ASSUME IInv, Handle PROVE IInv'
<1>1. Handled BY HandleHandles
<1>2. /\ UNCHANGED <<buffer, batch, key, gone>> /\ msg' = "none" /\ at' = "next"
      /\ at = "running"
  BY DEF Handle, keys
<1>3. TypeInv' BY <1>1, <1>2 DEF Handled, IInv, TypeInv
<1>4. LoopInv' BY <1>2 DEF LoopInv
<1>5. InterruptInv' BY <1>1, <1>2 DEF Handled, IInv, InterruptInv, ResetIsDue, Has
<1> QED BY <1>1, <1>3, <1>4, <1>5 DEF Handled, IInv

\* The connection is dropped.
LEMMA CloseKeeps ==
    ASSUME IInv, Close, UNCHANGED <<pending, interrupted, identity, keys, gone, committed>>,
           msg = "none", msg' = "none"
    PROVE  IInv'
<1>1. txs' = << >> /\ open' = 0 BY DiscardEnds DEF IInv, Close
<1> QED BY <1>1 DEF IInv, TypeInv, LoopInv, OneTransaction, CommittedAlone, InterruptInv, ResetIsDue,
           Close, keys, States, Has

\* What was read is decoded.
LEMMA DecodeKeeps ==
    ASSUME IInv, at = "wait", NEW all \in Seq(Kinds), Decode(all),
           Has(buffer, "reset") => Has(all, "reset"),
           UNCHANGED <<msg, pending, interrupted, identity, keys, gone, committed>>
    PROVE  IInv'
<1>1. msg = "none" /\ msg' = "none" /\ batch = << >> BY DEF IInv, LoopInv
<1>2. CASE Close BY <1>1, <1>2, CloseKeeps
<1>3. CASE ~Close
  <2>1. /\ at' = "next" /\ batch' = all /\ buffer' = << >>
        /\ IF Has(all, "reset") THEN Interrupt ELSE UNCHANGED <<state, open, txs>>
    BY <1>3 DEF Decode
  <2>2. CASE Has(all, "reset")
    <3>1. /\ txs' = << >> /\ open' = 0
          /\ state' \in {"NotAuthenticated", "Defunct", "Interrupted"}
          /\ state' = "NotAuthenticated" => state = "NotAuthenticated"
      BY <2>1, <2>2, InterruptEnds DEF IInv
    <3>2. Has(batch', "reset") BY <2>1, <2>2
    <3>3. TypeInv' BY <2>1, <3>1 DEF IInv, TypeInv, keys, States
    <3>4. InterruptInv' BY <3>1, <3>2 DEF IInv, InterruptInv, ResetIsDue, Has
    <3> QED BY <1>1, <2>1, <3>1, <3>3, <3>4 DEF IInv, LoopInv, OneTransaction, CommittedAlone
  <2>3. CASE ~Has(all, "reset")
    <3>1. UNCHANGED <<state, open, txs>> BY <2>1, <2>3
    <3>2. ~Has(buffer, "reset") /\ ~Has(batch, "reset") BY <2>3, <1>1, HasNothing
    <3>3. InterruptInv'
      BY <1>1, <3>1, <3>2 DEF IInv, InterruptInv, ResetIsDue
    <3> QED BY <1>1, <2>1, <3>1, <3>3
            DEF IInv, TypeInv, LoopInv, OneTransaction, CommittedAlone, keys
  <2> QED BY <2>2, <2>3
<1> QED BY <1>2, <1>3

LEMMA ReadKeeps == ASSUME IInv, Read PROVE IInv'
<1>1. PICK ms \in Arrivals : Decode(ms) BY DEF Read
<1>2. ms \in Seq(Kinds) BY ArrivalTypes
<1>3. ~Has(buffer, "reset") BY HasNothing DEF Read
<1> QED BY <1>1, <1>2, <1>3, DecodeKeeps DEF Read

LEMMA UnprocessedKeeps == ASSUME IInv, Unprocessed PROVE IInv'
<1>1. buffer \in Seq(Kinds) BY DEF IInv, TypeInv
<1> QED BY <1>1, DecodeKeeps DEF Unprocessed

LEMMA ReadOnKeeps == ASSUME IInv, ReadOn PROVE IInv'
<1>1. PICK ms \in Arrivals : /\ buffer' = buffer \o ms
                              /\ interrupted' = (interrupted \/ Has(ms, "reset"))
  BY DEF ReadOn
<1>2. ms \in Seq(Kinds) /\ buffer \in Seq(Kinds) BY ArrivalTypes DEF IInv, TypeInv
<1>3. /\ buffer' \in Seq(Kinds)
      /\ Has(buffer', "reset") <=> Has(buffer, "reset") \/ Has(ms, "reset")
  BY <1>1, <1>2, HasJoin
<1>4. /\ UNCHANGED <<batch, msg, at, state, open, pending, identity, key, gone, txs, committed>>
      /\ at \in {"next", "running"}
  BY DEF ReadOn, keys, engine
<1>5. InterruptInv'
  <2>1. Has(batch', "reset") <=> Has(batch, "reset") BY <1>4
  <2> QED BY <1>1, <1>3, <1>4, <2>1 DEF IInv, InterruptInv, ResetIsDue
<1>6. interrupted' \in BOOLEAN BY <1>1 DEF IInv, TypeInv
<1>7. TypeInv' BY <1>3, <1>4, <1>6 DEF IInv, TypeInv
<1> QED BY <1>4, <1>5, <1>7 DEF IInv, LoopInv, OneTransaction, CommittedAlone

LEMMA HangUpKeeps == ASSUME IInv, HangUp PROVE IInv'
BY DEF IInv, TypeInv, LoopInv, OneTransaction, CommittedAlone, InterruptInv, ResetIsDue, HangUp, keys,
       engine

LEMMA NextMessageKeeps == ASSUME IInv, NextMessage PROVE IInv'
<1>1. batch \in Seq(Kinds) /\ batch # << >> BY DEF IInv, TypeInv, NextMessage
<1>2. /\ Tail(batch) \in Seq(Kinds)
      /\ Has(batch, "reset") => Head(batch) = "reset" \/ Has(Tail(batch), "reset")
  BY <1>1, HasTail
<1>3. /\ UNCHANGED <<buffer, pending, interrupted, identity, key, gone, committed>>
      /\ at' = "running" /\ batch' = Tail(batch) /\ msg = "none"
      /\ IF Head(batch) = "reset" THEN msg' = "reset" ELSE msg' \in Requests
  BY DEF NextMessage, keys, IInv, LoopInv
<1>4. ResetIsDue => ResetIsDue'
  <2>1. Has(buffer', "reset") <=> Has(buffer, "reset") BY <1>3
  <2>2. Has(batch', "reset") <=> Has(Tail(batch), "reset") BY <1>3
  <2> QED BY <1>2, <1>3, <2>1, <2>2 DEF ResetIsDue
<1>5. CASE interrupted
  <2>1. /\ txs' = << >> /\ open' = 0
        /\ state' \in {"NotAuthenticated", "Defunct", "Interrupted"}
        /\ state' = "NotAuthenticated" => state = "NotAuthenticated"
        /\ state = "Defunct" => state' = "Defunct"
    BY <1>5, InterruptEnds DEF IInv, NextMessage
  <2>2. TypeInv' BY <1>2, <1>3, <2>1 DEF IInv, TypeInv, States
  <2>3. InterruptInv' BY <1>3, <1>4, <1>5, <2>1 DEF IInv, InterruptInv
  <2> QED BY <1>3, <2>1, <2>2, <2>3 DEF IInv, LoopInv, OneTransaction, CommittedAlone
<1>6. CASE ~interrupted
  <2>1. UNCHANGED <<state, open, txs>> BY <1>6 DEF NextMessage
  <2>2. TypeInv' BY <1>2, <1>3, <2>1 DEF IInv, TypeInv
  <2>3. InterruptInv' BY <1>3, <1>4, <1>6, <2>1 DEF IInv, InterruptInv
  <2> QED BY <1>3, <2>1, <2>2, <2>3 DEF IInv, LoopInv, OneTransaction, CommittedAlone
<1> QED BY <1>5, <1>6

\* The idle limit, before a message and while the loop waits.
LEMMA ExpireKeeps ==
    ASSUME IInv, Expire,
           UNCHANGED <<buffer, batch, msg, at, interrupted, identity, keys, gone, committed>>
    PROVE  IInv'
<1>1. txs' = << >> /\ open' = 0 BY DiscardEnds DEF IInv, Expire
<1>2. InterruptInv' BY DEF IInv, InterruptInv, ResetIsDue, Has, Expire
<1> QED BY <1>1, <1>2 DEF IInv, TypeInv, LoopInv, OneTransaction, CommittedAlone, Expire, keys, States

LEMMA BatchDoneKeeps == ASSUME IInv, BatchDone PROVE IInv'
<1>1. msg = "none" /\ msg' = "none" BY DEF BatchDone, IInv, LoopInv
<1>2. CASE Close BY <1>1, <1>2, CloseKeeps DEF BatchDone
<1>3. CASE at' = "wait" /\ UNCHANGED <<buffer, batch, state, open, txs>>
  <2>1. InterruptInv' BY <1>3 DEF BatchDone, IInv, InterruptInv, ResetIsDue, Has
  <2> QED BY <1>1, <1>3, <2>1
          DEF BatchDone, IInv, TypeInv, LoopInv, OneTransaction, CommittedAlone, keys
<1> QED BY <1>2, <1>3 DEF BatchDone

LEMMA EndKeeps == ASSUME IInv, End PROVE IInv'
<1>1. msg = "none" BY DEF End, IInv, LoopInv
<1> QED BY <1>1, CloseKeeps DEF End

LEMMA ChangeKeyKeeps == ASSUME IInv, ChangeKey PROVE IInv'
<1>1. /\ UNCHANGED <<buffer, batch, msg, at, state, open, pending, interrupted, identity, gone, txs,
                    committed>>
      /\ key' \in Identities
  BY DEF ChangeKey, conn, engine, Identities
<1>2. InterruptInv' BY <1>1 DEF IInv, InterruptInv, ResetIsDue, Has
<1> QED BY <1>1, <1>2 DEF IInv, TypeInv, LoopInv, OneTransaction, CommittedAlone

-----------------------------------------------------------------------------
LEMMA InitIInv == Init => IInv
<1> SUFFICES ASSUME Init PROVE IInv OBVIOUS
<1>1. << >> \in Seq(Kinds) OBVIOUS
<1>2. TypeInv BY <1>1 DEF Init, TypeInv, States, Identities
<1> QED BY <1>2 DEF Init, IInv, LoopInv, OneTransaction, CommittedAlone, InterruptInv

LEMMA NextIInv == IInv /\ [Next]_vars => IInv'
<1> SUFFICES ASSUME IInv, [Next]_vars PROVE IInv' OBVIOUS
<1>1. CASE Next
  <2>1. ExpireRunning => IInv' BY ExpireKeeps DEF ExpireRunning
  <2>2. Tick => IInv' BY ExpireKeeps DEF Tick
  <2> QED BY <1>1, <2>1, <2>2, ReadKeeps, ReadOnKeeps, HangUpKeeps, UnprocessedKeeps,
             NextMessageKeeps, HandleKeeps, BatchDoneKeeps, EndKeeps, ChangeKeyKeeps DEF Next
<1>2. CASE UNCHANGED vars
  <2>1. UNCHANGED <<buffer, batch, msg, at, state, open, pending, interrupted, identity, key, gone,
                    txs, committed>>
    BY <1>2 DEF vars, conn, keys, engine
  <2>2. InterruptInv' BY <2>1 DEF IInv, InterruptInv, ResetIsDue, Has
  <2> QED BY <2>1, <2>2 DEF IInv, TypeInv, LoopInv, OneTransaction, CommittedAlone
<1> QED BY <1>1, <1>2

\* The invariant holds of every run of a connection.
THEOREM Invariance == Spec => []IInv
BY InitIInv, NextIInv, PTL DEF Spec

\* Whatever interrupts, times out, fails or ends the connection (connection.rs,
\* discard_work and its callers), the engine has a transaction open exactly
\* while the state is InTx, and results are open only within one.
THEOREM NoTransactionIsOrphaned == Spec => []NoOrphanTransaction
<1>1. IInv => NoOrphanTransaction
  <2> SUFFICES ASSUME IInv PROVE NoOrphanTransaction OBVIOUS
  <2>1. CASE state = "InTx"
    <3>1. txs = <<{identity}>> BY <2>1 DEF IInv, OneTransaction
    <3> QED BY <2>1, <3>1 DEF NoOrphanTransaction
  <2>2. CASE state # "InTx"
    <3>1. txs = << >> /\ ~(open > 0) BY <2>2 DEF IInv, OneTransaction
    <3> QED BY <2>2, <3>1 DEF NoOrphanTransaction
  <2> QED BY <2>1, <2>2
<1> QED BY <1>1, Invariance, PTL

\* A committed transaction ran and committed under one identity, however often
\* keys.json changed between its statements (handle_commit, recheck_key).
THEOREM OneIdentityCommits == Spec => []CommittedUnderOneIdentity
<1>1. IInv => CommittedUnderOneIdentity
  <2> SUFFICES ASSUME IInv, NEW who \in committed PROVE Cardinality(who) = 1
    BY DEF CommittedUnderOneIdentity
  <2>1. PICK x \in Identities : who = {x} BY DEF IInv, CommittedAlone
  <2> QED BY <2>1, FS_Singleton
<1> QED BY <1>1, Invariance, PTL

\* The flag the reading task raises and the handling one clears, and the state
\* Interrupted, are there only for a RESET that is still to be answered; a
\* time-out is told only before one.
THEOREM NoInterruptIsStale == Spec => []NoStaleInterrupt
<1>1. IInv => NoStaleInterrupt
  <2> SUFFICES ASSUME IInv PROVE NoStaleInterrupt OBVIOUS
  <2>1. buffer \in Seq(Kinds) /\ batch \in Seq(Kinds) BY DEF IInv, TypeInv
  <2>2. Has(Waiting, "reset") <=> Has(buffer, "reset") \/ Has(batch, "reset")
    BY <2>1, HasJoin DEF Waiting
  <2> QED BY <2>2 DEF IInv, InterruptInv, ResetIsDue, NoStaleInterrupt
<1> QED BY <1>1, Invariance, PTL
=============================================================================
