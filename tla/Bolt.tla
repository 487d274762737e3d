-------------------------------- MODULE Bolt --------------------------------
(***************************************************************************)
(* One Bolt connection with a store (crates/bolt/src/connection.rs): the   *)
(* state machine over the client's messages, and the loop that reads them, *)
(* hands every batch of them to a blocking thread and goes on reading      *)
(* meanwhile, so that a RESET can interrupt what is queued before it.      *)
(*                                                                         *)
(* A message is its kind.  The loop tells only a RESET and a message that  *)
(* is too large from the others, so what another one is, is decided when   *)
(* its turn comes.  What a statement computes, the records of a result and *)
(* the handshake are left out, so are the answers but for a RESET's.  A    *)
(* DISCARD is a PULL.  The idle limit may have passed whenever it is       *)
(* looked at, for a statement may run longer.                              *)
(***************************************************************************)
EXTENDS Integers, Sequences, FiniteSets, SequencesExt

CONSTANTS
    Requests,     \* what a message may be, apart from a RESET
    MaxUnhandled, \* the bounds: how many messages wait,
    MaxReset,     \* how many RESETs are sent,
    MaxOpen,      \* how many results are open in a transaction
    MaxKeys       \* and how often keys.json is changed

ASSUME BoltAssumption ==
    /\ Requests \subseteq {"hello", "run", "begin", "commit", "rollback", "pull", "route",
                           "goodbye", "malformed"}
    /\ MaxUnhandled \in Nat /\ MaxReset \in Nat /\ MaxOpen \in Nat /\ MaxKeys \in Nat

VARIABLES
    buffer,     \* the messages read and not decoded
    batch,      \* those decoded and not handled
    msg,        \* the message now handled
    at,         \* the loop: it waits, a batch runs (before or in a message), it has ended
    state,      \* ConnectionState
    open,       \* how many results are open in the transaction
    pending,    \* pending_failure
    interrupted,\* the interrupt flag
    identity,   \* who the connection is
    key,        \* what keys.json says of its key: an identity, or 0 for revoked
    changes,    \* how often it changed
    gone,       \* peer_gone: the client was seen to hang up while a batch ran
    txs,        \* the transactions open in the engine: who each was used by
    committed,  \* the same of the commits
    resets      \* how many RESETs were read, and how many answered SUCCESS

conn   == <<state, open, pending, interrupted, identity>>
engine == <<txs, committed>>
keys   == <<key, changes>>
vars   == <<buffer, batch, msg, at, conn, keys, gone, engine, resets>>

Init ==
    /\ buffer = << >> /\ batch = << >> /\ msg = "none"
    /\ at = "wait"
    /\ state = "NotAuthenticated" /\ identity = 0
    /\ open = 0 /\ pending = FALSE /\ interrupted = FALSE
    /\ key = 1 /\ changes = 0
    /\ gone = FALSE
    /\ txs = << >> /\ committed = {}
    /\ resets = [read |-> 0, answered |-> 0]

-----------------------------------------------------------------------------
(* Transactions: the last one opened is the connection's.                  *)

\* OpenTransaction::rollback, which dropping it does too.
Rollback == txs' = IF state = "InTx" THEN Front(txs) ELSE txs

\* discard_work: a transaction is rolled back, results are dropped.
DiscardWork == Rollback /\ open' = 0

\* A mutant of Interrupt: the transaction stays for the RESET to find.
InterruptLater ==
    IF state \in {"NotAuthenticated", "Defunct", "Interrupted"} THEN UNCHANGED <<state, open, txs>>
    ELSE state' = "Interrupted" /\ UNCHANGED <<open, txs>>

Interrupt ==
    IF state \in {"NotAuthenticated", "Defunct", "Interrupted"} THEN UNCHANGED <<state, open, txs>>
    ELSE DiscardWork /\ state' = "Interrupted"

\* check_timeout: a transaction or a result is closed, and the next request
\* is told.
Expire ==
    /\ state \in {"InTx", "Streaming"}
    /\ DiscardWork
    /\ state' = "Failed"
    /\ pending' = TRUE

-----------------------------------------------------------------------------
(* The handlers of one message.                                            *)

\* fail and violate: a FAILURE, and a FAILURE that ends the connection.
Fail == DiscardWork /\ state' = "Failed" /\ UNCHANGED <<pending, interrupted, committed>>
Violate == DiscardWork /\ state' = "Defunct" /\ UNCHANGED <<pending, interrupted, committed>>

\* ignored_if_interrupted: a request cut short by a RESET that arrived while
\* it ran.
FailOrIgnore ==
    IF interrupted THEN Interrupt /\ UNCHANGED <<pending, interrupted, committed>> ELSE Fail

\* recheck_key: the identity follows the key; it may not change within a
\* transaction.
KeyHolds == key # 0 /\ (state = "InTx" => key = identity)
Recheck == identity' = IF key = 0 THEN identity ELSE key

HandleConnected ==
    /\ state = "NotAuthenticated"
    /\ IF msg = "hello" /\ key # 0
       THEN state' = "Ready" /\ identity' = key
       ELSE state' = "Defunct" /\ UNCHANGED identity
    /\ UNCHANGED <<open, pending, interrupted, engine, resets>>

\* A mutant of ResetSuccess: the flag stays up.
ResetSuccessFlagged ==
    /\ state' = "Ready" /\ UNCHANGED interrupted
    /\ resets' = [resets EXCEPT !.answered = @ + 1]

\* The flag comes down, whoever raised it.
ResetSuccess ==
    /\ state' = "Ready" /\ interrupted' = FALSE
    /\ resets' = [resets EXCEPT !.answered = @ + 1]

\* A mutant of HandleFailed: a pending failure is told to a RESET too.
HandleFailedFirst ==
    /\ state \in {"Failed", "Interrupted"}
    /\ pending' = FALSE
    /\ CASE msg = "reset" /\ ~pending -> ResetSuccess
         [] msg = "goodbye" -> state' = "Defunct" /\ UNCHANGED <<interrupted, resets>>
         [] OTHER -> UNCHANGED <<state, interrupted, resets>>
    /\ UNCHANGED <<open, engine, identity>>

\* handle_failed: only RESET and GOODBYE are acted on; a pending failure is
\* told once.
HandleFailed ==
    /\ state \in {"Failed", "Interrupted"}
    /\ CASE msg = "reset" -> ResetSuccess /\ pending' = FALSE
         [] msg = "goodbye" -> state' = "Defunct" /\ UNCHANGED <<pending, interrupted, resets>>
         [] OTHER -> pending' = FALSE /\ UNCHANGED <<state, interrupted, resets>>
    /\ UNCHANGED <<open, engine, identity>>

\* allows: what each of the three active states takes.
Allowed ==
    CASE state = "Ready" -> {"run", "begin", "route"}
      [] state = "Streaming" -> {"pull"}
      [] state = "InTx" -> IF open = 0 THEN {"run", "commit", "rollback"} ELSE {"run", "pull"}
      [] OTHER -> {}

Active == state \in {"Ready", "Streaming", "InTx"}

Goodbye ==
    /\ Active /\ msg = "goodbye"
    /\ DiscardWork /\ state' = "Defunct"
    /\ UNCHANGED <<pending, interrupted, identity, committed, resets>>

Reset ==
    /\ Active /\ msg = "reset"
    /\ DiscardWork
    /\ ResetSuccess
    /\ UNCHANGED <<pending, identity, committed>>

NotAllowed ==
    /\ Active /\ msg \notin Allowed \cup {"goodbye", "reset"}
    /\ Violate
    /\ UNCHANGED <<identity, resets>>

HandleRoute ==
    /\ msg = "route" /\ msg \in Allowed
    /\ \/ UNCHANGED <<state, open, pending, interrupted, engine>>
       \/ Fail
       \/ Violate
    /\ UNCHANGED <<identity, resets>>

\* RUN, BEGIN or COMMIT whose key does not hold any more; whose fields are
\* wrong; whose database is, or the wait for its bookmarks or the statement
\* fails.
Refused ==
    /\ msg \in {"run", "begin", "commit"} \cap Allowed
    /\ Recheck
    /\ \/ ~KeyHolds /\ Fail
       \/ KeyHolds /\ msg # "commit" /\ (Fail \/ Violate \/ FailOrIgnore)
    /\ UNCHANGED resets

\* An auto-commit statement is durable when its result is opened.
RunAutoCommit ==
    /\ state = "Ready" /\ msg = "run"
    /\ Recheck /\ KeyHolds
    /\ state' = "Streaming"
    /\ committed' = committed \cup {{key}}
    /\ UNCHANGED <<open, pending, interrupted, txs, resets>>

RunInTx ==
    /\ state = "InTx" /\ msg = "run" /\ open < MaxOpen
    /\ Recheck /\ KeyHolds
    /\ open' = open + 1
    /\ txs' = [txs EXCEPT ![Len(txs)] = @ \cup {key}]
    /\ UNCHANGED <<state, pending, interrupted, committed, resets>>

HandleBegin ==
    /\ state = "Ready" /\ msg = "begin"
    /\ Recheck /\ KeyHolds
    /\ state' = "InTx"
    /\ open' = 0
    /\ txs' = Append(txs, {key})
    /\ UNCHANGED <<pending, interrupted, committed, resets>>

\* A mutant of HandleCommit: the key is not looked at again.
HandleCommitUnchecked ==
    /\ state = "InTx" /\ open = 0 /\ msg = "commit"
    /\ Recheck
    /\ state' = "Ready"
    /\ committed' = committed \cup {Last(txs) \cup {key}}
    /\ Rollback
    /\ UNCHANGED <<open, pending, interrupted, resets>>

\* The transaction is taken out of the state, which is Failed until it has
\* committed; a COMMIT with fields ends the connection.
HandleCommit ==
    /\ state = "InTx" /\ open = 0 /\ msg = "commit"
    /\ \/ /\ Recheck /\ KeyHolds
          /\ state' = "Ready"
          /\ committed' = committed \cup {Last(txs) \cup {key}}
          /\ Rollback
          /\ UNCHANGED <<open, pending, interrupted>>
       \/ Recheck /\ KeyHolds /\ Fail
       \/ Violate /\ UNCHANGED identity
    /\ UNCHANGED resets

HandleRollback ==
    /\ state = "InTx" /\ open = 0 /\ msg = "rollback"
    /\ \/ Rollback /\ state' = "Ready" /\ UNCHANGED <<open, pending, interrupted, committed>>
       \/ Violate
    /\ UNCHANGED <<identity, resets>>

\* PULL and DISCARD: some rows, the last ones, or none, for no result has the
\* qid or the rows cannot be sent.
HandleStream ==
    /\ msg = "pull" /\ msg \in Allowed
    /\ \/ UNCHANGED <<state, open, pending, interrupted, engine>>
       \/ /\ IF state = "InTx" THEN open' = open - 1 /\ UNCHANGED state
             ELSE state' = "Ready" /\ UNCHANGED open
          /\ UNCHANGED <<pending, interrupted, engine>>
       \/ Fail
       \/ Violate
    /\ UNCHANGED <<identity, resets>>

HandleAt ==
    \/ state = "Defunct" /\ UNCHANGED <<conn, engine, resets>>
    \/ HandleConnected \/ HandleFailed
    \/ Goodbye \/ Reset \/ NotAllowed
    \/ HandleRoute \/ Refused \/ RunAutoCommit \/ RunInTx
    \/ HandleBegin \/ HandleCommit \/ HandleRollback \/ HandleStream

HandleMalformed ==
    IF state = "Defunct" THEN UNCHANGED <<conn, engine, resets>>
    ELSE Violate /\ UNCHANGED <<identity, resets>>

-----------------------------------------------------------------------------
(* The loop.                                                               *)

Waiting == buffer \o batch
Has(ms, kind) == \E i \in DOMAIN ms : ms[i] = kind
Closed == at = "closed"

\* What a read brings: one message or two.
Arrivals ==
    {ms \in BoundedSeq({"reset", "oversized", "request"}, 2) :
        /\ ms # << >>
        /\ Len(Waiting \o ms) =< MaxUnhandled
        /\ Len(SelectSeq(ms, LAMBDA m : m = "reset")) =< MaxReset - resets.read}

CountResets(ms) ==
    resets' = [resets EXCEPT !.read = @ + Len(SelectSeq(ms, LAMBDA m : m = "reset"))]

\* The connection is dropped, and what it holds with it.
Close ==
    /\ at' = "closed"
    /\ buffer' = << >> /\ batch' = << >>
    /\ DiscardWork
    /\ state' = "Defunct"

\* Everything in the buffer is decoded: a message that is too large ends the
\* connection, a RESET interrupts what is before it.
Decode(all) ==
    IF Has(all, "oversized") THEN Close
    ELSE /\ at' = "next"
         /\ batch' = all /\ buffer' = << >>
         /\ IF Has(all, "reset") THEN Interrupt ELSE UNCHANGED <<state, open, txs>>

Read ==
    /\ at = "wait" /\ buffer = << >>
    /\ \E ms \in Arrivals : Decode(ms) /\ CountResets(ms)
    /\ UNCHANGED <<msg, pending, interrupted, identity, keys, gone, committed>>

\* The bytes read while the last batch ran are decoded without another read.
Unprocessed ==
    /\ at = "wait" /\ buffer # << >>
    /\ Decode(buffer)
    /\ UNCHANGED <<msg, pending, interrupted, identity, keys, gone, committed, resets>>

\* While a batch runs the loop reads on, and raises the flag for a RESET.
ReadOn ==
    /\ at \in {"next", "running"}
    /\ ~gone
    /\ \E ms \in Arrivals :
          /\ buffer' = buffer \o ms
          /\ interrupted' = (interrupted \/ Has(ms, "reset"))
          /\ CountResets(ms)
    /\ UNCHANGED <<batch, msg, at, state, open, pending, identity, keys, gone, engine>>

HangUp ==
    /\ at \in {"next", "running"}
    /\ ~gone
    /\ gone' = TRUE
    /\ interrupted' = TRUE
    /\ UNCHANGED <<buffer, batch, msg, at, state, open, pending, identity, keys, engine, resets>>

\* handle_batch: the flag is looked at before each message,
NextMessage ==
    /\ at = "next" /\ batch # << >>
    /\ at' = "running"
    /\ batch' = Tail(batch)
    /\ IF Head(batch) = "reset" THEN msg' = "reset" ELSE msg' \in Requests
    /\ IF interrupted THEN Interrupt ELSE UNCHANGED <<state, open, txs>>
    /\ UNCHANGED <<buffer, pending, interrupted, identity, keys, gone, committed, resets>>

\* and then the time, unless it could not be decoded.
ExpireRunning ==
    /\ at = "running" /\ msg # "malformed"
    /\ Expire
    /\ UNCHANGED <<buffer, batch, msg, at, interrupted, identity, keys, gone, committed, resets>>

Handle ==
    /\ at = "running"
    /\ IF msg = "malformed" THEN HandleMalformed ELSE HandleAt
    /\ at' = "next" /\ msg' = "none"
    /\ UNCHANGED <<buffer, batch, keys, gone>>

\* The batch is done: its answers are sent, unless the client is gone.
BatchDone ==
    /\ at = "next" /\ batch = << >>
    /\ IF gone \/ state = "Defunct" THEN Close
       ELSE at' = "wait" /\ UNCHANGED <<buffer, batch, state, open, txs>>
    /\ UNCHANGED <<msg, pending, interrupted, identity, keys, gone, committed, resets>>

Tick ==
    /\ at = "wait" /\ buffer = << >>
    /\ Expire
    /\ UNCHANGED <<buffer, batch, msg, at, interrupted, identity, keys, gone, committed, resets>>

\* The stop signal, a deadline, a failed write or the end of the stream.
End ==
    /\ at = "wait"
    /\ Close
    /\ UNCHANGED <<msg, pending, interrupted, identity, keys, gone, committed, resets>>

\* keys.json is read again: the key has another identity or is revoked.
ChangeKey ==
    /\ ~Closed
    /\ changes < MaxKeys
    /\ key' \in {0, 1, 2} \ {key}
    /\ changes' = changes + 1
    /\ UNCHANGED <<buffer, batch, msg, at, conn, gone, engine, resets>>

Serving == Unprocessed \/ NextMessage \/ Handle \/ BatchDone

Next ==
    \/ Read \/ ReadOn \/ HangUp
    \/ Unprocessed \/ NextMessage \/ ExpireRunning \/ Handle \/ BatchDone
    \/ Tick \/ End
    \/ ChangeKey

\* The loop goes on: a statement ends, and a bookmark wait has a limit.
Fairness == WF_vars(Serving)

Spec == Init /\ [][Next]_vars
FairSpec == Spec /\ Fairness

-----------------------------------------------------------------------------
(* Properties.                                                             *)

\* A transaction lives in the connection's state alone: whatever interrupts,
\* times out, fails or ends the connection, none is left open in the engine
\* behind it, and results are open only within one.
NoOrphanTransaction ==
    /\ Len(txs) = IF state = "InTx" THEN 1 ELSE 0
    /\ open > 0 => state = "InTx"

\* "Writes that were authorized under a different identity do not persist"
\* (handle_commit): every statement of a committed transaction and its commit
\* ran under one identity, though keys.json may change between any two.
CommittedUnderOneIdentity == \A who \in committed : Cardinality(who) = 1

\* An interrupt is for a RESET that is still to be answered, however the flag
\* is raised by the reading task and cleared by the handling one: no request
\* behind the last RESET is ignored, or told of a time-out before it.
NoStaleInterrupt ==
    state # "Defunct" =>
        /\ (interrupted \/ state = "Interrupted") =>
              gone \/ msg = "reset" \/ Has(Waiting, "reset")
        /\ pending => state \in {"Failed", "Interrupted"}

\* A RESET is answered SUCCESS and makes the connection usable again, in
\* whatever state and behind whatever it arrives, unless the connection ends.
EveryResetSucceeds ==
    \A n \in 1 .. MaxReset : (resets.read >= n) ~> (Closed \/ resets.answered >= n)
=============================================================================
