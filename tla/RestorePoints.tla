---------------------------- MODULE RestorePoints ----------------------------
(***************************************************************************)
(* What a backup prefix promises (crates/backup/src/worker.rs, "Objects    *)
(* and ordering"): the restore points in the bucket are states the store   *)
(* was durably in, each numbered with its commit, and the one LATEST names *)
(* is always there.  How the worker gets there, from a directory that      *)
(* changes under it and a bucket that loses answers, is the module Backup. *)
(***************************************************************************)
EXTENDS Integers, Sequences, SequencesExt

VARIABLES
    history,   \* the commits a power loss can no longer take back, in order
    points,    \* the restore points: a commit number to the commits restored
    latest     \* the number LATEST names, or None

vars == <<history, points, latest>>

None == -1

Init ==
    /\ history = << >>
    /\ points = << >>
    /\ latest = None

\* Commits become durable.
Commit ==
    /\ history # history'
    /\ IsPrefix(history, history')
    /\ UNCHANGED <<points, latest>>

\* A restore point appears: the durable history up to its number.
Publish(n) ==
    /\ points' = [k \in DOMAIN points \cup {n} |->
                    IF k = n THEN SubSeq(history, 1, n) ELSE points[k]]
    /\ UNCHANGED <<history, latest>>

\* LATEST moves to a restore point.
Advance(n) ==
    /\ latest' = n
    /\ UNCHANGED <<history, points>>

\* Retention removes a restore point that LATEST does not name.
Expire(n) ==
    /\ n # latest
    /\ points' = [k \in DOMAIN points \ {n} |-> points[k]]
    /\ UNCHANGED <<history, latest>>

Next ==
    \/ Commit
    \/ \E n \in 0 .. Len(history) : Publish(n)
    \/ \E n \in DOMAIN points : Advance(n) \/ Expire(n)

Spec == Init /\ [][Next]_vars
=============================================================================
