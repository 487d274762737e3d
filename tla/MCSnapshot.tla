----------------------------- MODULE MCSnapshot -----------------------------
(* Snapshot for TLC: its constants are numbers, sets of names and None. *)
EXTENDS Snapshot
=============================================================================
