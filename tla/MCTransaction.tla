--------------------------- MODULE MCTransaction ---------------------------
(***************************************************************************)
(* Transaction for TLC.                                                    *)
(***************************************************************************)
EXTENDS Transaction, TLC

Interchangeable == Permutations(Keys) \cup Permutations(Txs) \cup Permutations(Handles)
=============================================================================
