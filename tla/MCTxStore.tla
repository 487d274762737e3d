----------------------------- MODULE MCTxStore -----------------------------
(***************************************************************************)
(* TxStore on two transactions, two credentials and two requests.          *)
(***************************************************************************)
EXTENDS TxStore
CONSTANTS i1, i2, o1, o2, r1, r2
=============================================================================
