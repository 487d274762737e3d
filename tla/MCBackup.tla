------------------------------ MODULE MCBackup ------------------------------
EXTENDS Backup

Budget(strict, c, s, f) == [strict |-> strict, commits |-> c, snapshots |-> s, faults |-> f]

\* Two commits around a snapshot without a fault, under both policies; every
\* fault with a commit and a snapshot, and with two commits.
MCBudgets ==
    {Budget(TRUE, 2, 1, 0), Budget(FALSE, 2, 1, 0), Budget(TRUE, 1, 1, 1), Budget(FALSE, 2, 0, 1)}
=============================================================================
