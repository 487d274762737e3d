SPECIFICATION Spec
CONSTANTS
    Keys = {ka}
    Handles = {h1, h2}
    Txs = {t1}
    h1 = h1
    h2 = h2
    ka = ka
    t1 = t1
    MaxCommits = 4
    MaxSnapshots = 1
CHECK_DEADLOCK FALSE
SYMMETRY Interchangeable
INVARIANT NoLostUpdate
