SPECIFICATION Spec
CONSTANTS
    Keys = {ka, kb}
    Handles = {h1, h2}
    Txs = {t1}
    h1 = h1
    h2 = h2
    ka = ka
    kb = kb
    t1 = t1
    MaxCommits = 3
    MaxSnapshots = 1
CHECK_DEADLOCK FALSE
SYMMETRY Interchangeable
INVARIANT NoLostUpdateInOneLoad
INVARIANT RefusedWasChanged
