SPECIFICATION Spec
CONSTANTS
    Cases <- MCCases
    Fields = {"f", "g"}
    MaxChainDepth = 4
INVARIANTS NothingStale NothingMissing EveryEdgeHasOneOwner
CHECK_DEADLOCK FALSE
