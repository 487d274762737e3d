SPECIFICATION Spec
CONSTANTS
    s1 = s1  s2 = s2  w1 = w1  p1 = p1  p2 = p2  r1 = r1
    Drain = Drain
    Local = Local
    None = None
    Submitters = {s1, s2}
    Writers = {w1}
    Peers = {p1}
    Readers = {r1}
    MaxGroup = 2
    Strict = TRUE
    Faults = {"groupSync", "refresh"}
    MaxCrash = 0
INVARIANTS FailedGroupIsGone MemoryIsReplay  ReadsSeePeers
PROPERTIES CapturesAdvance
CHECK_DEADLOCK FALSE
