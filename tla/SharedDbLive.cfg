SPECIFICATION LiveSpec
CONSTANTS
    s1 = s1  s2 = s2  w1 = w1  p1 = p1  p2 = p2  r1 = r1
    Drain = Drain
    Local = Local
    None = None
    Submitters = {s1, s2}
    Writers = {w1}
    Peers = {p1}
    Readers = {}
    MaxGroup = 1
    Strict = TRUE
    Faults = {"unwritable", "upgrade"}
    MaxCrash = 0
PROPERTIES EverySubmissionAnswered
CHECK_DEADLOCK FALSE
