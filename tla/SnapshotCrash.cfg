SPECIFICATION Spec
CONSTANTS
    None = None
    Kinds = {"archive", "keep", "truncate"}
    Modes = {TRUE, FALSE}
    Carried = TRUE
    Keep = 1
    MaxCommits = 3
    MaxSnapshots = 3
    MaxCrashes = 2
    MaxErrors = 1
INVARIANTS CrashSafe HandleIsHistory CrashesKeepNumbers AsOfIsPast
PROPERTIES HistoryKept
CHECK_DEADLOCK FALSE
