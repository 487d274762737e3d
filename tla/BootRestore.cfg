CONSTANTS
  Backups <- MCBackups
  Faults = {"kill", "power", "io", "unlink"}
  MaxFaults = 4
  MaxWrites = 2
SPECIFICATION FairSpec
INVARIANTS ServesWholeStore AckedIsKept
 
CHECK_DEADLOCK FALSE
