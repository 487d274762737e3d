CONSTANTS
  Requests <- MCRequests
  MaxUnhandled = 3
  MaxReset = 2
  MaxOpen = 2
  MaxKeys = 1
SPECIFICATION FairSpec
INVARIANTS  CommittedUnderOneIdentity NoStaleInterrupt
PROPERTIES EveryResetSucceeds
CHECK_DEADLOCK FALSE
