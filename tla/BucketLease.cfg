CONSTANTS
  a = a
  b = b
  Instances = {a, b}
  Stranger = Stranger
  Ttl <- MCTtl
  Skew <- MCSkew
  Starts <- MCStarts
  Suspends = {a, b}
  MaxSane = 10
  Races = 2
  MaxFaults = 1
  AgeCap = 4
SPECIFICATION FairSpec
CHECK_DEADLOCK FALSE
INVARIANTS OneWriter NeverSilentlyWeak
PROPERTIES ConfirmedIsOurs DeadLeaseIsTaken
