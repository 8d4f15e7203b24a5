SPECIFICATION FairSpec
CONSTANTS
  Vehicle = {v1}
  Replica = {r1}
  MaxIntents = 2
  Ttl = 2
  SafeDuration = 1
  ConnDuration = 2
  ClaimTimeout = 1
  TickLock = TRUE
  MaxFaults = 2
PROPERTIES
  StopNeedsSafeWindow
  StuckExecutingResolves
  WaitingEnds
