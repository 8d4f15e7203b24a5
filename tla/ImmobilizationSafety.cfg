SPECIFICATION Spec
CONSTANTS
  Vehicle = {v1}
  Replica = {r1, r2}
  MaxIntents = 2
  Ttl = 1
  SafeDuration = 0
  ConnDuration = 0
  ClaimTimeout = 0
  TickLock = FALSE
  MaxFaults = 1
SYMMETRY Interchangeable
INVARIANTS
  AtMostOnePost
  WithdrawnNeverSent
  CompletedMeansAccepted
  RivalsOnlyAfterWatchdog
  NotifiedIsFinal
PROPERTY
  ImplementsLifecycle
