CONSTANTS
    Requests = {r1, r2}
    Sweeps = {s1}
    Vehicles = {v1}
    Fleet = {v1}
    Litres = {1}
    MaxRows = 1
    MaxRequests = 3
    MaxUnlocks = 1
    MaxFaults = 0
SPECIFICATION FairSpec
INVARIANTS TypeOK 
PROPERTIES DayMovesForward LockedDayFrozen LapsedDaysLock
CHECK_DEADLOCK FALSE
