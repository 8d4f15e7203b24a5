CONSTANTS
    Requests = {r1, r2}
    Sweeps = {}
    Vehicles = {v1, v2}
    Fleet = {v1}
    Litres = {1, 2}
    MaxRows = 2
    MaxRequests = 3
    MaxUnlocks = 0
    MaxFaults = 1
SPECIFICATION Spec
INVARIANTS TotalsAgree
CHECK_DEADLOCK FALSE
