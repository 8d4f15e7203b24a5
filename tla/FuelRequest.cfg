CONSTANTS
    Handler = {h1, h2}
    Amount = {1, 2}
    Price = {1, 3}
    Tank = 1
    Tolerance = 1
    MaxFaults = 1
SPECIFICATION FairSpec
INVARIANTS BooksBalance OneOutcomeTold
PROPERTIES SavedIsTold
CHECK_DEADLOCK FALSE
