SPECIFICATION Spec
CONSTANTS
    r1 = r1
    r2 = r2
    uk = uk
    us = us
    NumAccounts = 3
    NumLinks = 2
    Markets = {uk, us}
    Requests = {r1, r2}
    Adds = 1
    Removes = 1
    Regions = 1
    Selects = 1
    Setups = 1
    Starts = 2
    Wizards = 2
    Callbacks = 2
    Failures = 1
    Restarts = 1
    EventsInAll = 4
    Budget <- MCBudget
SYMMETRY Same
CHECK_DEADLOCK FALSE
INVARIANTS AccountsTypeOK SignInPaired RightClient
