SPECIFICATION Spec
CONSTANTS
    r1 = r1
    r2 = r2
    Requests = {r1, r2}
    Forms <- MCForms
    Backups <- MCBackups
    Befores <- MCBefores
    Saves = 2
    Finishes = 1
    Skips = 1
    Agains = 1
    Admins = 1
    NoAdmins = 1
    Methods = 1
    Passwords = 1
    SSOs = 1
    Callbacks = 1
    Resets = 2
    Restores = 2
    Restarts = 1
    Failures = 2
    Crashes = 1
    EventsInAll = 3
    Budget <- MCBudget
SYMMETRY Same
CHECK_DEADLOCK FALSE
INVARIANTS InstallTypeOK DatabaseKept SettledWell 
