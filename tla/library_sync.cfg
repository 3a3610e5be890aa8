SPECIFICATION FairSpec
CONSTANTS
    b1 = b1
    b2 = b2
    u1 = u1
    Fetches = 1
    DbFaults = 1
    Scans = 1
    ServerFaults = 1
    EventsInAll = 1
    Shelves = 1
    Flips = 1
    Removals = 1
    Queues = 1
    Crashes = 1
    Books = {b1, b2}
    Accounts = {1, 2}
    Shelf0 <- MCShelf
    Ineligible0 = {b2}
    Users = {u1}
    Kinds = {"quick", "audible_sync"}
    TimerMode = "full"
    AutoQueue = TRUE
    Budget <- MCBudget
    NoBook = NoBook
    NoKind = NoKind
INVARIANTS SyncTypeOK OneSync
PROPERTIES SparesListed CatalogueConverges
