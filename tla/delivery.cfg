SPECIFICATION FairSpec
CONSTANTS
    b1 = b1
    b2 = b2
    b3 = b3
    NetFaults = 1
    Timeouts = 1
    DbFaults = 1
    Cancels = 1
    Crashes = 1
    EventsInAll = 1
    Books = {b1, b2, b3}
    InSeries = {b1, b2, b3}
    Title <- MCTitle
    Within <- MCWithin
    Dests = {1, 2}
    Layouts <- MCLayouts
    Fans = {1}
    MaxConcurrency = 1
    Budget <- MCBudget
    Sweeps = 1
    Old = {b2}
    AtOnce = 1
    Wide = 0
    Sweep = Sweep
    NoBook = NoBook
    Folder = Folder
INVARIANTS DeliveryTypeOK TruthfulRow
PROPERTIES ReconcilePopulates FanOutsEnd
