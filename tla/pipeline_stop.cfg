SPECIFICATION FairSpec
CONSTANTS
    b1 = b1
    b2 = b2
    d1 = d1
    d2 = d2
    x1 = x1
    p1 = p1
    p2 = p2
    Pauses = 0
    Cancels = 0
    Crashes = 0
    Stops = 1
    Books = {b1}
    MaxRows = 2
    DownloadWorkers = {d1}
    DecryptWorkers = {x1}
    ProcessWorkers = {p1}
    QueueCap = 1
    Budget <- MCBudget
    CarefulUser = FALSE
    NoBook = NoBook
    NoWorker = NoWorker
PROPERTIES JobQueueSpec StopAndWaitEnds
