SPECIFICATION ScanSpec
CONSTANTS
    b1 = b1
    b2 = b2
    d1 = d1
    x1 = x1
    p1 = p1
    Pauses = 0
    Cancels = 0
    Crashes = 1
    Stops = 1
    Books = {b1}
    MaxRows = 1
    DownloadWorkers = {d1}
    DecryptWorkers = {x1}
    ProcessWorkers = {p1}
    QueueCap = 1
    Budget <- MCBudget
    CarefulUser = FALSE
    FilesNamed = TRUE
    NoBook = NoBook
    NoWorker = NoWorker
INVARIANTS ScanHeals ScanInv
