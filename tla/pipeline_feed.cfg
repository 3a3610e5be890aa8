SPECIFICATION Spec
CONSTANTS
    b1 = b1
    d1 = d1
    d2 = d2
    e1 = e1
    p1 = p1
    k1 = k1
    Books = {b1}
    DownloadWorkers = {d1, d2}
    DecryptWorkers = {e1}
    ProcessWorkers = {p1}
    Converters = {k1}
    NoBook = NoBook
    QueueCap = 1
    FeedCap = 1
    Queues = 2
    Fails = 1
    Cancels = 1
    Converts = 1
    Stops = 1
    Leaves = 1
    EventsInAll = 2
    Budget <- MCBudget
CHECK_DEADLOCK FALSE
INVARIANTS FeedTypeOK CardsTell
PROPERTIES PageCatchesUp
