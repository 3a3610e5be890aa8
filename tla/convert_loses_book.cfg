SPECIFICATION Spec
CONSTANTS
    b1 = b1
    n1 = n1
    n2 = n2
    k1 = k1
    k2 = k2
    r1 = r1
    e1 = e1
    t1 = t1
    s1 = s1
    q1 = q1
    Books = {b1}
    Names = {n1, n2}
    Chapters = 2
    Converters = {k1, k2}
    Movers = {r1}
    Erasers = {e1}
    Taggers = {t1}
    Refreshers = {s1}
    Scanners = {q1}
    Shelved = {"mp3"}
    Converts = 2
    Reorganizes = 0
    Erases = 0
    Resyncs = 0
    Scans = 1
    Retags = 0
    Renames = 0
    Cancels = 0
    Failures = 0
    DbFaults = 0
    Crashes = 1
    EventsInAll = 4
    Budget <- MCBudget
CHECK_DEADLOCK FALSE
INVARIANTS Recoverable
