SPECIFICATION FairSpec
CONSTANTS
    b1 = b1
    n1 = n1
    n2 = n2
    k1 = k1
    k2 = k2
    r1 = r1
    e1 = e1
    t1 = t1
    s1 = s1
    q1 = q1
    Books = {b1}
    Names = {n1, n2}
    Chapters = 2
    Converters = {k1, k2}
    Movers = {r1}
    Erasers = {e1}
    Taggers = {t1}
    Refreshers = {s1}
    Scanners = {q1}
    Shelved = {"m4b", "mp3"}
    Converts = 2
    Reorganizes = 1
    Erases = 1
    Resyncs = 1
    Scans = 1
    Retags = 1
    Renames = 1
    Cancels = 1
    Failures = 1
    DbFaults = 1
    Crashes = 1
    EventsInAll = 4
    Budget <- MCBudget
CHECK_DEADLOCK FALSE
INVARIANTS FilesTypeOK NoAudioLost OneForm
PROPERTIES ConvertsEnd
