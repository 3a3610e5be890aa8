SPECIFICATION FairSpec
CONSTANTS
    s1 = s1
    s2 = s2
    p1 = p1
    p2 = p2
    e1 = e1
    c1 = c1
    Servers = {s1}
    RowIds = {1, 2}
    Pushes = {p1, p2}
    Editors = {e1}
    Connectors = {c1}
    Linked = {s1}
    NetFaults = 1
    DbFaults = 1
    Crashes = 1
    Edits = 1
    Connects = 1
    Revocations = 1
    NoKeys = 1
    NoLifetimes = 1
    NoTokens = 1
    EventsInAll = 1
    Budget <- MCBudget
INVARIANTS HearthShelfTypeOK NewestTokenKept ConnectsWhole
PROPERTIES RenewalsSettle
