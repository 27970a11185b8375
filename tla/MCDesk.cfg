\* The bounds stop every part.
CHECK_DEADLOCK FALSE
SPECIFICATION Spec
CONSTANTS
    Interfaces = {"terminal", "fyne", "windows"}
    Objects = {1}
    Owner <- MCOwner
    PendingCap = 1
    ListCap = 2
    FirstLimits = {1, 2}
    Chunk = 1
    Requests = {r1, r2}
    MaxChanges = 3
    MaxLoads = 2
    Beginnings <- MCBeginnings
    Panels = {1, 2}
    HistoryLimits = {1, 2}
    HistoryChunk = 1
    Queries = {q1, q2}
    MaxNew = 2
    MaxKeys = 3
    MaxFails = 1
    MaxAccount = 4
    Legacy <- MCLegacy
    Lines <- MCLines
    Garbage = garbage
    Additions = {0, 1}
    Savers = {s1, s2}
    Most <- MCMost
    WindowSize = 2
    Clients = {c1, c2}
    MaxTime = 5
    MaxServers = 2
    Words = {"alpha", "beta"}
    Types = {1, 2}
    MaxMessages = 4
INVARIANTS
    
    RowsAreTheAnswer
    RemapIsShown
    StatsAreCounts
    KeysFindTheirRow
PROPERTY
    PollingCatchesUp
