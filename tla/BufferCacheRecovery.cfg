CONSTANTS
    p1 = p1
    p2 = p2
    k1 = k1
    k2 = k2
    k3 = k3
    None = None
    Procs = {p1, p2}
    Keys = {k1, k2}
    Sizes = {0}
    EntrySize = 1
    BuffersEnd = 5
    EntriesAllocMargin = 1
    BUFFER_ALIGNMENT = 1
    CACHE_LOCK_EXPIRATION = 3
    ENTRY_LOCK_EXPIRATION = 3
    MAX_EVICTIONS_PER_STORE = 1
    Expiration = 0
    MaxLag = 1
    HoldAcrossHandlers = FALSE
    MaxTime = 4
    MaxLosses = 1
    StatsReset = FALSE
SPECIFICATION FairSpec
PROPERTY ResetHeals
