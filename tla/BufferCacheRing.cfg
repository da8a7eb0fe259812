CONSTANTS
    p1 = p1
    p2 = p2
    k1 = k1
    k2 = k2
    k3 = k3
    None = None
    Procs = {p1}
    Keys = {k1, k2, k3}
    Sizes = {0, 1, 3, 12}
    EntrySize = 1
    BuffersEnd = 12
    EntriesAllocMargin = 1
    BUFFER_ALIGNMENT = 2
    CACHE_LOCK_EXPIRATION = 1
    ENTRY_LOCK_EXPIRATION = 1
    MAX_EVICTIONS_PER_STORE = 1
    Expiration = 0
    MaxLag = 0
    HoldAcrossHandlers = FALSE
    MaxTime = 0
    MaxLosses = 0
    StatsReset = FALSE
SPECIFICATION FairSpec
INVARIANT BuffersDisjoint
PROPERTY RoomUnlessLocked
PROPERTY StoreTerminates
