CONSTANTS
    Presentations <- MCPresentations
    Entries <- MCEntries
SPECIFICATION Spec
CHECK_DEADLOCK FALSE
INVARIANTS
    LinksResolve
    EverythingOffered
    KeyOpensSegments
    RoomSuffices
