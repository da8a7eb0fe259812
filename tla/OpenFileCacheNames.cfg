SPECIFICATION Spec
SYMMETRY Symmetry
CONSTANTS
    Reqs = {r1, r2}
    Names = {a, b}
    NIds = 2
    NFds = 2
    None = None
    MaxFiles = 1
    MinUses = 1
    Errors = TRUE
    Uncached = TRUE
    Kinds = {"file", "dir"}
    MaxChanges = 1
INVARIANTS
    HandlesOwned
    HandleOfUserIsOpen
    CountsAgree
    CacheAgrees
