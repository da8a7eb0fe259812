CONSTANTS
    Scenarios <- MCScenarios
    ClipLengths <- MCClipLengths
    ThumbOffsets <- MCThumbOffsets
    MaxClips = 3
    MinTime = 5000
    MaxTime = 9000
    MaxAdded = 2
SPECIFICATION Spec
CHECK_DEADLOCK FALSE
INVARIANTS ServedAsListed Consecutive
PROPERTIES NeverBack
