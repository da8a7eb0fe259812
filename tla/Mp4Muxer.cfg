SPECIFICATION Spec
CONSTANTS
    Jobs <- All
    Timescale = 4
    BufferSize = 12
    Alignments = {1, 4}
INVARIANTS
    PlayerView
    Complete
PROPERTIES
    Ends
