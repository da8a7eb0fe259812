SPECIFICATION Spec
CONSTANTS
    Jobs <- AllJobs
    MaxHeadersSize = 1
    InitialReadSize = 6
    Padding = 1
    MaxMetadataSize = 8
    MaxMoovStartReads = 2
    SubtitleLimit = 12
    DirectioAlignment = 2
    AtomHeader = 2
    AesBlock = 2
INVARIANTS
    BytesOfOffset
    FilesReadWhole
    ClientServed
PROPERTY Answered
