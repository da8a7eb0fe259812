SPECIFICATION Spec
CHECK_DEADLOCK FALSE
CONSTANTS
    Usable = 8
    PesSize = 2
    PesPrefix = 1
    PcrSize = 1
    DtsSize = 1
    MaxPesSize = 100
    CcModulo = 4
    BufferPackets = 2
    Slack = 0
    BufferSize = 22
    BufferedFramesQueue = 4
    FrameOutputInterval = 4
    HalfDelay = 2
    AdtsSize = 1
    Id3Size = 1
    AudSize = 1
    ExtraDataSize = 2
    MarkerSize = 2
    ZeroPadding = 3
    Presentations <- AllPresentations
    Confs <- AllConfs
    ReadSizes = {1, 3}
INVARIANTS
    AnnouncedIsSent
    SentStays
    StreamsDecode
