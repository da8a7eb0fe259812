SPECIFICATION Spec
CONSTANTS
    BlockSize = 2
    CounterBlocks = 2
    WriteBufferSize = 8
    MinAllocSize = 2
    UintMax = 5000
    IvModulo = 256
    MaxFrameRate = 60
    DigitBase = 16
    OutputSize = 6
    MinOutput = 2
    MaxSliceHeader = 4
    BlockPeriod = 2
    Jobs <- TheJobs
INVARIANTS
    Protected
    Decryptable
    CbcsPattern
