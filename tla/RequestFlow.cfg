SPECIFICATION Spec
CONSTANTS
    Configurations <- All
    MediaSets <- Sets
    MaxSources = 4
    MaxReads = 1
    MaxStaleRetries = 2
INVARIANTS
    WaitsInOrder
    SourcesReady
    CompleteResponse
    Balanced
PROPERTIES
    Ends
