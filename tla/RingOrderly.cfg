SPECIFICATION OrderlySpec
CONSTANTS
    CapacityFrames = 3
    Channels = 2
    Word = 16
    WriteFrames = {1, 2, 4}
    ReadFrames = {1, 3}
    MaxSamples = 24
INVARIANTS NoDataRace QuiescentSync InOrder OrderlyInv
PROPERTY ImplementsQueue
CHECK_DEADLOCK FALSE
