SPECIFICATION SpscSpec
CONSTANTS
    CapacityFrames = 2
    Channels = 2
    Word = 16
    WriteFrames = {1}
    ReadFrames = {1}
    MaxSamples = 8
INVARIANT QuiescentSync
CHECK_DEADLOCK FALSE
