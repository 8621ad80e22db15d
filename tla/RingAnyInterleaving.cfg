SPECIFICATION Spec
CONSTANTS
    CapacityFrames = 2
    Channels = 2
    Word = 16
    WriteFrames = {1, 4}
    ReadFrames = {1, 2}
    MaxSamples = 12
INVARIANTS TypeOK CopiesInBounds FrameAligned
CHECK_DEADLOCK FALSE
