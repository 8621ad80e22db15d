SPECIFICATION Spec
CONSTANTS
    sample_rate = 1000
    num_channels = 2
    target_latency_ms = 3
    target_window_ms = 0
    min_latency_ms = 1
    max_latency_ms = 5
    capacity_ms = 6
    correction_interval = 2
    Word = 65536
    WriteFloats = {4, 6}
    ReadFloats = {2, 8}
    MaxSamples = 26
INVARIANT PositionsSound
CHECK_DEADLOCK FALSE
