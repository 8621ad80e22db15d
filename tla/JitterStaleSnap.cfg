SPECIFICATION Spec
CONSTANTS
    sample_rate = 1000
    num_channels = 1
    target_latency_ms = 7
    target_window_ms = 2
    min_latency_ms = 5
    max_latency_ms = 9
    capacity_ms = 11
    correction_interval = 2
    Word = 65536
    WriteFloats = {1, 2}
    ReadFloats = {1, 2}
    MaxSamples = 30
INVARIANT HoldsNewest
CHECK_DEADLOCK FALSE
