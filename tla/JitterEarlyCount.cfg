SPECIFICATION OrderlySpec
CONSTANTS
    sample_rate = 1000
    num_channels = 1
    target_latency_ms = 6
    target_window_ms = 2
    min_latency_ms = 1
    max_latency_ms = 20
    capacity_ms = 24
    correction_interval = 16
    Word = 65536
    WriteFloats = {2}
    ReadFloats = {2}
    MaxSamples = 16
INVARIANTS NoDataRace
CHECK_DEADLOCK FALSE
