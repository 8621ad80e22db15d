SPECIFICATION OrderlySpec
CONSTANTS
    sample_rate = 1000
    num_channels = 2
    target_latency_ms = 7
    target_window_ms = 2
    min_latency_ms = 5
    max_latency_ms = 9
    capacity_ms = 11
    correction_interval = 2
    Word = 65536
    WriteFloats = {2, 4}
    ReadFloats = {2, 4}
    MaxSamples = 60
INVARIANTS PositionsSound NoDataRace HoldsNewest InOrder AgeBounded
CHECK_DEADLOCK FALSE
