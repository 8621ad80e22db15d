SPECIFICATION FairSpec
CONSTANTS
    Byte = 8
    kCacheWireVersion = 6
    Tracks <- MCTracks
    OpusRates = {8000, 12000, 16000, 24000, 48000}
    OpusLayouts <- MCLayouts
    PacketSizes = {1, 512}
    MaxSendLength = 1200
    BlockSizes = {1000}
    CacheOps <- MCCacheOps
    MaxWritten = 3000
    MaxInFlight = 1
INVARIANTS CopiesFit HeardAsMeant
PROPERTY PollReturns
