SPECIFICATION TrackSpec
CONSTANTS
    Kinds = {"audio", "video"}
    Capacity = 3
    SegmentDuration = 2
    BlockSizes <- MCBlockSizes
    Horizon = 4
    Callers = {c1}
    Takes <- MCTakes
    Rates = {2}
    FramePeriod = 4
    Duplicates = 2
    FrameSize = 4
    BlockTicks = 6
    SegmentTicks = 14
    Offsets <- MCOffsets
    Slips <- MCSlips
    Waits = {2, 6}
    Corrections <- MCCorrections
    MaxCallbacks = 4
INVARIANTS
    TypeOK
    MediaKept
    SegmentsInv
    OneVerdict
    EncoderInv
PROPERTIES
    TracksEnd
