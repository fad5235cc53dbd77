SPECIFICATION FairSpec
CONSTANTS
    MaxLen = 3
    ExtraLen = 2
    MaxExtra = 1
    MaxBoundaries = 2
    OffsetLists <- MCOffsetLists
    MaxOffset = 3
    StallTicks = 2
CHECK_DEADLOCK FALSE
INVARIANTS ChunksTileWire SuccessIsComplete OutcomeTruthful
PROPERTIES SurvivingClientInSync StallBounded
