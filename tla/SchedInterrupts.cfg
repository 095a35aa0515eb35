SPECIFICATION FairSpec
CONSTANTS
    Frame = 11
    HalfLines = {3}
    ResetLines = 3
    LineMod = 8
    Byte = 4
    IntRange = 256
    TimeRange = 1024
    ViStores <- MixedStores
    MaskStores <- AnyMask
    PendingStores <- DropOrRaise
    Statuses <- EnableOrError
    Compares <- SomeCompares
    MaxTime = 11
    MaxWrites = 3
    MaxResets = 1
INVARIANTS TypeOK ViServiced NoStaleInterrupt
PROPERTIES PopIsHandled DrainEnds
