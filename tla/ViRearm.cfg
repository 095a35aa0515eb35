SPECIFICATION Spec
CONSTANTS
    Frame = 11
    HalfLines = {3}
    ResetLines = 3
    LineMod = 8
    Byte = 4
    IntRange = 256
    TimeRange = 1024
    ViStores <- WordStores
    MaskStores <- None
    PendingStores <- None
    Statuses <- None
    Compares <- None
    MaxTime = 14
    MaxWrites = 1
    MaxResets = 0
PROPERTIES QueuesNextInterrupt
