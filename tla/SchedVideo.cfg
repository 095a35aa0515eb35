SPECIFICATION Spec
CONSTANTS
    Frame = 11
    HalfLines = {2, 3}
    ResetLines = 3
    LineMod = 8
    Byte = 4
    IntRange = 256
    TimeRange = 1024
    ViStores <- ByteStores
    MaskStores <- None
    PendingStores <- Nothing
    Statuses <- None
    Compares <- None
    MaxTime = 26
    MaxWrites = 3
    MaxResets = 1
INVARIANTS ViNotOverdue ViOnTime ArmedWhileProgrammed
