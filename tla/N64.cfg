CONSTANTS
    W = 16
    Reg <- MCReg
    LinkReg = 1
    StatusReg = 2
    EpcReg = 1
    CauseReg = 3
    CompareReg = 4
    ResetPc = 0
    Func <- MCFunc
    NopFunc = "SLL"
    FullWord = "FULL"
    Alu <- MCAlu
    Test <- MCTest
    Narrow <- MCNarrow
    SignExtend <- MCNarrow
    Merge <- MCMerge
    Unmapped = {}
    Programs <- MCPrograms
    BootMem <- MCBootMem
    PowerOn = {0}
    Vector = 12
    MaxIrq = 99
    ViIntr = 12
    ViCurrent = 13
    MiMask = 14
    MiInterrupt = 15
    StoreSize <- MCStoreSize
    Frame = 22
    HalfLines = {2}
    ResetLines = 2
    LineMod = 64
    Byte = 16
    IntRange = 4096
    TimeRange = 65536
    ViStores <- MCViStores
    MaskStores <- MCMaskStores
    PendingStores <- MCPendingStores
    Statuses <- MCStatuses
    Compares <- Word
    MaxTime = 34
    MaxWrites = 99
    MaxResets = 1
SPECIFICATION N64Spec
INVARIANTS EntryLatency AcknowledgedOnReturn
PROPERTIES ImplementsScheduler ImplementsPipelineIrq
