CONSTANTS
    W = 8
    Reg <- MCReg
    LinkReg = 2
    StatusReg = 1
    EpcReg = 2
    ResetPc = 0
    Func <- MCFunc
    NopFunc = "SLL"
    FullWord = "FULL"
    Alu <- MCAlu
    Test <- MCTest
    Narrow <- MCNarrow
    SignExtend <- MCNarrow
    Merge <- MCMerge
    Unmapped = {}
    Programs <- IrqPrograms
    BootMem <- MCBootMem
    PowerOn = {0}
    Vector = 6
    MaxIrq = 2
SPECIFICATION IrqSpec
INVARIANTS
    OperandsFresh
    HandlerFetched
PROPERTIES
    NothingSkipped
