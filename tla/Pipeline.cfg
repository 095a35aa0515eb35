CONSTANTS
    W = 5
    Reg <- MCReg
    LinkReg = 2
    StatusReg = 1
    EpcReg = 2
    ResetPc = 0
    Func <- MCFunc
    NopFunc = "SLL"
    FullWord = "FULL"
    Alu <- MCAlu
    Test <- MCTest
    Narrow <- MCNarrow
    SignExtend <- MCSignExtend
    Merge <- MCMerge
    Unmapped = {}
    Programs <- AllPrograms
    BootMem <- MCBootMem
    PowerOn = {0, 3}
SPECIFICATION Spec
INVARIANTS
    TypeOK
    OperandsFresh
    PcTwoAhead
PROPERTIES
    ImplementsISA
