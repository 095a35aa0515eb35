SPECIFICATION Spec
CONSTANTS
    WordBits = 8
    ImmBits = 4
    Operands = {1, 127, 128, 255}
    Immediates = {0, 1, 8, 14}
    Amounts = {1, 7}
    Places = {140, 144}
    MaxSteps = 3
INVARIANTS
    WordsStayWords
PROPERTIES
    RegistersByManual
    HiLoByManual
    BranchesByManual
