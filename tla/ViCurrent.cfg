SPECIFICATION Spec
CONSTANTS
    Base = 2
    Segment = 128
    Page = 4
    RamPages = 2
    CartFirst = 2
    CartPages = 2
    Address <- MCAddress
    DmemSize = 2
    PifSize = 8
    Seed <- MCSeed
    Checksum <- MCChecksum
    SeedByte = 1
    ChecksumBit = 1
    ClearBit = 2
    Answer = 8
    VI = 1
    AI = 0
    Interrupts <- MCInterrupts
    LineMask = 8
    OriginMask = 8
    Frame = 9
    DefaultLines = 4
    DefaultWidth = 8
    Files <- MCFiles
    Missing = Missing
    Cartridge <- MCCartridge
    Loads <- MCLoads
    Stores <- MCStores
    Merges <- MCMerges
    MaxOps = 3
INVARIANTS CurrentIsLine
