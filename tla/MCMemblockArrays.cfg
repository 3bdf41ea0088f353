CONSTANTS
    PHYS_ADDR_MAX = 12
    INIT_MEMBLOCK_REGIONS = 2
    INIT_MEMBLOCK_RESERVED_REGIONS = 2
    RegionsPerPage = 4
    KernelEnd = 2
    InitPgDir <- SecondPage
    AddRanges <- All
    ReserveRanges <- LowAndMiddle
    FlagRanges <- EveryOther
    Flags = {"DMA"}
    Limits = {4}
    Sizes = {1, 2}
    Aligns = {1, 2}
    MaxOwned = 2
SPECIFICATION Spec
INVARIANT NoSharing
CHECK_DEADLOCK FALSE
