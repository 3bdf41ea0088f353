CONSTANTS
    PHYS_ADDR_MAX = 8
    INIT_MEMBLOCK_REGIONS = 4
    INIT_MEMBLOCK_RESERVED_REGIONS = 2
    RegionsPerPage = 4
    KernelEnd = 2
    InitPgDir <- SecondPage
    AddRanges <- AllAndMiddle
    ReserveRanges <- LowAndMiddle
    FlagRanges <- InMiddle
    Flags = {"NOMAP", "DMA"}
    Limits = {4}
    Sizes = {1, 2}
    Aligns = {1, 2}
    MaxOwned = 2
SPECIFICATION Spec
INVARIANTS WellFormed MemoryExact ReservedExact NoSharing FreeRangesExact FindExact
CHECK_DEADLOCK FALSE
