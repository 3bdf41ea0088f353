CONSTANTS
    MAX_ORDER = 3
    Pfns <- MCPfns
    Zones = {"DMA", "NORMAL"}
    page_zone_id <- MCZone
    BootBlocks <- MCBootBlocks
    Tasks = {0, 1}
    Boot = 0
    Cpu <- MCCpu
    zone_batchsize = 1
    HighBatches = 2
    MaxHeld = 1
SPECIFICATION Spec
INVARIANTS NoPageLostOrShared Coalesced ZonesConsistent NoBug FreeBuddyExact
CHECK_DEADLOCK FALSE
