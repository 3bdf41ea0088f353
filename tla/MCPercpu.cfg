CONSTANTS
    PCPU_MIN_ALLOC_SIZE = 4
    PCPU_BITMAP_BLOCK_BITS = 4
    PCPU_SLOT_BASE_SHIFT = 5
    pcpu_unit_pages = 2
    StaticBits = 1
    DynBits = 2
    Requests <- MCRequests
    MaxChunks = 2
    MaxAreas = 3
SPECIFICATION Spec
INVARIANTS TypeOK AreasExact HintsExact CountsExact FreeChunkServes
