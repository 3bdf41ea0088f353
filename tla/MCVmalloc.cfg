CONSTANTS
    Cpu = {0, 1}
    MaxAreas = 5
    NULL = 0
    VMALLOC_START = 1
    VMALLOC_END = 9
    Early <- MCEarly
    Request <- MCRequest
    Offsets <- MCOffsets
    Sizes <- MCSizes
    PcpuAlign = 1
    lazy_max_pages = 2
SPECIFICATION Spec
INVARIANTS TypeOK SortedDisjoint NoStaleTranslation LazyAccounted NoBug
PROPERTIES FailsOnlyWhenFull
