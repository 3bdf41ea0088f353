CONSTANTS
    Ctx <- Nested
    smp_processor_id <- MCCpu
    level <- MCLevel
    Boot <- MCBoot
    Pages = {"big", "small"}
    objects <- MCObjects
    min_partial = 1
    NULL = NULL
    UserData = UserData
SPECIFICATION Spec
INVARIANTS TypeOK ObjectsExact SlabsExact PartialExact NoBug
CHECK_DEADLOCK FALSE
