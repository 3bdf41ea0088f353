CONSTANTS
    NrCpus = 3
    Ctx = {0, 1, 2}
    smp_processor_id <- OneLevelCpu
    level <- OneLevel
    Locks = {1}
    IrqLevel <- NoIrq
    None = None
SPECIFICATION FairSpec
INVARIANTS TypeOK MutualExclusion PendingOwned
PROPERTIES Fifo EventuallyAcquires
CHECK_DEADLOCK TRUE
