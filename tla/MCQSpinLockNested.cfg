CONSTANTS
    NrCpus = 2
    Ctx = {0, 1, 2}
    smp_processor_id <- NestedCpu
    level <- NestedLevel
    Locks = {1, 2}
    IrqLevel <- NestedIrq
    None = None
SPECIFICATION Spec
INVARIANTS MutualExclusion NodesDistinct QueueLinked
