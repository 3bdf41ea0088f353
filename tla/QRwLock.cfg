CONSTANTS
    Cpus = {p1, p2, p3, p4}
    None = None
SPECIFICATION FairSpec
INVARIANTS TypeOK RwExclusion CntsExact
PROPERTIES CallsReturn
