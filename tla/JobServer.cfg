SPECIFICATION Spec
CONSTANTS
    Callers = {r1, r2, r3}
    NoCaller = NoCaller
    MaxJobs = 3
    PoolSize = 2
    RunLimit = 3
SYMMETRY Symmetry
INVARIANTS
    ExclusiveJobs
    ClaimsDistinct
    JobsAccounted
    OrderedLocking
    NoOrphanLock
    EmptyOnlyAfterOwnJobDone
PROPERTIES
    FinishedByHolder
