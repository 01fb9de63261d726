SPECIFICATION FairSpec
CONSTANTS
    Callers = {w1, w2, w3}
    NoCaller = NoCaller
    MaxJobs = 3
    MaxRounds = 2
INVARIANTS
    NoWorkerFindsQueueEmpty
    RoundIsExact
PROPERTIES
    RunnerFinishes
