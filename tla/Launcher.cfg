SPECIFICATION FairSpec
CONSTANTS
    Calls = {a}
    MaxExecs = 2
    Signalled = 137
INVARIANTS
    KnownContainerRemoved
    SuccessIsARealExit
    OkMeansRecordedExit
PROPERTIES
    RunReturns
    ExecReturns
