SPECIFICATION Spec
CONSTANTS
    MaxID = 5
    Identities <- MCIdentities
INVARIANTS
    NilMeansTrusted
    LeftoversReported
    UndisturbedVerdictIsExact
