SPECIFICATION Spec
CONSTANTS
    MaxID = 5
    Identities <- MCIdentities
INVARIANTS
    NilMeansClean
