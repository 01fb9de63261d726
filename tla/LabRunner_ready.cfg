SPECIFICATION Spec
CONSTANTS
    Schemas = 2
    MaxCtrlC = 2
INVARIANTS
    LabMeasuresFreshServer
