SPECIFICATION FairSpec
CONSTANTS
    Schemas = 2
    MaxCtrlC = 2
INVARIANTS
    ServerNeverOutlivesLab
    UnwindingDropsSchemas
    OkMeansCaptured
PROPERTIES
    LabEnds
