SPECIFICATION EngineSpec
CONSTANTS
    Calls = {a}
    MaxExecs = 1
    Signalled = 137
INVARIANTS
    AlwaysRemovedOnTheWayOut
