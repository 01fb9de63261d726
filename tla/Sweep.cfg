SPECIFICATION Spec
CONSTANTS
    c1 = c1
    c2 = c2
    c3 = c3
    v1 = v1
    v2 = v2
    n1 = n1
    Containers <- MCContainers
    Volumes <- MCVolumes
    Networks <- MCNetworks
    Ours <- MCOurs
    Uses <- MCUses
INVARIANTS
    NilMeansListedGone
    UndisturbedSweepIsClean
PROPERTIES
    SweepTouchesOnlyOurs
