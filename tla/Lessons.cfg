SPECIFICATION LessonsSpec
CONSTANTS
    Deliveries = {d1, d2, d3}
    Events = {e1, e2}
    PoolSize = 2
    Nobody = Nobody
    MaxExpiries = 1
    BatchSize = 2
    MaxResends = 1
SYMMETRY Symmetry
INVARIANTS
    CounterConfirmedIsCounted
    RedundantIsExact
    ReaderKeepsItsView
    ContentionNeverFails
    StatsAreAccounted
PROPERTIES
    ImplementsExactlyOnce
