SPECIFICATION FairFSpec
CONSTANTS
    Capacity = 2
    Thresholds <- MCThresholds
    OccMax = 3
    DropMod = 3
    CounterMod = 4
    NoRecord = NoRecord
    MaxOps = 3
    MaxLost = 3
INVARIANTS FTypeOK WireOrder CauseBeforeEffect SeenIsDurable DropsToldOnce RecoversOnce
PROPERTY EventsReachGround
