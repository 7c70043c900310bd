SPECIFICATION FSpec
CONSTANTS
    Capacity = 2
    Thresholds <- MCThresholds
    OccMax = 3
    DropMod = 3
    CounterMod = 256
    NoRecord = NoRecord
    MaxOps = 3
    MaxLost = 0
INVARIANT GapsAreVisible
