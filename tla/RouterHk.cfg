SPECIFICATION LSpec
CONSTANTS
    OutCap = 128
    Replies <- MCReplies
    SeqMod = 16384
    CounterMod = 256
    MaxBursts = 4
    PartSize = 64
    UnitMax = 192
    PartMod = 4
    Transactions = {1, 2}
    UnitLens = {0, 64, 129, 193}
    PartBuffers = {80, 128}
INVARIANT OneHkCounter
