SPECIFICATION DispatchSpec
CONSTANTS
    OutCap = 128
    Replies <- MCReplies
    SeqMod = 4
    CounterMod = 2
    MaxBursts = 4
    PartSize = 64
    UnitMax = 192
    PartMod = 4
    Transactions = {1, 2}
    UnitLens = {0, 64, 129, 193}
    PartBuffers = {80, 128}
    p_a = p_a
    p_b = p_b
    p_r = p_r
    p_c = p_c
    Ids <- MCIds
    Firmware <- MCFirmware
    OldRecords <- MCOldRecords
    Radix = 2
    Capacity = 3
    MaxPerTc = 2
    MaxBytes = 3
INVARIANTS LTypeOK VerificationComplete NumberingUnbroken Reassembled DTypeOK AllOrNothing CleanMeansSaved ReadYourWrites
