SPECIFICATION DSpec
CONSTANTS
    p_a = p_a
    p_b = p_b
    p_r = p_r
    p_c = p_c
    Ids <- MCIds
    Firmware <- MCFirmware
    OldRecords <- MCOldRecords
    Radix = 2
    Capacity = 3
    MaxPerTc = 2
    MaxBytes = 2
INVARIANT IdentityIsRunning
