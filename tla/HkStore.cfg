SPECIFICATION FairHSpec
CONSTANTS
    p = p
    q = q
    s1 = s1
    s2 = s2
    framework_diag = framework_diag
    Free = Free
    Capacity = 2
    MaxParams = 2
    Reserved = {framework_diag}
    Known = {p}
    Requests <- MCRequests
    OldRecords <- MCOldRecords
    Periods = {0, 2}
    TimeMod = 8
    MaxTime = 5
    MaxStep = 2
INVARIANTS HTypeOK OneStructurePerSid CleanMeansRestored Spaced NoSecondPass
PROPERTY DueIsServed
