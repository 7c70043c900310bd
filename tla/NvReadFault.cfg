SPECIFICATION Spec
CONSTANTS
    dp = dp
    sched = sched
    v1 = v1
    v2 = v2
    Absent = Absent
    NoImage = NoImage
    RecordTypes <- MCRecordTypes
    Values <- MCValues
    RecordLen <- MCRecordLen
    PayloadMax = 12
    SectorCount = 2
    SeqMod = 4
    MaxSeq = 3
    ReadFaults = TRUE
    BackendFaults = FALSE
SYMMETRY Perms
INVARIANT PowerSafe
