SPECIFICATION FairASpec
CONSTANTS
    dp = dp
    mode = mode
    d0 = d0
    d1 = d1
    d2 = d2
    boot = boot
    nominal = nominal
    safe = safe
    Absent = Absent
    NoImage = NoImage
    RecordTypes <- MCRecordTypes
    Values <- MCValues
    RecordLen <- MCRecordLen
    Order <- MCOrder
    Default <- MCDefault
    Changes <- MCChanges
    ModeType = mode
    BootMode = boot
    NominalMode = nominal
    PayloadMax = 8
    BufCap = 3
    SectorCount = 2
    SeqMod = 5
    MaxSeq = 4
    MaxGen = 2
    ReadFaults = FALSE
    BackendFaults = TRUE
INVARIANTS ATypeOK CleanMeansInImage OneIterationWindow PowerSafe BeliefMatchesFlash
PROPERTIES Refines EventuallyDurable
