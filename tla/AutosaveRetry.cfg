SPECIFICATION FairASpec
CONSTANTS
    dp = dp
    mode = mode
    d0 = d0
    d1 = d1
    d2 = d2
    boot = boot
    nominal = nominal
    safe = safe
    Absent = Absent
    NoImage = NoImage
    RecordTypes <- MCRecordTypes
    Values <- MCValues
    RecordLen <- MCRecordLen
    Order <- MCOrder
    Default <- MCDefault
    Changes <- MCSizedRight
    ModeType = mode
    BootMode = boot
    NominalMode = nominal
    PayloadMax = 20
    BufCap = 3
    SectorCount = 2
    SeqMod = 3
    MaxSeq = 2
    MaxGen = 1
    ReadFaults = FALSE
    BackendFaults = TRUE
PROPERTY RetriedUntilDurable
