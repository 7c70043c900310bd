SPECIFICATION FairSSpec
CONSTANTS
    Ids = {a, b, c}
    Times = {1, 2}
    TcLens = {64, 65}
    TcMax = 64
    Capacity = 3
    MaxPerTc = 2
    MaxTime = 2
    NoActivity = NoActivity
INVARIANTS STypeOK NoInsertCanFail CleanMeansSaved
PROPERTIES RefinesTable DueIsReleased
