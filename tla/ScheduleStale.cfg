SPECIFICATION FairSSpec
CONSTANTS
    Ids = {a, b}
    Times = {1, 2}
    Capacity = 2
    MaxPerTc = 1
    MaxTime = 2
    TcLens = {64, 65}
    TcMax = 64
    NoActivity = NoActivity
PROPERTY NoStaleFire
