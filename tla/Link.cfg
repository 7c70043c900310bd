SPECIFICATION LinkSpec
CONSTANTS
    Header = 2
    BufSize = 5
    RingSize = 2
    Bytes <- MCBytes
    Packets <- MCPackets
    MaxSent = 3
    Capacity = 2
    PacketMax = 1
    OutCap = 2
    Lens = {1, 2}
    MaxBurst = 2
    MaxTime = 2
    MaxPackets = 4
INVARIANTS BufferSafe FramedInOrder NewestRun ReplayExact
PROPERTIES AllDelivered RetrievalEnds
