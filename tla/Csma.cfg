SPECIFICATION CsmaFairSpec
CONSTANTS
    d1 = d1
    d2 = d2
    d3 = d3
    a1 = a1
    a2 = a2
    a3 = a3
    b1 = b1
    NONE = NONE
    BROADCAST = BROADCAST
    Devices <- MCDevices
    Frames <- MCFrames
    Own <- MCOwn
    Dest <- MCDest
    Unsettled <- MCUnsettled
    QueueSize = 1
    m_maxRetries = 2
INVARIANTS WireOwned OneTransmitterEvent ReadyMeansDone
PROPERTIES IsSharedMedium PacketLeaves
