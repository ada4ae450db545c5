SPECIFICATION ThreadsSpec
CONSTANTS
    NS_PER_SEC = 6
    NS_PER_USEC = 2
    Timeouts <- MCTimeouts
    MaxClock = 26
    MaxCalls = 2
    f1 = f1
    f2 = f2
    f3 = f3
    f4 = f4
    f5 = f5
    Frames <- MCFrames
    NONE = NONE
    KernelSize = 1
    m_maxPendingReads = 2
INVARIANTS
    NoLostWakeup NotBeforeTime
    NoLostStop OneEventPerFrame ThreadContained
PROPERTIES
    SignalledReturns
    IsLossyFifo StopReturns
