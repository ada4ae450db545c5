SPECIFICATION FairSpec
CONSTANTS
    Ranks <- MCRanks
    Topologies <- MCTopologies
    Bound <- NoBound
    MaxTime = 100
    TxTimes <- MCTxTimes
    UserDelays <- MCUserDelays
    StopTime <- MCStopTime
    MaxScheduled = 1
    MaxSent = 1
INVARIANTS NoStraggler HaltedClean
PROPERTY AllFinish
