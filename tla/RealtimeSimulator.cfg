SPECIFICATION FairSpec
CONSTANTS
    Delays <- MCDelays
    Foreign = {t1}
    Epoch = 1
    SpinJiffies = 1
    Second = 3
    HardLimit = 1
    MaxWall = 5
    MaxEvents = 3
    MaxRuns = 1
INVARIANTS TypeOK NoOversleep NeverEarly NothingInThePast
PROPERTY DueEventRuns
