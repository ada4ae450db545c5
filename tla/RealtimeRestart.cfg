SPECIFICATION Spec
CONSTANTS
    Delays <- MCDelays
    Foreign = {t1}
    Epoch = 1
    SpinJiffies = 1
    Second = 3
    HardLimit = 1
    MaxWall = 6
    MaxEvents = 2
    MaxRuns = 2
INVARIANT NothingInThePast
