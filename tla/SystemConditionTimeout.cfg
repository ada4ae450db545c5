SPECIFICATION ConditionFairSpec
CONSTANTS
    NS_PER_SEC = 6
    NS_PER_USEC = 2
    Timeouts <- MCTimeouts
    MaxClock = 26
    MaxCalls = 2
PROPERTY LimitedWait
