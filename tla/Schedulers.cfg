SPECIFICATION Spec
CONSTANTS
    Delays <- MCDelays
    MaxInserts = 5
    MaxChanges = 1
INVARIANTS BucketsConsistent ScanNotAhead
PROPERTY IsEventList
CHECK_DEADLOCK FALSE
