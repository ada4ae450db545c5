SPECIFICATION HeapSpec
CONSTANTS
    Delays <- MCDelays
    MaxInserts = 7
PROPERTY HeapEarliest
CHECK_DEADLOCK FALSE
