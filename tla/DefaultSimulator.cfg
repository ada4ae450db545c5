SPECIFICATION Spec
CONSTANTS
    Delays <- MCDelays
    Contexts = {"n0"}
    Foreign = {f1}
    UidRange = 8
    MaxCreated = 4
    MaxSubmitted = 2
INVARIANTS
    QueueAhead
    ExpiredExact
    UnscheduledCount
    RevokedNeverRuns
    SubmissionOrder
PROPERTIES
    ClockForward
    SubmissionTakenOver
