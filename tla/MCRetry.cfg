CONSTANTS
    Intervals <- MCIntervals
    MaxRetryDuration = 7
    CallBound = 1
SPECIFICATION Spec
INVARIANT TypeOK
INVARIANT GivesUpOnlyAtDeadline
PROPERTY BackoffSchedule
CHECK_DEADLOCK FALSE
