CONSTANTS
    Intervals <- MCIntervals
    MaxRetryDuration = 7
    CallBound = 1
SPECIFICATION Spec
CHECK_DEADLOCK FALSE
INVARIANT NoFalseSuccess
