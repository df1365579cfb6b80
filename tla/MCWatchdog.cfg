\* Bookkeeping with half milliseconds, one watchdog.
SPECIFICATION FairSpec
CONSTANTS
    N = 1
    Epoch = 2
    Duration = 5
    Ms = 2
    MaxGap = 7
    Horizon = 12
INVARIANTS
    TimeConserved
    OverLimitMeansSilent
    DetectInTime
PROPERTIES
    Detects
\* The process may have been killed, or be over.
CHECK_DEADLOCK FALSE
