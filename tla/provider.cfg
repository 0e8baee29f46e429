SPECIFICATION MCSpec

CONSTANTS
    MaxSignals = 2
    Thread = {t1, t2}
    Limit = 2
    Window = 5
    MaxRequests = 4
    MaxNow = 7

\* The script ends.
CHECK_DEADLOCK FALSE

INVARIANTS
    TypeOK
    NoStrayChild
    LastEventTellsStatus
    FailureIsReported
    SlidingWindow

PROPERTIES
    HintIsEnough
    ScriptEnds
