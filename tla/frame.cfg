SPECIFICATION Spec

CONSTANTS
    Command <- MCCommand
    Text <- MCText
    KeyText = {"k1", "k2"}
    NoKey = NoKey
    Invocation <- MCInvocation
    MaxPhaseEvents = 2

\* The process exits.
CHECK_DEADLOCK FALSE

INVARIANTS
    TypeOK
    EnvelopeTellsStatus
    DocumentMeansSuccess
    StatusIsLogged
    OneTraceId
    KeyIsHidden
