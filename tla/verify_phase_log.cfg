\* The statement that a phase logged as passed has no failure.
SPECIFICATION Spec
CONSTANTS
    c0 = c0
    c1 = c1
    cWide = cWide
    NoFile = NoFile
    Identity <- MCIdentity
    Challenge <- MCChallenge
    WideChallenge <- MCWide
    KeyFile <- AllKeys
    ReceiptFile <- AllReceipts
    AuditFile <- AllAudits
    RequestedChallenge = c0
    MaxReplacements = 0
CHECK_DEADLOCK FALSE
INVARIANT
    PassedPhaseHasNoFailure
