\* Every artifact, and a file replaced between any two steps of the run.
SPECIFICATION FairSpec
CONSTANTS
    c0 = c0
    c1 = c1
    cWide = cWide
    NoFile = NoFile
    Identity <- MCIdentity
    Challenge <- MCChallenge
    WideChallenge <- MCWide
    KeyFile <- AllKeys
    ReceiptFile <- AllReceipts
    AuditFile <- AllAudits
    RequestedChallenge = c0
    MaxReplacements = 1
CHECK_DEADLOCK FALSE
INVARIANTS
    TypeOK
    PassIsBound
    PhaseLogTellsVerdict
    AuditAskedForBoundReceipt
PROPERTIES
    ImplementsVerdict
    Terminates
