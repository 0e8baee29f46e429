SPECIFICATION Spec

CONSTANTS
    Artifact <- MCArtifact
    Boundary <- MCBoundary
    FlipValue = {0, 2, 200}
    MaxFaults = 2

\* A run ends when the artifact has been read or refused.
CHECK_DEADLOCK FALSE

INVARIANTS
    TypeOK
    DeliveredAsBound
    Canonical
    DamageIsRefused
    ReceiptAsSent
    DegradedGivesNothing
