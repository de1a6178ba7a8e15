SPECIFICATION Spec
CONSTANTS
    PortCount = 2
    Q_DEPTH = 2
    MaxLen = 2
    NoFrame = NoFrame
    NoCell = NoCell
INVARIANTS
    TypeOK
    QueueHoldsPending
    LeaksUpwardOnly
