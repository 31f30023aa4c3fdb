SPECIFICATION Spec
CONSTANTS
    None = None
    Pages = {p1, p2}
    Reminders = {r1}
    Callers = {k1}
    MaxDeliveries = 2
    MaxReceipts = 1
    MaxWaiting = 1
    MaxFrames = 0
    MaxFaults = 0
SYMMETRY Symmetry
INVARIANTS
    TypeOK
    GateHolds
    OutcomeIsReported
    CancelStopsPlayback
PROPERTIES
    DeliveryOnlyMovesOn
CHECK_DEADLOCK FALSE
