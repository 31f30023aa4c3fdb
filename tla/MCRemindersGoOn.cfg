SPECIFICATION FairSpec
CONSTANTS
    None = None
    Pages = {p1}
    Reminders = {r1}
    Callers = {}
    MaxDeliveries = 1
    MaxReceipts = 1
    MaxWaiting = 1
    MaxFrames = 1
    MaxFaults = 1
PROPERTIES
    TurnGoesOn
    DeliveryEnds
CHECK_DEADLOCK FALSE
