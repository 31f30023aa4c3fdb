SPECIFICATION Spec
CONSTANTS
    None = None
    Pages = {p1, p2}
    Reminders = {r1}
    Callers = {}
    MaxDeliveries = 1
    MaxReceipts = 1
    MaxWaiting = 1
    MaxFrames = 0
    MaxFaults = 0
INVARIANTS
    NothingHeldInVain
CHECK_DEADLOCK FALSE
