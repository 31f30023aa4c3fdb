SPECIFICATION Spec
CONSTANTS
    None = None
    Pages = {p1}
    Reminders = {r1}
    Callers = {k1}
    MaxDeliveries = 2
    MaxReceipts = 1
    MaxWaiting = 1
    MaxFrames = 1
    MaxFaults = 0
INVARIANTS
    NoReminderOverReply
CHECK_DEADLOCK FALSE
