SPECIFICATION DialogueSpec
CONSTANTS
    Connections = {c1, c2}
    Members = {m1}
    Guest = Guest
    Nobody = Nobody
    MaxTurns = 2
    WindowSize = 1
    MaxPending = 1
    MaxClears = 1
    MaxOpens = 2
SYMMETRY Symmetry
INVARIANTS
    RemovedIsForgotten
CHECK_DEADLOCK FALSE
