SPECIFICATION Spec
CONSTANTS
    ann = ann
    bob = bob
    Identities <- OneMember
    NumJobs = 1
    Owner <- OnlyAnn
    MaxAttempts = 1
    MaxPolls = 1
    MaxFaults = 0
INVARIANTS
    NoWriteBack
CHECK_DEADLOCK FALSE
