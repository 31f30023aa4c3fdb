SPECIFICATION HouseholdSpec
CONSTANTS
    ann = ann
    bob = bob
    Identities <- Members
    NumJobs = 2
    Owner <- AnnAndBob
    MaxAttempts = 2
    MaxPolls = 1
    MaxFaults = 2
INVARIANTS
    TypeOK
    LeavingIsQuiet
    WriteBackOnlyFromOrphans
    NoDuplicateWrite
    OutcomeIsEarned
    RemovedOnlyWhenErased
    KeepsMemoriesOfActive
PROPERTIES
    RowsMoveForward
    ImplementsErasure
CHECK_DEADLOCK FALSE
