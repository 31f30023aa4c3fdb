SPECIFICATION Spec
CONSTANTS
    ann = ann
    bob = bob
    Identities <- OneMember
    NumJobs = 1
    Owner <- OnlyAnn
    MaxAttempts = 2
    MaxPolls = 1
    MaxFaults = 1
INVARIANTS
    SubmissionsBounded
CHECK_DEADLOCK FALSE
