SPECIFICATION ProgressSpec
CONSTANTS
    ann = ann
    bob = bob
    Identities <- OneMember
    NumJobs = 1
    Owner <- OnlyAnn
    MaxAttempts = 2
    MaxPolls = 1
    MaxFaults = 1
    Loop = Loop
    Helpers = {h}
    LastTurn = 2
    LastCancel = 0
    MaxWire = 1
    Tools <- MCTools
    ClientTools <- MCClientTools
    FollowUps <- MCFollowUps
    MaxTexts = 1
    MaxAudio = 1
    OutputSize = 1
PROPERTIES
    JobsEnd
    DeletionEnds
    CloseEnds
    RepliesEnd
CHECK_DEADLOCK FALSE
