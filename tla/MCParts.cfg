SPECIFICATION PartsSpec
CONSTANTS
    Loop = Loop
    Helpers = {h}
    LastTurn = 3
    LastCancel = 1
    MaxWire = 1
    LastUtterance = 2
    QueueSize = 2
    MaxSubmits = 3
    MaxPendingAcks = 1
    MaxEvents = 1
    Tools <- MCTools
    ClientTools <- MCClientTools
    FollowUps <- MCFollowUps
    MaxTexts = 1
    MaxAudio = 2
    OutputSize = 1
    Caches = {k1, k2}
    Editors = {e1, e2}
    MaxOutages = 1
    LastAttempt = 6
    MaxAttempts = 2
    Window = 2
    Wait = 1
    LastTime = 3
    Members = {m1}
    LastRequest = 3
    LastControl = 2
    MaxControls = 1
    PacketSize = 2
    LastSample = 5
    LastText = 1
    MaxAnswers = 3
    WindowSize = 3
    StartThreshold = 2
    MinSilence = 3
    LastWindow = 10
    MaxCaptures = 1
    Limits = {4, 7}
    Overhead = 1
    Costs = {1, 3}
    ShortCost = 2
    MaxHistory = 3
    MaxRounds = 1
INVARIANTS
    PartsTypeOK
    NoOrphanTask
    NoFrameAfterTheEnd
    
    SpeechEndsAreTold
    VoiceReleased
    SilentWhenUnwanted
    ClientIsKnown
    ReplyIsWhole
    ProfileFollowsEdits
    RateIsLimited
    CleanedHasNoVoiceprint
    NothingWaitsAfterClose
    RecognitionIsWhole
    SpeechIsBounded
    BudgetIsSpent
CHECK_DEADLOCK FALSE
