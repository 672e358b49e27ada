SPECIFICATION Spec
CONSTANTS
    MaxReq = 2
    MaxChunks = 1
    MaxQueued = 3
    MaxRetries = 2
    RateLimit = 2
    DoomMax = 1
    MaxPanics = 1
    AuthRetries = 1
INVARIANTS
    AttemptsWithinBudget
    BarrierWillOpen
PROPERTIES
    AbandonedSendsNothing
    StreamsDoNotMix
    ToolCallsFollowText
    TurnIsAnswered
    ActiveDrains
CHECK_DEADLOCK FALSE
