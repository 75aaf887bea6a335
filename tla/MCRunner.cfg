\* Two turns of one thread: the second prompt follows turns of every outcome.
SPECIFICATION FairSpec
CONSTANTS
    MaxToolRounds = 2
    Crashes = TRUE
    OpaqueOutputs = TRUE
    EmptyDeltas = FALSE
    MaxTurns = 2
    MaxParallel = 2
    MaxSteers = 1
INVARIANTS
    PromptIsWellFormed
    EachCallRunsOnce
    CompletedTurnsLeaveNothingOpen
    CallsHaveResults
PROPERTIES
    TurnsEnd
CHECK_DEADLOCK FALSE
