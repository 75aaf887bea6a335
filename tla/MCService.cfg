SPECIFICATION FairSpec
CONSTANTS
    Thread = {th1}
    Turn = {t1, t2}
    Item = {i1, i2, i3}
    NoThread = NoThread
    NoTurn = NoTurn
    NoItem = NoItem
    Interrupt = Interrupt
    LegacySchema = FALSE
    EagerCallers = FALSE
    RunnerFaults = FALSE
    StorageFaults = FALSE
    MaxControl = 1
    MaxPublished = 6
INVARIANTS
    NoTurnIsOrphaned
    EndedTurnsAreAnnounced
    ItemLifecycle
PROPERTIES
    InterruptEndsTurn
    RestartEndsTurns
