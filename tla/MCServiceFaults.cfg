\* Two threads; storage, runners and callers misbehave.
SPECIFICATION Spec
CONSTANTS
    Thread = {th1, th2}
    Turn = {t1, t2}
    Item = {i1, i2, i3}
    NoThread = NoThread
    NoTurn = NoTurn
    NoItem = NoItem
    Interrupt = Interrupt
    LegacySchema = FALSE
    EagerCallers = TRUE
    RunnerFaults = TRUE
    StorageFaults = TRUE
    MaxControl = 1
    MaxPublished = 4
SYMMETRY Symmetry
INVARIANTS
    TypeOK
    RunningIsStored
    TurnsDoNotInterleave
    TerminalEventIsLast
    AnnouncedIsStored
    ProgressIsOfRunningTurn
PROPERTIES
    KeepsLedger
