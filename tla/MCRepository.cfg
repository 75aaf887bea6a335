\* Callers pass any ids, the clock jumps; the table has its index.
SPECIFICATION HistorySpec
CONSTANTS
    Thread = {th1, th2}
    Turn = {4, 5}
    Item = {1, 2, 3}
    NoThread = NoThread
    NoTurn = NoTurn
    LegacySchema = FALSE
    MaxClock = 2
SYMMETRY Symmetry
INVARIANTS
    OneRunningTurnPerThread
    RowsAreConnected
    ReadsFollowCommits
PROPERTIES
    HistoryIsFinal
    ReadsAreStable
