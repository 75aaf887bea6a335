\* A client enters a thread whose turn is about to end.
SPECIFICATION Spec
CONSTANTS
    Thread = {th1}
    Turn = {t1, t2}
    NoThread = NoThread
    NoTurn = NoTurn
    Nothing = Nothing
    Existing = {th1}
    Commands = {"/use"}
SYMMETRY Symmetry
INVARIANTS
    SettledViewIsRight
CHECK_DEADLOCK FALSE
