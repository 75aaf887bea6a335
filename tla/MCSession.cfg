\* Every command, in threads of this client and of others.
SPECIFICATION FairSpec
CONSTANTS
    Thread = {th1, th2}
    Turn = {t1, t2}
    NoThread = NoThread
    NoTurn = NoTurn
    Nothing = Nothing
    Existing = {th1}
    Commands = {"/new", "/use", "/progress", "/unsubscribe", "/start", "/steer", "/interrupt", "text", "run_once", "run_once --thread"}
INVARIANTS
    OwnViewIsRight
    ActiveTurnIsOfThread
    OneShotSawItsTurn
PROPERTIES
    OneShotReturns
CHECK_DEADLOCK FALSE
