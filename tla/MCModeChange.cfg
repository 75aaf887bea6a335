\* A change of mode during a turn.
SPECIFICATION Spec
CONSTANTS
    Thread = {th1}
    Connection = {c1}
    Forwarder = {f1, f2}
    NoForwarder = NoForwarder
    StorageFaults = {}
    MaxPublished = 3
    MaxRequests = 3
SYMMETRY Symmetry
INVARIANTS
    ModeChangeKeepsEvents
CHECK_DEADLOCK FALSE
