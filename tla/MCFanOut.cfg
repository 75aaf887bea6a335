SPECIFICATION Spec
CONSTANTS
    Thread = {th1}
    Connection = {c1, c2}
    Forwarder = {f1, f2}
    NoForwarder = NoForwarder
    StorageFaults = {"request", "forwarder"}
    MaxPublished = 3
    MaxRequests = 1
SYMMETRY Symmetry
INVARIANTS
    NothingIsMissed
PROPERTIES
    ProgressIsAggregated
CHECK_DEADLOCK FALSE
