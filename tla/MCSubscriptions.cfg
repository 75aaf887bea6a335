SPECIFICATION FairSpec
CONSTANTS
    Thread = {th1}
    Connection = {c1}
    Forwarder = {f1, f2}
    NoForwarder = NoForwarder
    StorageFaults = {"request"}
    MaxPublished = 2
    MaxRequests = 3
INVARIANTS
    SubscriptionsTypeOK
    EachEventOnceInOrder
    AnsweredIsDone
PROPERTIES
    RequestsAreAnswered
    DisconnectReleasesQueues
CHECK_DEADLOCK FALSE
