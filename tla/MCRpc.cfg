\* Requests of every kind and one frame of another program, with every failure.
SPECIFICATION FairSpec
CONSTANTS
    MaxCalls = 2
    MaxForeign = 1
    MaxPushed = 1
    Raised = {"TurnNotFoundError"}
    Nothing = Nothing
    Null = Null
    Absent = Absent
CHECK_DEADLOCK FALSE
INVARIANTS
    AnswersAreDue
    CallsReturnInOrder
PROPERTIES
    ImplementsRemoteCalls
    CallsEnd
