\* Two threads stream into one terminal while the user types.
SPECIFICATION Spec
CONSTANTS
    Thread = {th1, th2}
    Message = {m1, m2, m3}
    NoMessage = NoMessage
    MaxDeltas = 2
    Colors = TRUE
    MaxGaps = 1
SYMMETRY Symmetry
INVARIANTS
    BlocksStartLines
    PromptComesBack
    MessagesAreShownOnce
CHECK_DEADLOCK FALSE
