\* Two threads stream at once.
SPECIFICATION Spec
CONSTANTS
    Thread = {th1, th2}
    Message = {m1, m2}
    NoMessage = NoMessage
    MaxDeltas = 2
    Colors = FALSE
    MaxGaps = 0
SYMMETRY Symmetry
INVARIANTS
    TextIsUnderItsGutter
CHECK_DEADLOCK FALSE
