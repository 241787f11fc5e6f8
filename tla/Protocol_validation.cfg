SPECIFICATION Spec
CONSTANTS
    TicksPerSecond = 2
    Tolerance = 2
    MaxTime = 11
    MadeAt = {5, 6}
    MaxChanges = 2
INVARIANTS TypeOK AcceptsTheContract OwnFramesAccepted StaleRefused
    EscapesOnlyAtTheEdge GuardRefusesOnlyAhead AnswerIsValid
CHECK_DEADLOCK FALSE
