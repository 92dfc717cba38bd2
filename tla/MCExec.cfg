SPECIFICATION Spec
CONSTANTS
    x = x
    y = y
    a = a
    b = b
    Call = {x, y}
    Command = {a, b}
    MaxOutput = 2
    Cap = 1
    PipeSize = 1
    MaxErrors = 1
    IgnoresTerm = {b}
SYMMETRY Symmetric
INVARIANTS
    TypeOK
    NoReadWhileCopying
    SuccessIsComplete
    PartialIsHonest
    AbandonedStops
PROPERTIES
    TimeoutMeansDeadline
CHECK_DEADLOCK FALSE
