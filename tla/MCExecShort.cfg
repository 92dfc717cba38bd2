SPECIFICATION Spec
CONSTANTS
    x = x
    a = a
    Call = {x}
    Command = {a}
    MaxOutput = 1
    Cap = 1
    PipeSize = 1
    MaxErrors = 1
    IgnoresTerm = {}
INVARIANTS
    ShortOutputIsFlagged
CHECK_DEADLOCK FALSE
