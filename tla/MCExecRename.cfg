SPECIFICATION Spec
CONSTANTS
    x = x
    a = a
    Call = {x}
    Command = {a}
    MaxOutput = 1
    Cap = 1
    PipeSize = 1
    MaxErrors = 0
    IgnoresTerm = {}
PROPERTIES
    NothingMatchedMeansExited
CHECK_DEADLOCK FALSE
