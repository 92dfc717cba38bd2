SPECIFICATION FairSpec
CONSTANTS
    x = x
    a = a
    b = b
    Call = {x}
    Command = {a, b}
    MaxOutput = 3
    Cap = 1
    PipeSize = 2
    MaxErrors = 1
    IgnoresTerm = {b}
PROPERTIES
    OutputNeverStalls
    ContextEndsExec
CHECK_DEADLOCK FALSE
