SPECIFICATION ServingSpec
CONSTANTS
    s1 = s1
    x = x
    SandboxID = {s1}
    NoSandbox = NoSandbox
    Rejected = Rejected
    Call = {x}
    Half = 32
    Second = 3
    DefaultTTL = 6
    MaxTTL = 12
    MinMemoryLimit = 2
    Lifetimes <- FittingLifetimes
    WireSeconds <- FittingSeconds
    Digits <- NaturalDigits
    Units = {1, 2, 4}
    MaxTotalFiles = 2
INVARIANTS
    ServingTypeOK
    StatusIsTrue
    RejectedChangesNothing
    ChangesNeedRunningRow
    GrantedAsAsked
    CleanExitLosesNothing
PROPERTIES
    RequestsFollowWorld
    ShutdownEnds
CHECK_DEADLOCK FALSE
