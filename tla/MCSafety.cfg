SPECIFICATION Spec
CONSTANTS
    s1 = s1
    s2 = s2
    k1 = k1
    c1 = c1
    c2 = c2
    d1 = d1
    d2 = d2
    NoSandbox = NoSandbox
    NoContainer = NoContainer
    MaxVersion = 4
    SandboxID = {s1, s2}
    Key = {k1}
    Client = {c1, c2}
    ContainerID = {d1, d2}
    TTL = {1, 2}
    MaxTime = 2
    MaxExpiry = 4
    MaxFaults = 1
    MaxCrashes = 1
    Orphans = {}
    MissingImages = {}
    LateCreates = FALSE
SYMMETRY Symmetric
INVARIANTS
    TypeOK
    HistoryReplays
    RunningWasStarted
    TerminalRunsOnlyRestarted
    OneContainerPerSandbox
    SameKeySameSandbox
PROPERTIES
    KillsRunningOnlyToReap
    ItemsDoTheirWork
    WritesYieldToStopsOnly
    UsesStore
    ImplementsLifecycle
    SandboxesFollowWorld
