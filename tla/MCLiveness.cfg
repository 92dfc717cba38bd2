SPECIFICATION FairSpec
CONSTANTS
    s1 = s1
    s2 = s2
    k1 = k1
    c1 = c1
    d1 = d1
    d2 = d2
    NoSandbox = NoSandbox
    NoContainer = NoContainer
    MaxVersion = 4
    SandboxID = {s1, s2}
    Key = {k1}
    Client = {c1}
    ContainerID = {d1, d2}
    TTL = {1}
    MaxTime = 2
    MaxExpiry = 3
    MaxFaults = 1
    MaxCrashes = 1
    Orphans = {s2}
    MissingImages = {s1}
    LateCreates = TRUE
INVARIANTS
    OneRunningPerSandbox
PROPERTIES
    EverySandboxConverges
    ExpiredSandboxesEnd
    StopsComplete
    LeftoversRemoved
