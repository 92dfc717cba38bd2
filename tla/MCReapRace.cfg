SPECIFICATION Spec
CONSTANTS
    s1 = s1
    k1 = k1
    c1 = c1
    d1 = d1
    NoSandbox = NoSandbox
    NoContainer = NoContainer
    MaxVersion = 4
    SandboxID = {s1}
    Key = {k1}
    Client = {c1}
    ContainerID = {d1}
    TTL = {1, 2}
    MaxTime = 2
    MaxExpiry = 4
    MaxFaults = 0
    MaxCrashes = 0
    Orphans = {}
    MissingImages = {}
    LateCreates = FALSE
PROPERTIES
    ReapSeesTheLease
