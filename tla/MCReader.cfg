SPECIFICATION Spec
CONSTANTS
    r1 = r1
    r2 = r2
    g1 = g1
    g2 = g2
    m1 = m1
    m2 = m2
    m3 = m3
    Doc = {r1, r2}
    Unknown = Unknown
    Rank <- MCRank
    Contents <- MCContents
    DiagramsOf <- MCDiagramsOf
    Links <- MCLinks
    Diagram = {g1, g2}
    Source = {m1, m2, m3}
    Faulty = {m3}
    NoSource = NoSource
    Dev = TRUE
    Needle = {"q"}
    Matches <- MCMatches
    FontSize = {"md", "xl"}
    DefaultSize = "md"
    OtherSizes = {"xxl"}
    Foreign <- MCForeign
    NoPreferences = NoPreferences
    Hints = 1
    MaxHistory = 3
    Starts <- MCStarts
INVARIANTS
    ReaderTypeOK
    LocationShowsActive
    PlainOutlineArrives
    DiagramShowsItsOwn
    SavedIsFound
PROPERTIES
    HistoryLeadsBack
    DiagramsSettle
CHECK_DEADLOCK FALSE
