\* Two blocks for three pages, one of which is not eligible for RW commands.
SPECIFICATION FairSpec
CONSTANTS
    Threads = {t1}
    Blocks = {b1, b2}
    Pages = {p1, p2, p3}
    RwPages = {p1, p2}
    MaxMods = 2
    MaxRetries = 2
    ReadAhead = TRUE
    Restores = TRUE
INVARIANTS
    PoolExact
    WriteAhead
    PagesInPlace
    LatchedPageCurrent
    NoChangeLost
PROPERTIES
    BlockFound
CHECK_DEADLOCK FALSE
