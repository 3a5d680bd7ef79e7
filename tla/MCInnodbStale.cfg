\* Two threads, and nothing else that is not needed: one of them
\* may read, change and flush the page that the other's RW command has read.
SPECIFICATION Spec
CONSTANTS
    Threads = {t1, t2}
    Blocks = {b1, b2}
    Pages = {p1, p2, p3}
    RwPages = {p1, p2}
    MaxMods = 2
    MaxRetries = 2
    ReadAhead = FALSE
    Restores = FALSE
SYMMETRY Symmetry
INVARIANTS
    PoolCurrent
CHECK_DEADLOCK FALSE
