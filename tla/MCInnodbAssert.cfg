\* Two threads, and nothing else that is not needed: one of them
\* may fix a block before it becomes the victim of the other's RW command.
SPECIFICATION Spec
CONSTANTS
    Threads = {t1, t2}
    Blocks = {b1, b2}
    Pages = {p1, p2, p3}
    RwPages = {p1, p2}
    MaxMods = 2
    MaxRetries = 2
    ReadAhead = FALSE
    Restores = FALSE
SYMMETRY Symmetry
INVARIANTS
    NoAssertFails
CHECK_DEADLOCK FALSE
