\* Three blocks of two pages and eight requests: a block can be collected and
\* used again with its erase still waiting.
SPECIFICATION ScriptSpec
CONSTANTS
    None = None
    la = la
    lb = lb
    lc = lc
    lx = lx
    e1 = e1
    e2 = e2
    r1 = r1
    Slots = {s1, s2, s3, s4, s5, s6, s7, s8}
    Cmds = {}
    Dies = {0}
    NumBlocks = 3
    VBlocks = {0, 1, 2}
    PagesPerBlock = 2
    Lsas = {la, lb, lc, lx}
    NormalBuf = {e1, e2}
    RBuf = {r1}
    Temp = t
    Entries = {e1, e2, r1, t}
INVARIANTS
    RequestsMeetTheirPage
    ReadsLastVersion
    FlashMatchesMaps
    RowTableExact
PROPERTIES
    NothingStuck
CHECK_DEADLOCK FALSE
