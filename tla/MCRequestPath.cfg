\* Two entries in the normal buffer and one in the read buffer: a write of two
\* slices evicts up to two entries, and every miss in the read buffer evicts.
\* Five requests are fewer than three commands need, so that the pool runs
\* empty while entries are evicted and filled; MaxPages exceeds the evictions
\* that four commands cause.
SPECIFICATION Spec
CONSTANTS
    None = None
    Slots = {s1, s2, s3, s4, s5}
    NormalBuf = {n1, n2}
    RBuf = {r1}
    Entries = {n1, n2, r1}
    Dies = {0}
    VBlocks = {0}
    Cmds = {1, 2, 3, 4}
    BlocksPerSlice = 2
    MaxLsa = 2
    MaxPages = 8
    MaxRw = 1
    Workload <- MixedWorkload
INVARIANTS
    SlotsExact
    Coherent
    TxDataCurrent
    TxAfterRx
    SplitExact
    ProgramInOrder
PROPERTIES
    KeepsPromise
    EveryCommandAcked
