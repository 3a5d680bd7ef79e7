\* Two RW commands outstanding at the same time.
SPECIFICATION Spec
CONSTANTS
    None = None
    Slots = {s1, s2, s3, s4, s5, s6}
    NormalBuf = {n1, n2}
    RBuf = {r1, r2}
    Entries = {n1, n2, r1, r2}
    Dies = {0}
    VBlocks = {0}
    Cmds = {1, 2}
    BlocksPerSlice = 2
    MaxLsa = 2
    MaxPages = 4
    MaxRw = 2
    Workload <- TwoRwWorkload
INVARIANT AckAfterTransfer
