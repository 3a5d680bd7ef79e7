\* Six slices fill the three blocks that are not in reserve to the last page.
SPECIFICATION Spec
CONSTANTS
    None = None
    NumDies = 1
    NumBlocks = 4
    PagesPerBlock = 2
    Lsas = {l1, l2, l3, l4, l5, l6}
    WholeBlockRewrites = FALSE
INVARIANTS
    BlockMapExact
    NoDataLost
    NoAssertFails
SYMMETRY LsaSymmetry
