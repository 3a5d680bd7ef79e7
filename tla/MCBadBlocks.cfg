\* Two user and two reserved blocks per LUN: with two marked blocks and two that go
\* bad in use a LUN may run out of reserved blocks, a bad one may lie between good
\* ones, and a block may fail while the failure of another is being saved.
SPECIFICATION Spec
CONSTANTS
    Dies = {0}
    UserPerLun = 2
    TotalPerLun = 4
    MaxMarked = 2
    MaxWorn = 2
    MaxData = 1
    MarksErasable = FALSE
    MayRemake = TRUE
INVARIANTS
    InUseSound
    CapacityExact
    OnlyBadGivenUp
PROPERTIES
    GrownStaysOut
