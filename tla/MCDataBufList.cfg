SPECIFICATION Spec
CONSTANTS
    None = None
    EntryCount = 4
    Lsas = {0, 1, 4, 8, 12}
INVARIANTS
    LinksExact
PROPERTIES
    ImplementsLruBuffer
