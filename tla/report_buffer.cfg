SPECIFICATION Spec
CONSTANTS
    MemoryBlockSize = 7
    Sizes = {1, 2, 3, 5, 8}
    MaxReports = 7
INVARIANTS
    ListIntact
PROPERTIES
    EvictsOnlyIfNeeded
    BehavesAsQueue
