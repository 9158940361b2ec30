SPECIFICATION Spec
CONSTANTS
    Keys = {hn1, hn2, hn3}
    Jobs = {j1, j2}
    PoolStart = 4
    PoolEnd = 5
    MaxAttempts = 2
INVARIANTS
    UniqueVnis
PROPERTIES
    ReportsAreTrue
    ExhaustedMeansFull
    ImplementsAllocator
    ScriptsEnd
