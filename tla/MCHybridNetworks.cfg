SPECIFICATION Spec
CONSTANTS
    f1 = f1
    f2 = f2
    Nets = {hn1, hn2}
    Fabrics = {f1, f2}
    Pool <- OverlappingPools
    MaxFailures = 1
    MaxWrites = 2
    MaxPlacements = 1
    MaxFabricEvents = 1
SYMMETRY NetSymmetry
INVARIANTS
    AllocatedIsRecorded
    NoOrphan
PROPERTIES
    ReleasedOnlyUnplaced
CONSTRAINT TwoEvents
CHECK_DEADLOCK FALSE
