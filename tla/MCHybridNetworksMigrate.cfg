SPECIFICATION Spec
CONSTANTS
    f1 = f1
    f2 = f2
    Nets = {hn1, hn2}
    Fabrics = {f1, f2}
    Pool <- OverlappingPools
    MaxFailures = 0
    MaxWrites = 3
    MaxPlacements = 0
    MaxFabricEvents = 1
SYMMETRY NetSymmetry
PROPERTY
    NeverAbsent
CHECK_DEADLOCK FALSE
