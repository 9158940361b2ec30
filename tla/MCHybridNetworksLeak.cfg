SPECIFICATION Spec
CONSTANTS
    f1 = f1
    f2 = f2
    Nets = {hn1}
    Fabrics = {f1, f2}
    Pool <- DisjointPools
    MaxFailures = 0
    MaxWrites = 2
    MaxPlacements = 1
    MaxFabricEvents = 1
INVARIANT
    ReleasedWhenComplete
CHECK_DEADLOCK FALSE
