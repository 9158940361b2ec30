SPECIFICATION Spec
CONSTANTS
    Kinds <- AllKinds
    Sessions = {u1, u2}
    MaxRequests = 2
    MaxLate = 1
    MaxMishaps = 1
SYMMETRY SessionSymmetry
INVARIANTS
    NoOrphans
    RepliesAreTrue
PROPERTIES
    EditsKeepTheRest
CHECK_DEADLOCK FALSE
