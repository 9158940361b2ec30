SPECIFICATION Spec
CONSTANTS
    Kinds = {"Assignment"}
    Sessions = {u1, u2}
    MaxRequests = 2
    MaxLate = 0
    MaxMishaps = 0
INVARIANT
    NothingLeftBehind
CHECK_DEADLOCK FALSE
