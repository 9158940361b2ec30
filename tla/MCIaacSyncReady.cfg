SPECIFICATION Spec
CONSTANTS
    team1 = team1
    team2 = team2
    rbac1 = rbac1
    Resources <- MCResources
    Kinds <- MCKinds
    KindOf <- MCKindOf
    Contents = {c1, c2}
    MaxChanges = 2
    MaxMishaps = 2
INVARIANT
    ReadyIsComplete
