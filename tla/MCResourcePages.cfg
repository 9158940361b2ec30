SPECIFICATION FairSpec
CONSTANTS
    Kinds <- KindsPerMethod
    Entities = {"acme", "globex"}
    Fallback = "acme"
    Home = "sovereign-cloud"
    Groups = {"globex"}
    Labelled = {"acme"}
    Rights = {"globex"}
    Changing <- FieldsPerEntry
    MaxUser = 3
    MaxOthers = 1
    MaxMishaps = 1
INVARIANTS
    SettledIsFresh
    PickedStays
PROPERTIES
    EditTakesEffect
    RestIsKept
    ButtonSettles
CHECK_DEADLOCK FALSE
