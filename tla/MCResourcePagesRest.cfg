SPECIFICATION FairSpec
CONSTANTS
    Kinds = {"Project"}
    Entities = {"acme", "globex"}
    Fallback = "acme"
    Home = "sovereign-cloud"
    Groups = {"globex"}
    Labelled = {"acme"}
    Rights = {"globex"}
    Changing = {}
    MaxUser = 1
    MaxOthers = 0
    MaxMishaps = 0
PROPERTIES
    RestsWithoutUser
CHECK_DEADLOCK FALSE
