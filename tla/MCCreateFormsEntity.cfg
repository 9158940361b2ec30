SPECIFICATION FormSpec
CONSTANTS
    FormKinds = {"Assignment"}
    Styles = {"raw"}
    Entities = {acme, globex}
    MaxSubmits = 1
    MaxFailures = 1
INVARIANT
    ReferencesFollowEntity
CHECK_DEADLOCK FALSE
