SPECIFICATION FormSpec
CONSTANTS
    FormKinds <- EveryKind
    Styles = {"dashboard", "raw"}
    Entities = {acme, globex}
    MaxSubmits = 2
    MaxFailures = 1
SYMMETRY EntitySymmetry
CONSTRAINT OneSlip
INVARIANTS
    ChoicesBelongToEntity
    SubmittedIsValid
    AskedIsStored
    SecretComesFirst
CHECK_DEADLOCK FALSE
