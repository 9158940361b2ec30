SPECIFICATION Spec
CONSTANTS
    MaxGen = 2
    MaxJobs = 2
    MaxFailures = 1
    MaxInterrupts = 0
    MaxNows = 0
    MaxOverdue = 0
    Simultaneous = FALSE
    ShowsNew = TRUE
    Legacy = FALSE
PROPERTIES
    SpecApplied
    DeletionCompletes
CHECK_DEADLOCK FALSE
