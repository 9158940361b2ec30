SPECIFICATION Spec
CONSTANTS
    MaxGen = 1
    MaxJobs = 2
    MaxFailures = 0
    MaxInterrupts = 0
    MaxNows = 0
    MaxOverdue = 0
    Simultaneous = FALSE
    ShowsNew = TRUE
    Legacy = FALSE
INVARIANTS
    FinalizerWaitsForTeardown
CHECK_DEADLOCK FALSE
