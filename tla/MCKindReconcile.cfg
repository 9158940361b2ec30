SPECIFICATION Spec
CONSTANTS
    MaxGen = 2
    MaxJobs = 2
    MaxFailures = 0
    MaxInterrupts = 1
    MaxNows = 1
    MaxOverdue = 1
    Simultaneous = FALSE
    ShowsNew = FALSE
    Legacy = TRUE
INVARIANTS
    FinalizerWaitsForTeardown
    ReconcileNowOncePerSet
    TrackedGeneration
    NoUntrackedJob
PROPERTIES
    EndsOnlyWhenApplied
CHECK_DEADLOCK FALSE
