\* A feature of two parts and its test, with and without structured requirements,
\* under failures, recoveries, a timeout and an interruption.
SPECIFICATION RuntimeFairSpec
CONSTANTS
    BaseTask       <- FeatureTask
    BaseDeps       <- FeatureDeps
    BasePos        <- FeaturePos
    Resource       <- MCResource
    Resources      <- FeatureResources
    Conflicts      <- MCConflicts
    Begins         <- FeatureBegins
    Requirement    = {"REQ-001", "REQ-002"}
    TracedTo       <- FeatureTraces
    Judges         = {"test"}
    Agentless      = {}
    HasTimeout     = TRUE
    Interruptible  = TRUE
    MaxConcurrency = 2
    MaxAttempts    = 1
    Stimuli        = {"fail", "recover", "reject"}
INVARIANTS
    SuccessIsAccounted
    FailureHasReason
    InterruptedHoldsNothing
PROPERTIES
    NothingFinishesAfterInterrupt
    RunDrains
\* A run ends.
CHECK_DEADLOCK FALSE
