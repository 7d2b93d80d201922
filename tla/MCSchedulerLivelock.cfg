\* A join of two tasks, one of which recovers and the other does not.
SPECIFICATION FairSpec
CONSTANTS
    Name           <- MCName
    Starts         <- MCStarts
    Files          <- MCFiles
    BaseTask       <- JoinTask
    BaseDeps       <- JoinDeps
    BasePos        <- JoinPos
    Resource       <- MCResource
    Resources      <- JoinResources
    Conflicts      <- MCConflicts
    Agentless      = {}
    MaxConcurrency = 2
    MaxAttempts    = 1
    Stimuli        = {"fail", "recover"}
PROPERTIES
    Termination
\* execute() returns and the workers end.
CHECK_DEADLOCK FALSE
