\* A task and its dependent with the three recoveries of the code.
SPECIFICATION FairSpec
CONSTANTS
    Name           <- MCName
    Starts         <- MCStarts
    Files          <- MCFiles
    BaseTask       <- ChainTask
    BaseDeps       <- ChainDeps
    BasePos        <- ChainPos
    Resource       <- MCResource
    Resources      <- ChainResources
    Conflicts      <- MCConflicts
    Agentless      = {}
    MaxConcurrency = 2
    MaxAttempts    = 3
    Stimuli        = {"fail", "recover", "reject", "cancel_all"}
INVARIANTS
    ChainIsSequential
    BlockedHasCause
PROPERTIES
    HistoryIsKept
    Termination
\* execute() returns and the workers end.
CHECK_DEADLOCK FALSE
