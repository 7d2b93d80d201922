\* Five tasks with a join and a task without agent, every stimulus, one recovery each.
SPECIFICATION Spec
CONSTANTS
    Name           <- MCName
    Starts         <- MCStarts
    Files          <- MCFiles
    BaseTask       <- PlanTask
    BaseDeps       <- PlanDeps
    BasePos        <- PlanPos
    Resource       <- MCResource
    Resources      <- PlanResources
    Conflicts      <- MCConflicts
    Agentless      = {"e"}
    MaxConcurrency = 2
    MaxAttempts    = 1
    Stimuli        = {"fail", "recover", "reject", "cancel", "cancel_all"}
INVARIANTS
    IInv
    LockExclusion
    NoSharedFile
    StartedAfterDeps
    NeverStuck
PROPERTIES
    NoStartAfterCancelAll
\* execute() returns and the workers end.
CHECK_DEADLOCK FALSE
