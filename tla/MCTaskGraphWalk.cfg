\* The recursive walks of the task graph against their definitions.
SPECIFICATION Spec
CONSTANTS
    Planned  <- MCPlanned
    Debug    = "debug"
    Retest   = "retest"
    Edges    <- MCEdges
    Statuses <- MCStatuses
INVARIANTS
    CascadeIsReach
    InsertIsRewiring
    SortIsTopological
\* A behaviour is one call.
CHECK_DEADLOCK FALSE
