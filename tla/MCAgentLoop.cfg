SPECIFICATION Spec
CONSTANTS
    Reads = {"read"}
    Edits = {"edit", "bare"}
    Tests = {"test"}
    Incomplete = {"bare"}
    Unknown = {"mystery"}
    Garbled = {"garbled"}
    Goals <- MCGoals
    FlowReads = 1
    MaxIterations = 3
    MaxBatch = 2
    MaxCalls = 3
    BudgetCalls = 2
    KeepCalls = 2
    RepeatDiagnosis = 2
    RepeatBlock = 2
    StagnationStop = 1
    MaxDiagnosis = 0
    DenialStop = 2
    MaxNudges = 1
    VerifyOnComplete = TRUE
INVARIANTS
    HonestCompletion
    PartialIsHonest
    NoBlindRetry
    CancelIsPrompt
PROPERTIES
    TodosNotReopened
    RunEnds
CHECK_DEADLOCK FALSE
