SPECIFICATION FairSpec
CONSTANTS
    Workers = {w1, w2}
    PoolSize = 2
    MaxClock = 4
    MaxStarts = 2
    MaxRequests = 3
INVARIANT AnswerHasMyId
INVARIANT OneProcess
PROPERTY CallsReturn
CHECK_DEADLOCK FALSE
