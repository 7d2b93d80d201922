SPECIFICATION Spec
CONSTANTS
    Procs = {p1}
    Contents = {c1, c2}
    MaxNow = 3
    MaxIds = 3
    MaxCrashes = 1
    MaxFaults = 2
INVARIANT CacheIsDisk
PROPERTY NothingIsLost
