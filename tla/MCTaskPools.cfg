CONSTANTS
    APIResource <- MCAPIResource
    Versions <- MCVersions
    Rule <- MCRule
    MaxWorkers = 2
    MaxFaults = 2
    MaxEdits = 1
    Job = {j1, j2}
    Key = {k1}
    NoKey = NoKey
    NoSlot = NoSlot
    MaxConcurrent = 2
    MaxRecords = 2
    TaskErr = {"nil", "Canceled", "DeadlineExceeded", "other"}
SPECIFICATION PoolsSpec
INVARIANTS
    ReviewsSound
PROPERTIES
    ReviewsEnd
    EveryJobSettles
CHECK_DEADLOCK FALSE
