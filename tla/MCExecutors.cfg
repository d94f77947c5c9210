CONSTANTS
    Job = {j1, j2, j3}
    Key = {k1}
    NoKey = NoKey
    NoSlot = NoSlot
    MaxConcurrent = 2
    MaxRecords = 2
    TaskErr = {"nil"}
    Request = {j1, j2, j3}
    NoRequest = NoRequest
    MaxRunning = 2
SPECIFICATION ExecutorsSpec
SYMMETRY Symmetry
INVARIANTS
    TypeOK
    RecordsAgree
    RecordKept
    QuietAfterClose
    SlotAccounting
PROPERTIES
    OldestPruned
    ImplementsExecutor
    QueueImplementsExecutor
