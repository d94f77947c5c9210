CONSTANTS
    Request = {r1, r2}
    NoRequest = NoRequest
    Key = {k1}
    NoKey = NoKey
    MaxRunning = 1
    MaxRecords = 2
    MaxVersion = 2
    DryRuns = {"replace", "run"}
    MaxSessions = 1
SPECIFICATION Spec
CHECK_DEADLOCK FALSE
INVARIANTS
    EffectsSound
    JobReportsTruly
    SessionsCleanUp
PROPERTIES
    RequestsEnd
