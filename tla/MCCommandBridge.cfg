CONSTANTS
    Caller = {c1, c2}
    NoCaller = NoCaller
    Lifetime = {3, 20}
    Width = 8
    LoginPause = 1
    RejectPause = 6
    LoginTimeout = 2
    MaxTime = 2
    MaxRequests = 2
    Project = {p, q}
    Permitted = {p}
    Slots = 2
    MaxDiagnoses = 1
    MaxChanges = 1
SPECIFICATION BridgeSpec
CHECK_DEADLOCK FALSE
INVARIANTS
    CommandsSound
PROPERTIES
    FreshTokenKept
    RejectedTokenNotReused
    CommandReturns
