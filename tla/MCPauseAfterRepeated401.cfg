CONSTANTS
    Caller = {c1, c2}
    NoCaller = NoCaller
    Lifetime = {3, 20}
    Width = 8
    LoginPause = 1
    RejectPause = 6
    LoginTimeout = 2
    MaxTime = 3
    MaxRequests = 3
SPECIFICATION Spec
CHECK_DEADLOCK FALSE
PROPERTIES
    PauseAfterRepeated401
