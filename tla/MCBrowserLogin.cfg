CONSTANTS
    Caller = {c1, c2}
    NoCaller = NoCaller
    NoSession = NoSession
    MaxGranted = 2
    MaxFaults = 3
SPECIFICATION FairSpec
CHECK_DEADLOCK FALSE
INVARIANTS
    SessionSound
PROPERTIES
    SpentNotPresented
    OldRejectionHarmless
    SavesOnce
    LoginEnds
    SessionSurvives
