CONSTANTS
    a1 = a1
    a2 = a2
    t1 = t1
    IP = {a1, a2, t1}
    NoIP = NoIP
    Net <- MCNet
    LineCap = 1
    MaxNoise = 1
    MaxFailures = 2
    MaxChanges = 2
SPECIFICATION FairSpec
INVARIANTS
    RunsSound
PROPERTIES
    TargetReachesDNS
CHECK_DEADLOCK FALSE
