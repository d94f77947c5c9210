CONSTANTS
    a1 = a1
    a2 = a2
    t1 = t1
    IP = {a1, a2, t1}
    NoIP = NoIP
    Net <- MCNet
    LineCap = 1
    MaxNoise = 1
    MaxFailures = 2
    MaxChanges = 0
SPECIFICATION FairSpec
PROPERTIES
    RunsEnd
CHECK_DEADLOCK FALSE
