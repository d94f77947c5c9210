CONSTANTS
    svc = svc
    Service = {svc}
    Slots = 2
    World <- MCWorld
    MinFree = {4}
    Asked <- MCAsked
    MaxTimeouts = 1
    a1 = a1
    a2 = a2
    s1 = s1
    s2 = s2
    n1 = n1
    n2 = n2
    Apply = {a1, a2}
    Source = {s1, s2}
    tag = s1
    Node = {n1, n2}
    MaxFaults = 1
    MaxEdits = 1
SPECIFICATION HostSpec
INVARIANTS
    ReportSound
    PreflightFirst
    DeploysAsPlanned
SYMMETRY Symmetry
CHECK_DEADLOCK FALSE
