CONSTANTS
    Project = {q1}
    K8Id = {i1, i2}
    NoId = NoId
    PolicyK8 = NoId
    Policies <- AllPolicies
    MaxFaults = 2
    MaxEdits = 2
SPECIFICATION FairSpec
CHECK_DEADLOCK FALSE
INVARIANTS
    WritesSound
    ServedIsEnrolled
PROPERTIES
    RevocationsPreserved
    IdentityPinned
    RevokedIsWithdrawn
    RepairRecovers
