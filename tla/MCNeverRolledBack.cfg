CONSTANTS
    Client = {c1}
    HistorySize = 2
    Buffer = 1
    MaxVersion = 3
    MaxDNS = 1
    MaxRestarts = 1
SPECIFICATION Spec
PROPERTIES
    NeverRolledBack
