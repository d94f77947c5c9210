CONSTANTS
    Client = {c1}
    HistorySize = 2
    Buffer = 1
    MaxVersion = 2
    MaxDNS = 2
    MaxRestarts = 1
SPECIFICATION FairSpec
INVARIANTS
    EventsSound
    CaughtUp
PROPERTIES
    PublishedInOrder
    ChangesAreShown
