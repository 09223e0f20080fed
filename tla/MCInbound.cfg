SPECIFICATION FairSpec
CONSTANTS
    None = None
    Torn = Torn
    MaxMessages = 4
    MaxFaults = 3
INVARIANTS
    AtMostOnce
    CursorNotAhead
PROPERTIES
    KeepsPromise
    EveryMessageReported
