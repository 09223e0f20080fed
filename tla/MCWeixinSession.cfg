SPECIFICATION Spec
CONSTANTS
    t1 = t1
    t2 = t2
    t3 = t3
    a = a
    b = b
    Poller = poller
    None = None
    Torn = Torn
    Tokens <- MCTokens
    Accounts <- MCAccounts
    AccountOf <- MCAccountOf
    Senders = {s1, s2}
    MaxCrashes = 1
SYMMETRY MCSymmetry
INVARIANTS
    MemoryAgreesWithFile
    DroppedStaysDropped
    InboundIdentity
    SessionPersisted
    CursorMatchesAccount
PROPERTY
    LiveSessionLostOnlyToStaleSender
