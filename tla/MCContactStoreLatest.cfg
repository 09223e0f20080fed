SPECIFICATION Spec
CONSTANTS
    p1 = p1
    q1 = q1
    r1 = r1
    i1 = i1
    i2 = i2
    Poller = poller
    None = None
    Torn = Torn
    Peers <- MCPeers
    Ids <- MCIds
    IdOf <- MCIdOf
    Senders = {s1}
    MaxTokens = 2
    MaxFaults = 0
INVARIANT
    LatestContextToken
