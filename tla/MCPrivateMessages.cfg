SPECIFICATION MCSpec
CONSTANTS
    s1 = s1
    s2 = s2
    e1 = e1
    leveldb = leveldb
    mongodb = mongodb
    Senders = {s1, s2}
    Events = {e1}
    Segments <- MCSegments
    Gid <- MCGid
    Backends = {leveldb, mongodb}
    Mongo = {mongodb}
    Limit = 2
    Torn = Torn
    MaxCrashes = 1
    Tokens <- MCTokens
    Inbound <- MCInbound
    Payloads <- MCPayloads
    Strings <- MCStrings
    Stored <- MCStored
    BaseName <- MCBaseName
INVARIANTS
    ReportedIdIsFound
    BackendsAgree
    SentIsWhole
    LogIsFaithful
    ReadBack
