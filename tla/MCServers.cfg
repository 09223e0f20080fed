SPECIFICATION ServersSpec
CONSTANTS
    Requests = {x1, x2, x3}
    MaxSize = 2
    Limits = {0, 1}
    MaxEvents = 4
    Clients = {x1, x2, x3}
    WSEvents = 2
    HttpRequests = {y1, y2}
    HttpMessages <- MCMessages
    Bucket = 1
    MaxRefills = 1
    Ops = {y1, y2}
    Size <- MCSize
    Threads = {2, 8}
    MinSplit = 5
    Margin = 1
    Cuts = {0, 1}
    MaxFaults = 1
    Accounts = {z1, z2}
    Users = {u}
    ApiRequests <- MCApiRequests
    ApiCalls = {y1, y2}
    MaxLogins = 1
    MaxReceived = 1
    None = None
SYMMETRY MCSymmetry
INVARIANTS
    EachEventOnce
    SleepsBesideEventsOnlyIfExcused
    ReportedToEach
    OnlyAdmittedCallsRun
    Downloaded
    AccountsKeptApart
CHECK_DEADLOCK FALSE
