SPECIFICATION MCSpec
CONSTANTS
    Self = self
    Users = {n1}
    Groups = {n1}
    None = None
    Channels = {n1}
    GroupSeqs = {2, 4}
    PrivateSeqs = {1, 2}
    Wrap = 3
    MaxSaid = 2
    AllowTempSession = TRUE
    ReportSelfMessage = TRUE
    GroupUsers = {u1, u2}
    MemberGroups = {group1}
    All = all
    MaxChanges = 3
    joins = joins
    invites = invites
    befriends = befriends
    Requests = {joins, invites, befriends}
    RequestKind <- MCKind
    RequestFlag <- MCFlag
    Callers = {a1, a2, a3}
    MaxAnswers = 3
    MediaMessages <- MCItems
    Block = 2
    Limit = 4
    MaxReports = 2
    Received <- MCReceived
    Outgoing <- MCOutgoing
    KnownReplies <- MCKnown
    Readable <- MCReadable
    Split <- MCSplit
    SettingsOf <- MCSettings
    RemoveReplyAt = TRUE
    g1 = g1
    p1 = p1
    c1 = c1
    Messages = {g1, p1, c1}
    Kind <- MCMessageKind
    Fields <- MCFields
    Configs <- MCConfigs
    Queries <- MCQueries
    Readers = {r1}
    Decoded <- MCDecoded
    Int32 = 8
    Radix = 4
    Nil = Nil
    Adders = {a1}
    Panic = Panic
    RuleFiles <- MCRuleFiles
    RuleValues <- MCRuleValues
    RuleStarts <- MCRuleStarts
    FilterPayloads <- MCFilterPayloads
    FilterEvents <- MCFilterEvents
    Matches <- MCMatches
SYMMETRY MCSymmetry
INVARIANTS
    IdsName
    NoticesTell
    RequestsAnsweredOnce
    MediaKept
    Shown
    Uploaded
    StoreKeeps
    JudgedByRules
CHECK_DEADLOCK FALSE
