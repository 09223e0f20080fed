SPECIFICATION FairSpec
CONSTANTS
    t1 = t1
    t2 = t2
    t3 = t3
    a = a
    b = b
    Poller = poller
    None = None
    Torn = Torn
    Tokens <- MCTokens
    Accounts <- MCAccounts
    AccountOf <- MCAccountOf
    Senders = {s1}
    MaxCrashes = 0
PROPERTY
    LoginRecovers
