SPECIFICATION FairSpec
CONSTANTS
    Poller = poller
    Loops = {poller}
    Apis = {api}
    Handlers = {h1, h2}
    MaxRetries = 1
    None = None
INVARIANTS
    DoneBeforeReturn
    NoGaps
PROPERTY
    NobodyWaitsForEver
