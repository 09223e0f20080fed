SPECIFICATION Spec
CONSTANTS
    Poller = poller
    Loops = {poller}
    Apis = {api}
    Handlers = {h1}
    MaxRetries = 1
    None = None
INVARIANT
    QuickReplySent
