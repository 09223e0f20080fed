SPECIFICATION FairSpec
CONSTANTS
    Conns = {c1, c2, c3}
    Listeners = {l1, l2}
    Requests = {r1, r2}
    Pusher = pusher
    None = None
INVARIANTS
    OneWriter
    NothingLeaks
    AnswerToAsker
PROPERTY
    LossIsOvercome
