SPECIFICATION Spec
CONSTANTS
    Conns = {c1, c2}
    Listeners = {l1, l2}
    Requests = {r1}
    Pusher = pusher
    None = None
PROPERTY
    HealthyConnectionKept
