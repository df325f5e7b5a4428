CONSTANTS
    Servers = {s1}
    Clients = {k1}
    Links = {c1, c2}
    NoLink = NoLink
    PoolSize = 4
    MaxUnsent = 2
    MaxQueuedRx = 2
SPECIFICATION Spec
INVARIANT ClientCreditsKept
CHECK_DEADLOCK FALSE
