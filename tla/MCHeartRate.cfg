CONSTANTS
    MaxSets = 2
    Connectable = {1}
    AppSet = hr
    Conns = {c1, c2, c3}
    NoConn = none
    Hastens = FALSE
SPECIFICATION CoexistSpec
INVARIANTS KeptApart StartsAccepted
PROPERTY AdvertisesAgain
