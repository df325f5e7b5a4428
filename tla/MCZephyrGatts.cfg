CONSTANTS
    Bearers = {0, 1}
    MaxUnsent = 2
    MaxNotifying = 3
SPECIFICATION FairSpec
INVARIANTS OpenIsSubscribed SendsAccounted
PROPERTIES BearersClose
CHECK_DEADLOCK FALSE
