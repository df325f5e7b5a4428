CONSTANTS
    Buffers = {b1, b2, b3, b4}
    TxBufMax = 2
    RxBufMax = 2
    MaxUnsent = 2
    MaxCredits = 2
    MaxEvents = 3
    EndReports = {"released", "silent"}
SPECIFICATION L2capFairSpec
INVARIANTS BuffersAccounted HeldBuffersKept TakenHasChannel
PROPERTIES Closes
CHECK_DEADLOCK FALSE
