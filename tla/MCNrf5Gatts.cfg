CONSTANTS
    Bearers = {b1, b2}
    MaxPending = 2
    QueueSize = 4
    MaxBleEvents = 2
SPECIFICATION GattsSpec
INVARIANTS NoSentLost OpenFitsLink
SYMMETRY BearerSymmetry
CHECK_DEADLOCK FALSE
