CONSTANTS
    Chunks = 3
    MAX_CHUNKS_IN_FLIGHT = 2
    MaxDownloads = 3
SPECIFICATION FairSpec
INVARIANT WholeImage
PROPERTIES UpdateEnds
CHECK_DEADLOCK FALSE
