CONSTANTS
    OpCount = 2
    ChunkSize = 2
    Sizes = {1, 4, 7}
    MaxCommands = 3
SPECIFICATION Spec
INVARIANTS WholeUploads NoWakeupLost
PROPERTIES UploadsEnd LedSettles AnnouncementEnds

CHECK_DEADLOCK FALSE
