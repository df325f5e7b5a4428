CONSTANTS
    SetsCount = 3
    Connectable <- LastConnectable
    MaxReports = 2
SPECIFICATION FairSpec
INVARIANTS CountMatches SilentWhenStopped ScanGoesOn
PROPERTIES Rotation
CHECK_DEADLOCK FALSE
