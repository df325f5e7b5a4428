CONSTANTS
    FifoSize = 4
    MaxExchanges = 2
    MaxEvents = 2
SPECIFICATION FairSpec
INVARIANT ReplyMatches
PROPERTIES EventsHeard
CHECK_DEADLOCK FALSE
