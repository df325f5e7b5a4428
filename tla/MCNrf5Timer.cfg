CONSTANTS
    MaxEvents = 2
    QueueSize = 2
    MaxCount = 4
    Latency = 1
    MaxTime = 7
    Timeouts = {0, 25, 63}
    WordSize = 64
    Thousand = 20
    Frequency = 2
    MinTicks = 2
SPECIFICATION TimerSpec
INVARIANTS TimerTypeOK NeverSlow
PROPERTIES ImplementsLossyDelivery SignalsAnswered
CHECK_DEADLOCK FALSE
