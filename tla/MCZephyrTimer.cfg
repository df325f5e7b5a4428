CONSTANTS
    Threads = {t1, t2}
    Main = main
    Nobody = nobody
    MaxEvents = 2
    MaxDepth = 2
SPECIFICATION TimerSpec
INVARIANTS NoSignalLost MutualExclusion ExpiryPending
PROPERTIES ImplementsDelivery SignalsAnswered BreakReturns
