SPECIFICATION Spec
CONSTANTS
    Listeners = {l1}
    Tasks = {t1, t2, t3}
    Poller = poller
    Main = main
    Grace = 1
    Backoff = 2
    NoTime = NoTime
PROPERTIES
    ShutdownReturns
    AbandonedEnds
    ImplementsBarrier
