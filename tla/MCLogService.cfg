CONSTANTS
    t1 = t1
    t2 = t2
    Loggers = {t1, t2}
    MaxCalls = 2
    Levels <- MCLevels
    NoThread = NoThread
    Worker = Worker
    Main = Main
SPECIFICATION FairSpec
INVARIANTS
    TypeOK
    ConstructedOnce
    WakeupOwed
    UnlockedReadIsSafe
    ThreadOrder
PROPERTIES
    ImplementsLogSink
    QueuedIsHandled
CHECK_DEADLOCK FALSE
