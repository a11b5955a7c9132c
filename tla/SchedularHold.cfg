\* One worker, tasks that hold for an event; one is scheduled twice, the other may throw.
SPECIFICATION FairSpec
CONSTANTS
    w1 = w1
    w2 = w2
    a = a
    b = b
    Workers = {w1}
    Main = Main
    UseCaller = FALSE
    Tasks = {a, b}
    AnyThread = AnyThread
    NoTask = NoTask
    Pin <- AllAny
    MayHold = {a, b}
    MayThrow = {b}
    MayBeSpawned = {a, b}
    MaxYields = 2
    MaxSubmits <- TwiceA
    IdleKinds = {TRUE}
PROPERTIES EndsOnce TaskCompletesUnlessStopped
CHECK_DEADLOCK FALSE
