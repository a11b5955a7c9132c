\* Two workers, a fiber that holds for an event.
SPECIFICATION Spec
CONSTANTS
    w1 = w1
    w2 = w2
    a = a
    b = b
    Workers = {w1, w2}
    Main = Main
    UseCaller = FALSE
    Tasks = {a}
    AnyThread = AnyThread
    NoTask = NoTask
    Pin <- AllAny
    MayHold = {a}
    MayThrow = {}
    MayBeSpawned = {a}
    MaxYields = 2
    MaxSubmits <- Once
    IdleKinds = {TRUE}
INVARIANTS OneThreadPerStack
CHECK_DEADLOCK FALSE
