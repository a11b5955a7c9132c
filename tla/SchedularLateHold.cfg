\* Two workers, a fiber that holds for an event and may yield afterwards.
SPECIFICATION Spec
CONSTANTS
    w1 = w1
    w2 = w2
    a = a
    b = b
    Workers = {w1, w2}
    Main = Main
    UseCaller = FALSE
    Tasks = {a}
    AnyThread = AnyThread
    NoTask = NoTask
    Pin <- AllAny
    MayHold = {a}
    MayThrow = {}
    MayBeSpawned = {}
    MaxYields = 2
    MaxSubmits <- Once
    IdleKinds = {TRUE}
INVARIANTS YieldAssertHolds
CHECK_DEADLOCK FALSE
