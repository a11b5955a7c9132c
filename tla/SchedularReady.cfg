\* Two workers and the caller, either idle(), a task that tasks may schedule and one pinned to the caller, no events.
SPECIFICATION FairSpec
CONSTANTS
    w1 = w1
    w2 = w2
    a = a
    b = b
    Workers = {w1, w2}
    Main = Main
    UseCaller = TRUE
    Tasks = {a, b}
    AnyThread = AnyThread
    NoTask = NoTask
    Pin <- PinB
    MayHold = {}
    MayThrow = {}
    MayBeSpawned = {a}
    MaxYields = 1
    MaxSubmits <- Once
    IdleKinds = {TRUE, FALSE}
INVARIANTS ActiveExact OneThreadPerStack OnePlace StopDrains FirstRunPinned
PROPERTIES TaskCompletes StopCompletes
CHECK_DEADLOCK FALSE
