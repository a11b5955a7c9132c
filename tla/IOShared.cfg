\* Three fibers that read, write and close one descriptor, two polling threads.
SPECIFICATION Spec
CONSTANTS
    f1 = f1
    f2 = f2
    f3 = f3
    t1 = t1
    t2 = t2
    Fibers = {f1, f2, f3}
    IOThreads = {t1, t2}
    Fds = {1}
    NoFd = 0
    NoFiber = NoFiber
    InitSize = 2
    MaxGen = 1
    Shared = TRUE
INVARIANTS PendingExact OneWakeUp EpollAgrees
CHECK_DEADLOCK FALSE
