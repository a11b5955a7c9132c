\* Two fibers with descriptors of their own, whose numbers are reused; both need the table to grow.
SPECIFICATION FairSpec
CONSTANTS
    f1 = f1
    f2 = f2
    f3 = f3
    t1 = t1
    t2 = t2
    Fibers = {f1, f2}
    IOThreads = {t1}
    Fds = {1, 2}
    NoFd = 0
    NoFiber = NoFiber
    InitSize = 1
    MaxGen = 2
    Shared = FALSE
INVARIANTS RegisteredWatched RegisteredInTable AddEventAssertHolds
PROPERTIES ReadyFiberResumes
