\* A timed call whose timer fires early.
SPECIFICATION Spec
CONSTANTS
    f1 = f1
    f2 = f2
    Fibers = {f1}
    Fds = {1}
    NoFd = 0
    NoFiber = NoFiber
    NoCxt = NoCxt
    SocketFds = {1}
    IOEvents = {"READ"}
    MaxCalls = 1
    MaxOptions = 1
    MaxStale = 0
INVARIANTS TimedWaitEnds
