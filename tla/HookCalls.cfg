\* Two fibers, two descriptor numbers.
SPECIFICATION FairSpec
CONSTANTS
    f1 = f1
    f2 = f2
    Fibers = {f1, f2}
    Fds = {1, 2}
    NoFd = 0
    NoFiber = NoFiber
    NoCxt = NoCxt
    SocketFds = {1}
    IOEvents = {"READ"}
    MaxCalls = 2
    MaxOptions = 1
    MaxStale = 1
INVARIANTS LeavesNothing HoldsHaveAWaker ThreadNotBlocked
PROPERTIES ConnectExact ImplementsBlockingCall CallReturns
