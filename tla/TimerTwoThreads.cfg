\* Two idle threads that also use timers, two one-shot timers.
SPECIFICATION FairSpec
CONSTANTS
    io1 = io1
    io2 = io2
    user = user
    IOThreads = {io1, io2}
    OtherThreads = {}
    Timers = {1, 2}
    Recurring = {}
    Periods = {1}
    MaxWait = 1
    IntSpan = 16
    UintSpan = 64
    Hour = 3
    Boot = 3
    MaxTime = 6
INVARIANTS OneOutcome
PROPERTIES NotEarly TimerFires
