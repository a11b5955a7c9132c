\* One idle thread and a user of timers; a one-shot and a recurring timer.
SPECIFICATION Spec
CONSTANTS
    io1 = io1
    io2 = io2
    user = user
    IOThreads = {io1}
    OtherThreads = {user}
    Timers = {1, 2}
    Recurring = {2}
    Periods = {1, 4}
    MaxWait = 2
    IntSpan = 8
    UintSpan = 64
    Hour = 4
    Boot = 4
    MaxTime = 10
INVARIANTS ArmedIffMember FirstTimerCovered
