SPECIFICATION FairSpec
CONSTANTS
    once = once
    interval = interval
    woken = woken
    other = other
    Jobs = {once, interval}
    OnceJobs = {once}
    Callers = {woken, other}
    Woken = woken
    Idle = Idle
    Every <- MCEvery
    TicksPerSecond = 2
    Heartbeat = 3
    MinWait = 1
    Horizon = 4
    MaxCrashes = 1
INVARIANTS
    TypeOK
    OnceFiresOnce
    QuietCancelSticks
PROPERTIES
    IntervalSpacing
    KeepsLedger
    OnceEventuallyHandled
