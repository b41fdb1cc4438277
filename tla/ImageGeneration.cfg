\* Two requests of any kind, two workers, one of which is killed.
SPECIFICATION FairSpec
CONSTANTS
    desktop = desktop
    mobile = mobile
    q1 = q1
    q2 = q2
    w1 = w1
    w2 = w2
    Breakpoint <- MCBreakpoints
    Request <- MCRequests
    Worker <- MCWorkers
    MaxAttempts = 2
    MaxKills = 1
INVARIANTS TypeOK CalmShowsLatest CalmOneWorker
CONSTRAINT MCCalm
PROPERTY Settles
CHECK_DEADLOCK FALSE
