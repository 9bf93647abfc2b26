CONSTANTS
    t1 = t1
    t2 = t2
    t3 = t3
    Workers = {w1, w2}
    Tasks = {t1, t2, t3}
    Period <- MCPeriod
    MaxTime = 4
    NoTask = NoTask
SPECIFICATION FairSpec
INVARIANTS
    ExactlyOnePlace
    Punctual
    LookedAfter
PROPERTY
    ImplementsPeriodicTasks
    DueTaskRuns
    DestructorReturns
