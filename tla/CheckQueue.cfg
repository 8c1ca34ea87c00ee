CONSTANTS
    w1 = w1
    w2 = w2
    c1 = c1
    c2 = c2
    c3 = c3
    Workers <- MCWorkers
    Master = m
    Checks <- MCChecks
    Bad <- MCBad
    nBatchSize = 2

SPECIFICATION Spec

INVARIANTS
    VerdictIsRight
    QueueIsDrained

PROPERTIES
    WaitReturns
    StopEnds
