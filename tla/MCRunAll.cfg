CONSTANTS
    TaskCounts <- MCTaskCounts
    WorkerCounts <- MCWorkerCounts
    TasksMayThrow = TRUE
    Launched <- MCLaunched
SPECIFICATION FairSpec
INVARIANTS
    AtMostOnce
    ReturnMeansCovered
    NoSliceOutlivesCall
PROPERTY CallEnds
CHECK_DEADLOCK FALSE
