SPECIFICATION FairSpec
CONSTANTS
    QueueSize = 2
    DrainBatchMax = 2
    MaxAge = 1
    MaxEvents = 3
    MaxTime = 3
INVARIANTS TypeOK InOnePlace KeptForMaxAge
PROPERTY QueueIsDrained
CHECK_DEADLOCK FALSE
