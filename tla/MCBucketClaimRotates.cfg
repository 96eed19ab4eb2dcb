SPECIFICATION FairSpec
CONSTANTS
    Specs <- TimedSpec
    Quotas = {0, 1}
    CacheLag = FALSE
    RotatedAt0 <- NotRotated
    Interval = 1
    Overlap = 1
    MaxKeys = 2
    MaxTime = 2
    MaxEdits = 1
    MaxFaults = 0
PROPERTY Rotates
CHECK_DEADLOCK FALSE
