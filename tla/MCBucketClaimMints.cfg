SPECIFICATION Spec
CONSTANTS
    Specs <- PlainSpec
    Quotas = {0, 1}
    CacheLag = TRUE
    RotatedAt0 <- NotRotated
    Interval = 1
    Overlap = 1
    MaxKeys = 2
    MaxTime = 0
    MaxEdits = 1
    MaxFaults = 0
INVARIANT MintReuses
CHECK_DEADLOCK FALSE
