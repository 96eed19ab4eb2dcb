SPECIFICATION Spec
CONSTANTS
    Specs <- DropSpec
    Quotas = {0, 1}
    CacheLag = TRUE
    RotatedAt0 = 0
    Interval = 1
    Overlap = 1
    MaxKeys = 3
    MaxTime = 2
    MaxEdits = 3
    MaxFaults = 1
INVARIANT TypeOK
PROPERTY KeysAreKept
CHECK_DEADLOCK FALSE
