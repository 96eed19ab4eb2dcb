SPECIFICATION FairSpec
CONSTANTS
    Specs <- AllSpecs
    Quotas = {0, 1}
    CacheLag = FALSE
    RotatedAt0 <- NotRotated
    Interval = 1
    Overlap = 1
    MaxKeys = 3
    MaxTime = 0
    MaxEdits = 4
    MaxFaults = 2
INVARIANTS NoOrphans MintReuses ReadyIsUsable
PROPERTIES DataIsKept Provisioned Finalized
CHECK_DEADLOCK FALSE
