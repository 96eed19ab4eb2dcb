SPECIFICATION FairSpec
CONSTANTS
    Writers = {w1, w2}
    Admins = {a1}
    Scheduler = s1
    Recompute = {}
    LastKey = 2
    MaxSize = 1
    MaxLimit = 1
    MaxEvents = 2
    Absent = Absent
INVARIANTS TypeOK OneInlineScan UsageCovers
PROPERTY DriftCorrected
CHECK_DEADLOCK FALSE
