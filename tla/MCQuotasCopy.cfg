SPECIFICATION Spec
CONSTANTS
    Writers = {w1}
    Admins = {}
    Scheduler = s1
    Recompute = {}
    LastKey = 2
    MaxSize = 1
    MaxLimit = 1
    MaxEvents = 2
    Absent = Absent
PROPERTY OnlyCheckedWrites
CHECK_DEADLOCK FALSE
