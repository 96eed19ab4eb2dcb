SPECIFICATION Spec
CONSTANTS
    Users = {u1}
    Sids = {s1}
    Procs = {p1, p2}
    Roles = {"admin", "user"}
    Lifetime = 2
    IdleTimeout = 20
    TTL = 1
    MaxTime = 0
    MaxChanges = 1
    Absent = Absent
INVARIANT ChangeSeenByNextRequest
