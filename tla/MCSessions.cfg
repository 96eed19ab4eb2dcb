SPECIFICATION Spec
CONSTANTS
    Users = {u1}
    Sids = {s1}
    Procs = {p1, p2}
    Roles = {"user"}
    Lifetime = 2
    IdleTimeout = 2
    TTL = 1
    MaxTime = 3
    MaxChanges = 1
    Absent = Absent
SYMMETRY Symmetry
INVARIANTS
    TypeOK
    StaleEntryBounded
    RevokedEntryBounded
PROPERTY RevokedStaysRevoked
