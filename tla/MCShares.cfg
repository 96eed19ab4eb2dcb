SPECIFICATION Spec
CONSTANTS
    Codes = {s1}
    Clients = {c1, c2}
    UnlockTTL = 1
    MaxTime = 2
    MaxCap = 1
    MaxRestarts = 1
    MaxStarts = 1
    Never = Never
    Absent = Absent
SYMMETRY Symmetry
INVARIANTS
    TypeOK
    CapHolds
    UnlockedHere
PROPERTIES RevokedIsFinal ExpiryIsFinal
