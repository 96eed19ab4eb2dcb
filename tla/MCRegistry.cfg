SPECIFICATION FairSpec
CONSTANTS
    Admins = {a1}
    MaxVer = 6
    MaxRestarts = 1
INVARIANTS TypeOK ConfigWins RowFollowed
PROPERTY Mirrored
CHECK_DEADLOCK FALSE
