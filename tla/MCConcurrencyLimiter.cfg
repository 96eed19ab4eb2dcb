SPECIFICATION FairSpec
CONSTANTS
    Reqs = {r1, r2, r3, r4}
    Keys = {a, b}
    GlobalMax = 3
    PerMax = 2
    None = None
INVARIANTS TypeOK TokensOwned InFlightBounded GreedyNeverFills
PROPERTY EveryRequestAnswered
