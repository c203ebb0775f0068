SPECIFICATION FairPoolSpec
CONSTANTS
    Calls = {c1, c2}
    Keys = {k1, k2}
    Entries = {e1, e2, e3}
    NoEntry = NoEntry
    NoCall = NoCall
    MaxSize = 1
    MaxAttempts = 1
INVARIANT PoolBounded
INVARIANT FailedNotReused
INVARIANT RunsBounded
PROPERTY NotCutOff
PROPERTY CallsEnd
