SPECIFICATION HistorySpec
CONSTANTS
    Callers = {c1, c2, c3}
    BreakerThreshold = 2
    BreakerCooldown = 1
    BreakerHalfOpenProbes = 2
    Burst = 1
    MaxDebt = 2
    MaxWait = 1
    MaxPause = 2
    MaxAsk = 3
    BackoffBase = 1
    BackoffMax = 2
    MaxFailures = 2
SYMMETRY CallerSymmetry
INVARIANTS
    ReleasedOnce
    SlotsDistinct
    OnlyEarlierCallsDuringPause
PROPERTY RefinesBreaker
