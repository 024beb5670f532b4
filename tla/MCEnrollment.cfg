SPECIFICATION EnrollSpec
CONSTANTS
    Sources = {s1, s2}
    Attempts = {a1, a2, a3}
    LockoutThreshold = 2
    LockoutBase = 2
    LockoutMax = 3
    MaxShift = 1
    Width = 4
    AttemptWindow = 5
    MaxHash = 1
INVARIANTS
    LockMatchesFailures
    BurstBounded
PROPERTIES
    LocksRunOut
