SPECIFICATION GaugeSpec
CONSTANTS
    Callers = {c1, c2, c3}
    BreakerThreshold = 3
    BreakerCooldown = 2
    BreakerHalfOpenProbes = 2
INVARIANTS
    ProbeSlotHeld
    CountersMatchState
PROPERTIES
    NotRefusedForever
    RecoveryShown
