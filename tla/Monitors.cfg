SPECIFICATION HealthSpec
CONSTANTS
    Events = {e1, e2, e3}
    Producers = {p1, p2}
    MaxBacklogSize = 1
    Checks = {c1, c2}
    DeadLetterThreshold = 1
    MaxPendingForHealthy = 1
    MaxPendingForDegraded = 2
    MaxDeadLetterForHealthy = 1
    RestartThreshold = 1
    Monitors = {m1, m2}
    MaxLapses = 4
INVARIANTS HealthTypeOK OvershootIsBounded AlertsPerCooldown RecoveriesWereLapses
PROPERTIES DeadLettersAreNotHidden VerdictsAreJustified
SYMMETRY Symmetry
