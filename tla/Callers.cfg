SPECIFICATION CallersSpec
CONSTANTS
    Tasks = {t1, t2, t3, t4, t5}
    Permits = 2
    Consumers = {c1, c2}
    TrackingIds = {e1}
    Calls = {k1, k2, k3}
    Cleanups = 1
INVARIANTS
    PermitsAreConserved
    WaitersMeanFull
    InboxTypeOK
    EffectsFollowRecords
PROPERTIES
    NobodyOvertakes
    IsPermitPool
    EveryWaiterRuns
