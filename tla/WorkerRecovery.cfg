SPECIFICATION FairSpec
CONSTANTS
    Events = {1}
    NoToken = NoToken
    NoSlot = NoSlot
    Tokens = {w1, w2}
    Workers = {w1, w2}
    Slots = {s1, s2}
    MaxRetries = 1
    BatchSize = 1
    Concurrency = 1
    Limit <- RestartFaults
INVARIANTS
    SingleOwner
PROPERTIES
    EveryEventSettles
