SPECIFICATION Spec
CONSTANTS
    Events = {1, 2}
    NoToken = NoToken
    NoSlot = NoSlot
    Tokens = {w1}
    Workers = {w1}
    Slots = {s1}
    MaxRetries = 1
    BatchSize = 2
    Concurrency = 1
    Limit <- LateHeartbeat
PROPERTIES
    PublishesUnderLease
