SPECIFICATION Spec
CONSTANTS
    Events = {1, 2}
    NoToken = NoToken
    NoSlot = NoSlot
    Tokens = {w1}
    Workers = {w1}
    Slots = {s1, s2}
    MaxRetries = 0
    BatchSize = 2
    Concurrency = 1
    Limit <- StatementFaults
SYMMETRY InstanceSymmetry
INVARIANTS
    TypeOK
    CompletedWasDelivered
PROPERTIES
    AtLeastOnceDelivery
