SPECIFICATION Spec
CONSTANTS
    Events = {1, 2}
    NoToken = NoToken
    NoSlot = NoSlot
    Tokens = {w1, w2}
    Workers = {w1, w2}
    Slots = {s1}
    MaxRetries = 1
    BatchSize = 2
    Concurrency = 1
    Limit <- LeaseFaults
SYMMETRY WorkerSymmetry
INVARIANTS
    LockDiscipline
    RetriesAreBounded
    HeartbeatsEnd
PROPERTIES
    LiveLeaseIsExclusive
    FinalStates
    AtLeastOnceDelivery
