SPECIFICATION Spec
CONSTANTS
    Events = {1, 2, 3}
    NoToken = NoToken
    Tokens = {n1}
    PollingRelays = {}
    NotifyRelays = {n1}
    TokenOf <- OwnToken
    NoRelay = NoRelay
    NoEvent = NoEvent
    Slots = {s1, s2}
    NoSlot = NoSlot
    MaxRetries = 0
    BatchSize = 2
    FaultBudget = 2
SYMMETRY SlotSymmetry
INVARIANTS
    TypeOK
    FreshEventsAreNoticed
