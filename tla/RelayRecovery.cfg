SPECIFICATION FairSpec
CONSTANTS
    Events = {1}
    NoToken = NoToken
    Tokens = {p1, n1}
    PollingRelays = {p1}
    NotifyRelays = {n1}
    TokenOf <- OwnToken
    NoRelay = NoRelay
    NoEvent = NoEvent
    Slots = {s1, s2}
    NoSlot = NoSlot
    MaxRetries = 1
    BatchSize = 1
    FaultBudget = 2
PROPERTIES
    StaleAttemptsAreFenced
    AtLeastOnceDelivery
    EveryEventSettles
