SPECIFICATION InboxSpec
CONSTANTS
    Consumers = {c1, c2}
    TrackingIds = {e1}
    Calls = {k1, k2}
    Cleanups = 0
PROPERTIES
    IdempotencyIsPerConsumer
