SPECIFICATION RetentionSpec
CONSTANTS
    Events = {1, 2, 3}
    Aggregate = {1, 3}
    BatchSize = 2
    SnapshotFrequency = 1
    Lag = 1
    Lead = 1
    Replays = {r1}
    Limit = 1
    Rules = {x1, x2, x3}
    Archived = {x2}
    Applies = {a1}
    MaxDropped = 2
INVARIANTS IteratesOverAllEvents
