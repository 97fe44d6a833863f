SPECIFICATION PlaneSpec
CONSTANTS
    Events = {e1, e2}
    Calls = {c1, c2}
    Toggles = {t1, t2}
    MaxChanges = 3
    Requests = {q1}
    Bloats = {b1, b2}
    Retries = 2
    MaxProducers = 3
    MaxRemovals = 2
INVARIANTS PlaneTypeOK NothingIsMissed LossIsBounded SnapshotMissesNothing
    BloatIsTransient OrphansAreBounded
SYMMETRY Symmetry
