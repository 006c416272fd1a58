SPECIFICATION Spec
CONSTANTS
    e1 = e1
    e2 = e2
    u1 = u1
    v1 = v1
    x1 = x1
    b1 = b1
    b2 = b2
    k1 = k1
    k2 = k2
    w1 = w1
    w2 = w2
    Patches = {e1}
    Deletes = {x1}
    Uploads = {u1}
    Removals = {v1}
    Publishes = {b1, b2}
    Cancellations = {k1}
    Sweeps = {w1}
    MaxTime = 2
    MaxInFlight = 2
    MaxCrashes = 1
CHECK_DEADLOCK FALSE
PROPERTIES
    CancellationSticks
    FrozenAfterDraft
    DueIsPublished
