SPECIFICATION CSpec
CONSTANTS
    p1 = p1
    p2 = p2
    r1 = r1
    r2 = r2
    c1 = c1
    None = None
    Participants = {p1, p2}
    Registers = {r1, r2}
    Cancels = {c1}
    Capacity = 1
    MaxInFlight = 1
    MaxCrashes = 1
    ClockSteps = {1}
    MaxAttempts = 2
    MaxLosses = 1
    Owner <- MCOwner
CHECK_DEADLOCK FALSE
INVARIANTS
    ToldOnce
PROPERTIES
    EveryoneIsTold
