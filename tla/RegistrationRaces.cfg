SPECIFICATION Spec
CONSTANTS
    p1 = p1
    p2 = p2
    p3 = p3
    p4 = p4
    p5 = p5
    r1 = r1
    r2 = r2
    r3 = r3
    r4 = r4
    r5 = r5
    c1 = c1
    c2 = c2
    c3 = c3
    None = None
    Stamps = {0, 1, 2, 3, 4}
    Participants = {p1, p2, p3}
    Registers = {r1, r2, r3}
    Cancels = {c1, c2, c3}
    Capacity = 1
    MaxInFlight = 6
    MaxCrashes = 1
    ClockSteps = {1}
    Owner <- MCOwnerTwice
CHECK_DEADLOCK FALSE
SYMMETRY MCSymmetryTwice
INVARIANTS
    OneActivePerParticipant
    TicketsMatchRows
    RevocationUnderWay
    NoticesTruthful
