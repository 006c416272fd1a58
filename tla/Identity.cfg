SPECIFICATION Spec
CONSTANTS
    g1 = g1
    g2 = g2
    l1 = l1
    l2 = l2
    f1 = f1
    f2 = f2
    f3 = f3
    q1 = q1
    q2 = q2
    r1 = r1
    r2 = r2
    Seed = Seed
    Nothing = Nothing
    SeedStatuses = {"none", "LOCKED"}
    Registers = {g1, g2}
    Logins = {l1}
    Refreshes = {f1, f2}
    Forgots = {q1, q2}
    Resets = {r1, r2}
    RefreshTtl = 2
    ResetTtl = 1
    MaxNow = 2
    MaxInFlight = 2
    MaxFaults = 1
SYMMETRY Symmetry
CHECK_DEADLOCK FALSE
INVARIANTS
    ResetTokenOnce
    ResetTruthful
    EarlierSessionsEnd
    OldPasswordRefused
    ExchangedOnce
    NoDeadlock
