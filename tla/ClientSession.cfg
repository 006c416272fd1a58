SPECIFICATION Spec
CONSTANTS
    t1 = t1
    t2 = t2
    c1 = c1
    c2 = c2
    f1 = f1
    None = None
    Tabs = {t1, t2}
    Calls = {c1, c2, f1}
    Forms = {f1}
    TabOf <- MCTabOf
    MaxSessions = 2
    MaxLapses = 2
    MaxMishaps = 1
CHECK_DEADLOCK FALSE
PROPERTIES
    KeptSignedIn
    EveryCallEnds
