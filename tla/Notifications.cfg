SPECIFICATION Spec
CONSTANTS
    cancelled = cancelled
    R1 = R1
    R2 = R2
    s1 = s1
    s2 = s2
    Slots = {s1, s2}
    Cancellation = cancelled
    Windows = {R1, R2}
    Texts = {R2}
    DueAt <- MCDueAt
    Fan <- MCFan
    Invalid <- MCInvalid
    MaxAttempts = 1
    MaxCopies = 1
    MaxTroubles = 1
    MaxClock = 1
    None = None
CHECK_DEADLOCK FALSE
INVARIANTS
    MailsAccounted
PROPERTIES
    NobodyForgotten
