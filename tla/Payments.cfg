SPECIFICATION Spec
CONSTANTS
    s1 = s1
    s2 = s2
    m1 = m1
    m2 = m2
    m3 = m3
    m4 = m4
    m5 = m5
    d1 = d1
    d2 = d2
    c1 = c1
    None = None
    Sessions = {s1, s2}
    Messages = {m1, m2, m3}
    Deliveries = {d1, d2}
    Cancels = {c1}
    Loads = {1, 3}
    MaxCrashes = 1
    About <- MCAbout
    Says <- MCSays
CHECK_DEADLOCK FALSE
INVARIANTS
    NoTicketWithoutPayment
    CancellationRevokes
    PaidMeansTicket
PROPERTIES
    PaymentSettles
