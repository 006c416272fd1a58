SPECIFICATION PSpec
CONSTANTS
    MaxEntries = 7
    MaxReports = 3
    MaxOrders = 4
    Labels = {l1, l2}
    Bursts = {1, 19, 30}
    Counts <- CountsTaken
    Backlogs = {0, 15, 16}
    MaxCalls = 3
    MaxMistakes = 3
    MaxExecuted = 9
    MaxBootAttempts = 2
    Retries = 2
    MaxTroubles = 1
    CatalogueSize = 1
    MaxChanges = 2
    MaxSeeds = 2
    participant = participant
    organizer = organizer
    admin = admin
    stranger = stranger
    mine = mine
    other = other
    r1 = r1
    r2 = r2
    n1 = n1
    MaxMoves = 2
    Participant = participant
    Organizer = organizer
    Admin = admin
    Mine = {mine}
    Others = {other}
    Rows = {r1, r2}
    Holder <- HolderOf
    EventOf <- EventAt
    Notices = {n1}
    Recipient <- RecipientOf
CHECK_DEADLOCK FALSE
INVARIANTS
    TrailIsCurrent
    AlertsJustified
    CompletedIsSound
    DemoConnected
    RoutesServed
    AnswersFit
PROPERTIES
    FinalStaysFinal
    ResolvedIsSettled
    TicketFollows
    PlatformRecovers
    NotReadyMeansAway
