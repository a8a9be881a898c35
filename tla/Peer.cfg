SPECIFICATION FairSpec
CONSTANTS
    Participants = {p, q}
    Editions <- Migration
    Operator = p
    PollLimit = 2
    MaxMessages = 2
    MaxEvents = 2
INVARIANTS
    TypeOK
    AuditMatchesReceipts
    GovernedStayOut
    TranscriptIsWitnessed
PROPERTIES
    ImplementsMailbox
    EventuallyReceived
