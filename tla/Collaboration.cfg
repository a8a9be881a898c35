\* Two agents and two operator requests in flight, over two drafts of one
\* content, which an edit may replace by another.
SPECIFICATION FairSpec
CONSTANTS
    Agents = {a1, a2}
    Operator = operator
    Contents = {x, y}
    Submitted = {x}
    NoContent = none
    Correlations = {k}
    Calls = {c1, c2}
    PollLimit = 1
    MaxDrafts = 2
    MaxRequests = 2
INVARIANTS
    TypeOK
    DisclosedOnlyAsDecided
    AuthorsWereInvited
    CorrelationsAreUnique
    RepliesAreTruthful
PROPERTIES
    RulingsAreFinal
    ImplementsGate
    EventuallyAcked
CHECK_DEADLOCK FALSE
