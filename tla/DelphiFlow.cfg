\* One host, everything from the problem through mediation and restart to
\* execution; agents follow their inbox and the operator only opens the session.
SPECIFICATION FairSpec
CONSTANTS
    HostOrder <- OneHost
    Workers <- OneHostWorkers
    WorkerOrder <- OneHostOrder
    Arbitrator = "arbitrator"
    Executor = "executor"
    None = "null"
    Drafts <- OneDraft
    Syntheses <- TwoSyntheses
    Reports <- OneReport
    Similarity <- TextSimilarity
    MAX_ITERS_PER_ROUND_1 = 2
    MAX_MEDIATION_ATTEMPTS = 1
    OperatorActions <- NoActions
    AgentFaults <- NoActions
    MaxOverrides = 0
    MaxRejectedRounds = 2
    MaxNudges = 0
    MaxRounds = 10
    MaxIterations = 14
INVARIANTS
    SomebodyIsAsked
PROPERTIES
    Settles
    ImplementsFlow
CHECK_DEADLOCK FALSE
