\* One host; the operator may skip one reviewer.
SPECIFICATION Spec
CONSTANTS
    HostOrder <- OneHost
    Workers <- OneHostWorkers
    WorkerOrder <- OneHostOrder
    Arbitrator = "arbitrator"
    Executor = "executor"
    None = "null"
    Drafts <- OneDraft
    Syntheses <- OneSynthesis
    Reports <- OneReport
    Similarity <- TextSimilarity
    MAX_ITERS_PER_ROUND_1 = 2
    MAX_MEDIATION_ATTEMPTS = 1
    OperatorActions <- Skip
    AgentFaults <- NoActions
    MaxOverrides = 1
    MaxRejectedRounds = 0
    MaxNudges = 0
    MaxRounds = 5
    MaxIterations = 8
INVARIANTS
    SkipUnblocks
CHECK_DEADLOCK FALSE
