\* One host; the operator may abort once while the agents go on working.
SPECIFICATION Spec
CONSTANTS
    HostOrder <- OneHost
    Workers <- OneHostWorkers
    WorkerOrder <- OneHostOrder
    Arbitrator = "arbitrator"
    Executor = "executor"
    None = "null"
    Drafts <- OneDraft
    Syntheses <- OneSynthesis
    Reports <- OneReport
    Similarity <- TextSimilarity
    MAX_ITERS_PER_ROUND_1 = 3
    MAX_MEDIATION_ATTEMPTS = 1
    OperatorActions <- Abort
    AgentFaults <- NoActions
    MaxOverrides = 1
    MaxRejectedRounds = 0
    MaxNudges = 0
    MaxRounds = 5
    MaxIterations = 8
PROPERTIES
    NoDispatchAfterAbort
CHECK_DEADLOCK FALSE
