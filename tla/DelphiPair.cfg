\* Two hosts, one mediation-free pass with every kind of draft.
SPECIFICATION Spec
CONSTANTS
    HostOrder <- TwoHosts
    Workers <- TwoHostWorkers
    WorkerOrder <- TwoHostOrder
    Arbitrator = "arbitrator"
    Executor = "executor"
    None = "null"
    Drafts <- ThreeDrafts
    Syntheses <- OneSynthesis
    Reports <- OneReport
    Similarity <- TextSimilarity
    MAX_ITERS_PER_ROUND_1 = 3
    MAX_MEDIATION_ATTEMPTS = 1
    OperatorActions <- NoActions
    AgentFaults <- NoActions
    MaxOverrides = 0
    MaxRejectedRounds = 0
    MaxNudges = 0
    MaxRounds = 5
    MaxIterations = 12
INVARIANTS
    HostIsolation
    RelayUnbroken
    ArbitratesConvergedOutcomes
CHECK_DEADLOCK FALSE
