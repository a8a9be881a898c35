\* One host, mediation to execution, with the operator nudging, aborting or
\* skipping reviewers while requests are being answered.
SPECIFICATION Spec
CONSTANTS
    HostOrder <- OneHost
    Workers <- OneHostWorkers
    WorkerOrder <- OneHostOrder
    Arbitrator = "arbitrator"
    Executor = "executor"
    None = "null"
    Drafts <- OneDraft
    Syntheses <- TwoSyntheses
    Reports <- OneReport
    Similarity <- TextSimilarity
    MAX_ITERS_PER_ROUND_1 = 2
    MAX_MEDIATION_ATTEMPTS = 1
    OperatorActions <- WithoutOverrides
    AgentFaults <- NoActions
    MaxOverrides = 1
    MaxRejectedRounds = 1
    MaxNudges = 1
    MaxRounds = 10
    MaxIterations = 14
INVARIANTS
    ApprovedBeforeExecution
    ReviewShowsSynthesis
    OneStage
    FinalPromptWasExecuted
    MediationCarriesRejections
CHECK_DEADLOCK FALSE
