\* One host, every operator intervention and every agent fault, two executions
\* that may report differently.
SPECIFICATION Spec
CONSTANTS
    HostOrder <- OneHost
    Workers <- OneHostWorkers
    WorkerOrder <- OneHostOrder
    Arbitrator = "arbitrator"
    Executor = "executor"
    None = "null"
    Drafts <- OneDraft
    Syntheses <- OneSynthesis
    Reports = {report1, report2}
    Similarity <- TextSimilarity
    MAX_ITERS_PER_ROUND_1 = 2
    MAX_MEDIATION_ATTEMPTS = 1
    OperatorActions <- EveryOverride
    AgentFaults <- EveryFault
    MaxOverrides = 2
    MaxRejectedRounds = 1
    MaxNudges = 0
    MaxRounds = 5
    MaxIterations = 8
SYMMETRY ReportSymmetry
INVARIANTS
    TypeOK
    HostIsolation
    NumberedInOrder
    MediationBudget
PROPERTIES
    FinalPromptFrozen
    TranscriptGrows
CHECK_DEADLOCK FALSE
