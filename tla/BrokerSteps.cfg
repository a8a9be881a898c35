\* One host, every operator request on two threads beside the event loop, and
\* one crash.  MaxOverrides and MaxNudges belong to the actions of module Delphi,
\* which this specification does not take.
SPECIFICATION StepsSpec
CONSTANTS
    HostOrder <- OneHost
    Workers <- OneHostWorkers
    WorkerOrder <- OneHostOrder
    Arbitrator = "arbitrator"
    Executor = "executor"
    None = "null"
    Drafts <- OneDraft
    Syntheses <- OneSynthesis
    Reports <- OneReport
    Similarity <- TextSimilarity
    MAX_ITERS_PER_ROUND_1 = 2
    MAX_MEDIATION_ATTEMPTS = 1
    OperatorActions <- EveryAction
    AgentFaults <- NoActions
    MaxOverrides = 0
    MaxRejectedRounds = 1
    MaxNudges = 0
    MaxRounds = 4
    MaxIterations = 6
    Loop = "loop"
    Desk = {desk1, desk2}
    Cost <- Costs
    MaxCost = 2
    MaxCrashes = 1
INVARIANTS
    StepsTypeOK
    StatusFollowsTables
    NumberedUnlessOvertaken
    SoundWhenUndisturbed
PROPERTIES
    AcceptedStands
SYMMETRY Interchangeable
CHECK_DEADLOCK FALSE
