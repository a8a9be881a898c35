SPECIFICATION Spec
CONSTANTS
    Agents = {pi, dev}
    Orchestrator = pi
    Artifacts = {text1, text2}
    NoArtifact = NoArtifact
    Calls = {c1, c2}
    MaxDispatches = 2
    MaxAggregations = 2
    MaxRequests = 3
INVARIANTS
    TypeOK
    CompletedAfterDone
    AuditTellsHistory
PROPERTIES
    OnlyOvertakenActAfterEnd
CHECK_DEADLOCK FALSE
