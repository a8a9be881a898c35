SPECIFICATION Spec
CONSTANTS
    Agents = {pi, dev}
    Orchestrator = pi
    Artifacts = {text1}
    NoArtifact = NoArtifact
    Calls = {c1}
    MaxDispatches = 1
    MaxAggregations = 1
    MaxRequests = 1
INVARIANTS
    WorkersAreHeard
CHECK_DEADLOCK FALSE
