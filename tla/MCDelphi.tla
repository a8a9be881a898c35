------------------------------ MODULE MCDelphi ------------------------------
(***************************************************************************)
(* Instances of the Delphi workflow for TLC: the registries and the texts. *)
(***************************************************************************)
EXTENDS DelphiProperties, TLC

OneHost == <<"dev">>
OneHostWorkers == [h \in {"dev"} |-> <<"dev-claude", "dev-codex">>]
OneHostOrder == <<"dev-claude", "dev-codex">>

TwoHosts == <<"dev", "prod">>
TwoHostWorkers ==
    [h \in {"dev", "prod"} |->
        IF h = "dev" THEN <<"dev-claude", "dev-codex">>
        ELSE <<"prod-claude", "prod-codex">>]
TwoHostOrder == <<"dev-claude", "dev-codex", "prod-claude", "prod-codex">>

OneSynthesis == {"syn1"}
TwoSyntheses == {"syn1", "syn2"}
OneReport == {"report"}

\* The executor's reports are opaque: no handler compares them.
ReportSymmetry == Permutations(Reports)

\* draft1 and draft2 differ but reconcile, draft3 is unlike both.
OneDraft == {"draft1"}
TwoDrafts == {"draft1", "draft2"}
ThreeDrafts == {"draft1", "draft2", "draft3"}

Alike(a, b) ==
    IF a = b THEN 100
    ELSE IF {a, b} = {"draft1", "draft2"} THEN 60 ELSE 10

TextSimilarity == [p \in Texts \X Texts |-> Alike(p[1], p[2])]

NoActions == {}
WithoutOverrides == {"nudge", "abort", "resolve_abort", "skip_agent"}
Abort == {"abort"}
Retry == {"retry"}
Skip == {"skip_agent"}
EveryOverride == OperatorActionKinds \ {"nudge"}
EveryFault == AgentFaultKinds
=============================================================================
