---------------------------- MODULE MCBrokerSteps ----------------------------
(***************************************************************************)
(* The instance of the statement-level model for TLC.                      *)
(***************************************************************************)
EXTENDS MCDelphi, BrokerStepsProperties, TLC

Interchangeable == Permutations(Desk)

EveryAction == OperatorActionKinds
Costs == [k \in OperatorActionKinds |-> IF k = "skip_agent" THEN 1 ELSE 2]
=============================================================================
