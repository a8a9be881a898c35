----------------------------- MODULE SessionFlow -----------------------------
(***************************************************************************)
(* What a Delphi session promises while nobody overrides it: a synthesis   *)
(* is executed only with the vote of every reviewer, a rejection sends it  *)
(* back to the arbitrator, and after MaxTurndowns rejected syntheses to    *)
(* the pairs.  No rounds, iterations or inboxes: module Delphi implements  *)
(* this specification.                                                     *)
(***************************************************************************)
EXTENDS Integers

CONSTANTS Reviewers, Syntheses, None, MaxTurndowns

VARIABLES
    phase,       \* what the session waits for
    synthesis,   \* the text under review or execution
    votes,       \* reviewer -> its vote on the synthesis
    turndowns,   \* rejected syntheses so far
    final        \* the prompt that was executed

flow == <<phase, synthesis, votes, turndowns, final>>

NoVotes == [a \in Reviewers |-> "none"]

FlowInit ==
    /\ phase = "none"
    /\ synthesis = None
    /\ votes = NoVotes
    /\ turndowns = 0
    /\ final = None

Opens ==
    /\ phase = "none"
    /\ phase' = "round_1"
    /\ UNCHANGED <<synthesis, votes, turndowns, final>>

PairsAgree ==
    /\ phase = "round_1"
    /\ phase' = "round_2"
    /\ UNCHANGED <<synthesis, votes, turndowns, final>>

PairsFail ==
    /\ phase = "round_1"
    /\ phase' = "escalated"
    /\ UNCHANGED <<synthesis, votes, turndowns, final>>

Synthesizes(t) ==
    /\ phase = "round_2"
    /\ phase' = "round_3"
    /\ synthesis' = t
    /\ UNCHANGED <<votes, turndowns, final>>

\* The vote of a, the last one deciding what becomes of the synthesis.
Votes(a, vote) ==
    LET cast == [votes EXCEPT ![a] = vote]
        all == \A b \in Reviewers : cast[b] # "none"
        unanimous == \A b \in Reviewers : cast[b] = "approve"
    IN  /\ phase = "round_3"
        /\ votes[a] = "none"
        /\ \/ /\ ~all
              /\ votes' = cast
              /\ UNCHANGED <<phase, synthesis, turndowns>>
           \/ /\ all /\ unanimous
              /\ phase' = "executing"
              /\ votes' = NoVotes
              /\ UNCHANGED <<synthesis, turndowns>>
           \/ /\ all /\ ~unanimous
              /\ phase' = IF turndowns < MaxTurndowns THEN "round_2" ELSE "round_1"
              /\ votes' = NoVotes
              /\ synthesis' = None
              /\ turndowns' = turndowns + 1
        /\ UNCHANGED final

Executes ==
    /\ phase = "executing"
    /\ phase' = "complete"
    /\ final' = synthesis
    /\ UNCHANGED <<synthesis, votes, turndowns>>

ExecutionFails ==
    /\ phase = "executing"
    /\ phase' = "escalated"
    /\ synthesis' = None
    /\ UNCHANGED <<votes, turndowns, final>>

FlowNext ==
    \/ Opens \/ PairsAgree \/ PairsFail
    \/ \E t \in Syntheses : Synthesizes(t)
    \/ \E a \in Reviewers, vote \in {"approve", "reject"} : Votes(a, vote)
    \/ Executes \/ ExecutionFails

FlowSpec == FlowInit /\ [][FlowNext]_flow
=============================================================================
