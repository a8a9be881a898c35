-------------------------- MODULE DelphiProperties --------------------------
(***************************************************************************)
(* What the Delphi workflow of module Delphi should guarantee.             *)
(*                                                                         *)
(* The first group survives every operator intervention and agent fault.   *)
(* The second holds while the agents follow their inbox and the operator   *)
(* limits itself to nudging, skipping a reviewer before the reviews are in *)
(* and aborting.  The last group is what the documents claim.              *)
(***************************************************************************)
EXTENDS Delphi

IsType(r, type) == rounds[r].type = type
Open(i) == iters[i].status \in {"awaiting_nudge", "awaiting_destination"}
InProgress == {r \in DOMAIN rounds : rounds[r].status = "in_progress"}

-----------------------------------------------------------------------------
(***************************************************************************)
(* Under every intervention and fault.                                     *)
(***************************************************************************)
\* The hosts iterate in isolation (workflow.py, _advance_round_1 and
\* _retry_iteration): a worker is only ever handed the problem or something
\* written before in its own round, and only the pair of the host works on it.
HostIsolation ==
    \A i \in DOMAIN iters :
        LET it == iters[i]
        IN  IsType(it.round, "same_host_pair") =>
                /\ it.dst \in Elements(Workers[rounds[it.round].host])
                /\ it.input.kind = "draft" =>
                       \E j \in IterationsOf(iters, it.round) :
                           /\ j < i
                           /\ iters[j].output = it.input.text

\* Iterations of a round are numbered 1, 2, ... in the order they are created,
\* so that the last number is the latest answer the convergence rule looks at
\* (workflow.py, _spawn_iteration).
NumberedInOrder ==
    \A i \in DOMAIN iters :
        iters[i].num = Cardinality({j \in IterationsOf(iters, iters[i].round) : j <= i})

\* The arbitrator is asked to mediate at most MAX_MEDIATION_ATTEMPTS times in
\* the life of a session, whatever is reviewed, retried or forced (workflow.py,
\* on_review_emitted and _mediation_attempt_count).  A retry of a mediation
\* repeats it in its round, and is not another one.
MediationBudget ==
    \A i \in DOMAIN iters :
        iters[i].input.kind = "mediate" /\ iters[i].num = 1 =>
            Cardinality({q \in RoundsOfType(rounds, "cross_host_arbitration") :
                             q < iters[i].round}) <= MAX_MEDIATION_ATTEMPTS

\* The finalized prompt is written once: a retried or repeated execution,
\* whatever it reports, or a session that arbitrates again, leaves it alone
\* (workflow.py, on_executor_emitted).
FinalPromptFrozen ==
    [][finalized # None => finalized' = finalized]_vars

\* An answer that was recorded is never rewritten: the transcript only grows,
\* and a completed request never opens again.
TranscriptGrows ==
    [][/\ Len(iters') >= Len(iters)
       /\ Len(rounds') >= Len(rounds)
       /\ reviews \subseteq reviews'
       /\ \A i \in DOMAIN iters : iters[i].status = "complete" => iters'[i] = iters[i]]_vars

-----------------------------------------------------------------------------
(***************************************************************************)
(* While the agents follow their inbox and the operator overrides nothing. *)
(***************************************************************************)
\* The executor is only handed a synthesis that every reviewer still expected
\* approved and none rejected, exactly as it was put before them
\* (workflow.py, on_review_emitted and _spawn_execute_round).
ApprovedBeforeExecution ==
    \A e \in DOMAIN iters : IsType(iters[e].round, "execute") =>
        \E r \in RoundsOfType(rounds, "multi_agent_review") :
            /\ r < iters[e].round
            /\ ExpectedReviewers \subseteq ReviewersOf(reviews, r)
            /\ RejectersOf(reviews, r) = {}
            /\ \A i \in IterationsOf(iters, r) : iters[i].input = iters[e].input

\* The finalized prompt of a session is the one its executor ran with success
\* (workflow.py, on_executor_emitted reads it back from the arbitration rounds,
\* not from the execution).
FinalPromptWasExecuted ==
    finalized # None =>
        \E e \in DOMAIN iters :
            /\ IsType(iters[e].round, "execute")
            /\ iters[e].assess = "converged"
            /\ iters[e].input = Draft(finalized)

\* A reviewer polling its inbox is shown the latest arbitration outcome
\* (mcp_server.py, _open_review_requests_for_agent); that is the synthesis the
\* review round was opened for.
ReviewShowsSynthesis ==
    \A r \in InProgress : IsType(r, "multi_agent_review") =>
        \A i \in IterationsOf(iters, r) :
            iters[i].input = Draft(Round2Outcome(rounds))

\* One stage at a time: the rounds in progress are those the session status
\* announces, one per host in round 1 and a single one afterwards.
StageType ==
    [round_1 |-> {"same_host_pair"}, round_2 |-> {"cross_host_arbitration"},
     round_3 |-> {"multi_agent_review"}, executing |-> {"execute"},
     escalated |-> {"same_host_pair"}, complete |-> {}]

OneStage ==
    /\ \A q, r \in InProgress :
           /\ rounds[q].type = rounds[r].type
           /\ q # r => rounds[q].host # rounds[r].host
    /\ session \in DOMAIN StageType =>
           \A r \in InProgress : rounds[r].type \in StageType[session]

\* A running session always waits for somebody: an iteration of a round in
\* progress is open, or an expected reviewer has not reviewed yet.
SomebodyIsAsked ==
    session \in {"round_1", "round_2", "round_3", "executing"} =>
        \E r \in InProgress :
            \/ /\ ~IsType(r, "multi_agent_review")
               /\ \E i \in IterationsOf(iters, r) : Open(i)
            \/ /\ IsType(r, "multi_agent_review")
               /\ ~(ExpectedReviewers \subseteq ReviewersOf(reviews, r))

\* Within a host the pair relays: every iteration but the last is answered, and
\* the next one hands exactly that answer to the other worker
\* (workflow.py, _advance_round_1).  A pair that has not converged stops at
\* MAX_ITERS_PER_ROUND_1.
RelayUnbroken ==
    \A i, j \in DOMAIN iters :
        /\ iters[i].round = iters[j].round
        /\ IsType(iters[i].round, "same_host_pair")
        /\ iters[j].num = iters[i].num + 1
        => /\ iters[i].status = "complete"
           /\ iters[j].src = iters[i].dst
           /\ iters[j].dst # iters[i].dst
           /\ iters[j].input = Draft(iters[i].output)
           /\ iters[j].num <= MAX_ITERS_PER_ROUND_1

\* A mediation request names the synthesis that was turned down and exactly the
\* reviewers that rejected it (workflow.py, _format_mediation_input).
MediationCarriesRejections ==
    \A i \in DOMAIN iters : iters[i].input.kind = "mediate" =>
        \E r \in RoundsOfType(rounds, "multi_agent_review") :
            /\ r < iters[i].round
            /\ RejectersOf(reviews, r) = iters[i].input.rejecters
            /\ \A j \in IterationsOf(iters, r) : iters[j].input = Draft(iters[i].input.prior)

\* What the arbitrator compares are outcomes both workers of each host stood
\* behind: the last two answers agree and the later one reports convergence
\* (workflow.py, is_converged and _maybe_advance_to_round_2), host by host and
\* none missing.
ArbitratesConvergedOutcomes ==
    \A i \in DOMAIN iters : iters[i].input.kind = "arbitrate" =>
        \A h \in Hosts :
            \E r \in PairRoundsOn(rounds, h) :
                /\ r < iters[i].round
                /\ rounds[r].status = "converged"
                /\ rounds[r].outcome = iters[i].input.outcomes[h]
                /\ IsConverged(iters, r)
                /\ iters[LatestAnswered(iters, r)].output = rounds[r].outcome

\* If reviewers stop rejecting, every session that was opened completes or is
\* escalated to the operator: iterating, mediating and restarting all end.
Settles == session # "none" ~> session \in {"complete", "escalated"}

\* The refinement: what the tables say about the synthesis on the table, the
\* votes on it and the syntheses turned down.  The phase is the session status.
OnTheTable(s, rs) ==
    IF s \in {"round_3", "executing", "complete"} THEN Round2Outcome(rs) ELSE None

VoteOf(vs, r, a) ==
    IF a \notin ReviewersOf(vs, r) THEN "none"
    ELSE IF a \in RejectersOf(vs, r) THEN "reject" ELSE "approve"

VotesCast(s, rs, vs) ==
    [a \in AllWorkers |->
        IF s = "round_3" THEN VoteOf(vs, Latest(RoundsOfType(rs, "multi_agent_review")), a)
        ELSE "none"]

Turndowns(rs, vs) ==
    {r \in RoundsOfType(rs, "multi_agent_review") :
        rs[r].status = "complete" /\ RejectersOf(vs, r) # {}}

Flow == INSTANCE SessionFlow WITH
    Reviewers <- AllWorkers,
    MaxTurndowns <- MAX_MEDIATION_ATTEMPTS,
    phase <- session,
    synthesis <- OnTheTable(session, rounds),
    votes <- VotesCast(session, rounds, reviews),
    turndowns <- Cardinality(Turndowns(rounds, reviews)),
    final <- finalized

\* Rounds, iterations and inboxes implement the session flow: unanimous
\* approval before execution, mediation or restart as the turn-downs count up
\* (workflow.py as a whole).
ImplementsFlow == Flow!FlowSpec

-----------------------------------------------------------------------------
(***************************************************************************)
(* What the documents claim and the code does not do.                      *)
(***************************************************************************)
\* "no further agent dispatch happens after an abort because the session
\* itself is terminal" (routes/api.py, post_abort): no request is created and
\* none becomes an agent's work once the session is aborted.
NoDispatchAfterAbort ==
    [][session = "aborted" => Len(iters') = Len(iters)]_vars

\* "Executor reports the result of running the finalized prompt"
\* (mcp_server.py, delphi_executor_emit): what the executor is handed is a
\* synthesis, not something it wrote itself.
ExecutorRunsSynthesis ==
    \A e \in DOMAIN iters : IsType(iters[e].round, "execute") =>
        \E r \in RoundsOfType(rounds, "cross_host_arbitration") :
            iters[e].input = Draft(rounds[r].outcome)

\* Skipping a reviewer is the operator's way out of a review that does not come
\* in: "Skip that reviewer" (DESIGN.md section 9, round 3 deadlock; workflow.py,
\* resolve_escalation).  Whatever is skipped, a session in review waits for a
\* reviewer that is still expected.
SkipUnblocks ==
    session = "round_3" =>
        \E r \in InProgress :
            /\ IsType(r, "multi_agent_review")
            /\ ~(ExpectedReviewers \subseteq ReviewersOf(reviews, r))
=============================================================================
