------------------------------- MODULE Delphi -------------------------------
(***************************************************************************)
(* The Delphi session workflow of the broker (workflow.py over             *)
(* database.py), one session, every handler a single step.                 *)
(*                                                                         *)
(* A session runs pairs of workers (one pair per host) until each pair     *)
(* converges, hands the outcomes to an arbitrator, has every worker review *)
(* the synthesis, mediates or restarts on a rejection and otherwise hands  *)
(* the synthesis to the executor.  Agents call the MCP tools, an operator  *)
(* the REST endpoints, a background loop expires the nudge windows.  The   *)
(* handlers commit table by table; the step of a handler that raises half  *)
(* way keeps what it had committed.                                        *)
(*                                                                         *)
(* Texts are opaque: only their similarity and their identity matter.      *)
(***************************************************************************)
EXTENDS Integers, Sequences, FiniteSets

CONSTANTS
    HostOrder,                 \* the worker hosts, ORDER BY host
    Workers,                   \* host -> its workers, ORDER BY agent_id
    WorkerOrder,               \* all workers, ORDER BY agent_id
    Arbitrator, Executor,      \* ARBITRATOR_AGENT_ID, EXECUTOR_AGENT_ID
    None,                      \* SQL NULL
    Drafts, Syntheses, Reports,\* what workers, arbitrator and executor may write
    Similarity,                \* SequenceMatcher ratio of two texts, in percent
    MAX_ITERS_PER_ROUND_1,
    MAX_MEDIATION_ATTEMPTS,
    OperatorActions,           \* the operator interventions that may occur
    AgentFaults,               \* the departures of agents from their prompt
    MaxOverrides,              \* bound: operator overrides and agent faults
    MaxRejectedRounds,         \* bound: review rounds that may see a rejection
    MaxNudges,                 \* bound: requests the operator may annotate
    MaxRounds, MaxIterations   \* bounds: rows of the two tables

CROSS_HOST_RECONCILABILITY_FLOOR == 30
CONVERGENCE_SIMILARITY_THRESHOLD == 95
OSCILLATION_SIMILARITY_CEILING == 50

Elements(s) == {s[k] : k \in DOMAIN s}

Hosts == Elements(HostOrder)
AllWorkers == Elements(WorkerOrder)
Agents == AllWorkers \cup {Arbitrator, Executor}
Texts == Drafts \cup Syntheses \cup Reports

OperatorActionKinds ==
    {"nudge", "abort", "resolve_abort", "force_converge", "retry",
     "skip_agent", "proceed_to_arbitrator"}

\* resubmit: a review sent again, or for a round that is over;
\* wrong_tool: emit_response on a review or execute request;
\* outsider: a review by an agent that is not an expected reviewer.
AgentFaultKinds == {"resubmit", "wrong_tool", "outsider"}

ASSUME RegistryAssumption ==
    /\ HostOrder \in Seq(Hosts)
    /\ WorkerOrder \in Seq(AllWorkers)
    /\ Workers \in [Hosts -> Seq(AllWorkers)]
    /\ IsFiniteSet(AllWorkers)
    /\ None \notin Agents \cup Hosts \cup Texts

\* SELECT DISTINCT host, and agent_id is the key of table agents.
ASSUME DistinctAssumption ==
    /\ \A j, k \in DOMAIN HostOrder : HostOrder[j] = HostOrder[k] => j = k
    /\ \A h \in Hosts : \A j, k \in DOMAIN Workers[h] :
           Workers[h][j] = Workers[h][k] => j = k

ASSUME TextAssumption ==
    Similarity \in [Texts \X Texts -> 0..100]

ASSUME LimitAssumption ==
    /\ MAX_ITERS_PER_ROUND_1 \in Nat \ {0}
    /\ MAX_MEDIATION_ATTEMPTS \in Nat
    /\ MaxOverrides \in Nat
    /\ MaxRejectedRounds \in Nat
    /\ MaxNudges \in Nat
    /\ MaxRounds \in Nat
    /\ MaxIterations \in Nat

ASSUME EnvironmentAssumption ==
    /\ OperatorActions \subseteq OperatorActionKinds
    /\ AgentFaults \subseteq AgentFaultKinds

VARIABLES
    session,    \* sessions.status, "none" before the row exists
    rounds,     \* table rounds, in order of creation
    iters,      \* table iterations, in order of creation
    reviews,    \* table reviews
    skipped,    \* sessions.skipped_reviewers
    finalized,  \* sessions.finalized_prompt
    overrides   \* overrides and faults so far (bounded by MaxOverrides)

vars == <<session, rounds, iters, reviews, skipped, finalized, overrides>>

SessionStatuses ==
    {"none", "drafting", "round_1", "round_2", "round_3", "executing",
     "complete", "aborted", "escalated"}
RoundTypes ==
    {"same_host_pair", "cross_host_arbitration", "multi_agent_review", "execute"}
RoundStatuses ==
    {"pending", "in_progress", "converged", "escalated", "complete", "aborted"}
IterationStatuses ==
    {"awaiting_nudge", "awaiting_destination", "complete", "off_script"}

(***************************************************************************)
(* What a destination is given to work on (iterations.source_output).      *)
(***************************************************************************)
Problem == [kind |-> "problem"]
ProblemWith(rejecters) == [kind |-> "restart", rejecters |-> rejecters]
Draft(t) == [kind |-> "draft", text |-> t]
ArbitratorInput(outcomes) == [kind |-> "arbitrate", outcomes |-> outcomes]
MediationInput(prior, rejecters) ==
    [kind |-> "mediate", prior |-> prior, rejecters |-> rejecters]

Inputs ==
    {Problem}
    \cup {ProblemWith(R) : R \in SUBSET Agents}
    \cup {Draft(t) : t \in Texts}
    \cup {ArbitratorInput(o) : o \in UNION {[H -> Texts \cup {None}] : H \in SUBSET Hosts}}
    \cup {MediationInput(p, R) : p \in Texts \cup {None}, R \in SUBSET Agents}

Round ==
    [type: RoundTypes, host: Hosts \cup {None}, status: RoundStatuses,
     outcome: Texts \cup {None}]

Iteration ==
    [round: Nat \ {0}, num: Nat \ {0}, src: Agents \cup {None}, dst: Agents,
     input: Inputs, nudged: BOOLEAN, output: Texts \cup {None},
     assess: {"converged", "more_work_needed", None}, status: IterationStatuses]

Review == [round: Nat \ {0}, reviewer: Agents, decision: {"approve", "reject"}]

\* Type invariant: the CHECK constraints and references of the schema.
TypeOK ==
    /\ session \in SessionStatuses
    /\ rounds \in Seq(Round)
    /\ iters \in Seq(Iteration)
    /\ \A i \in DOMAIN iters : iters[i].round \in DOMAIN rounds
    /\ reviews \in SUBSET Review
    /\ \A v \in reviews : v.round \in DOMAIN rounds
    /\ skipped \in SUBSET Agents
    /\ finalized \in Texts \cup {None}
    /\ overrides \in Nat

-----------------------------------------------------------------------------
(***************************************************************************)
(* Queries on the tables.  Handlers query tables they have just written,   *)
(* so a query takes the table it reads.                                    *)
(***************************************************************************)
Latest(S) == CHOOSE x \in S : \A y \in S : y <= x

RoundsOfType(rs, type) == {r \in DOMAIN rs : rs[r].type = type}
IterationsOf(t, r) == {i \in DOMAIN t : t[i].round = r}
Answered(t, r) == {i \in IterationsOf(t, r) : t[i].output # None}
LatestAnswered(t, r) == Latest(Answered(t, r))
PreviousAnswered(t, r) == Latest(Answered(t, r) \ {LatestAnswered(t, r)})

\* Mutant: numbers after the answers instead of after the latest request.
NextNumByAnswers(t, r) == Cardinality(Answered(t, r)) + 1

NextNum(t, r) ==
    IF IterationsOf(t, r) = {} THEN 1 ELSE t[Latest(IterationsOf(t, r))].num + 1

\* Mutant: the first arbitration instead of the latest.
FirstRound2Outcome(rs) ==
    LET arbitrations == RoundsOfType(rs, "cross_host_arbitration")
    IN  IF arbitrations = {} THEN None
        ELSE rs[CHOOSE r \in arbitrations : \A q \in arbitrations : r <= q].outcome

Round2Outcome(rs) ==
    LET arbitrations == RoundsOfType(rs, "cross_host_arbitration")
    IN  IF arbitrations = {} THEN None ELSE rs[Latest(arbitrations)].outcome

ExpectedReviewers == AllWorkers \ skipped
\* Mutant: off by one.
MediationAttemptsTooFew(rs) ==
    Cardinality(RoundsOfType(rs, "cross_host_arbitration")) - 2

\* Arbitrations beyond the first; never negative, as a review follows one.
MediationAttempts(rs) == Cardinality(RoundsOfType(rs, "cross_host_arbitration")) - 1

PairRoundsOn(rs, h) == {r \in RoundsOfType(rs, "same_host_pair") : rs[r].host = h}
RoundOutcomesPerHost(rs) ==
    [h \in {rs[r].host : r \in RoundsOfType(rs, "same_host_pair")}
        |-> rs[Latest(PairRoundsOn(rs, h))].outcome]

\* Mutants: any other worker, whatever its host; the first worker, whoever asks.
OtherAgentOnAnyHost(h, a) == IF WorkerOrder[1] = a THEN WorkerOrder[2] ELSE WorkerOrder[1]
FirstAgentOnHost(h, a) == Workers[h][1]

OtherAgentOnHost(h, a) == IF Workers[h][1] = a THEN Workers[h][2] ELSE Workers[h][1]

LatestSimilarity(t, r) ==
    Similarity[t[PreviousAnswered(t, r)].output, t[LatestAnswered(t, r)].output]

IsConverged(t, r) ==
    /\ Cardinality(Answered(t, r)) >= 2
    /\ t[LatestAnswered(t, r)].assess = "converged"
    /\ LatestSimilarity(t, r) >= CONVERGENCE_SIMILARITY_THRESHOLD

DetectOscillation(t, r) ==
    /\ Cardinality(Answered(t, r)) >= 2
    /\ LatestSimilarity(t, r) < OSCILLATION_SIMILARITY_CEILING

Stalled(t, r) ==
    /\ t[LatestAnswered(t, r)].num >= MAX_ITERS_PER_ROUND_1
    /\ ~IsConverged(t, r)

\* A missing outcome counts as an empty text: unlike any other, like another
\* empty one.
Irreconcilable(outcomes) ==
    \E j, k \in DOMAIN HostOrder :
        LET x == outcomes[HostOrder[j]]
            y == outcomes[HostOrder[k]]
        IN  /\ j < k /\ {HostOrder[j], HostOrder[k]} \subseteq DOMAIN outcomes
            /\ IF None \in {x, y} THEN x # y
               ELSE Similarity[x, y] < CROSS_HOST_RECONCILABILITY_FLOOR

(***************************************************************************)
(* Writes to the tables.                                                   *)
(***************************************************************************)
NewRound(type, h) ==
    [type |-> type, host |-> h, status |-> "in_progress", outcome |-> None]

NewIteration(r, n, src, dst, input) ==
    [round |-> r, num |-> n, src |-> src, dst |-> dst, input |-> input,
     nudged |-> FALSE, output |-> None, assess |-> None,
     status |-> "awaiting_nudge"]

\* update_round_status: COALESCE keeps the old outcome when none is given.
UpdateRound(rs, r, status, outcome) ==
    [rs EXCEPT ![r].status = status,
               ![r].outcome = IF outcome = None THEN @ ELSE outcome]

Respond(t, i, output, assess) ==
    [t EXCEPT ![i].output = output, ![i].assess = assess, ![i].status = "complete"]

AwaitDestination(t, S) ==
    [i \in DOMAIN t |->
        IF i \in S THEN [t[i] EXCEPT !.status = "awaiting_destination"] ELSE t[i]]

SpawnIteration(t, r, src, dst, input) ==
    Append(t, NewIteration(r, NextNum(t, r), src, dst, input))

(***************************************************************************)
(* Spawning a round.  rs and t are the tables written so far.              *)
(***************************************************************************)
\* The hosts before the first one that does not have exactly two workers.
ReadyHosts ==
    {k \in DOMAIN HostOrder : \A j \in 1..k : Len(Workers[HostOrder[j]]) = 2}

\* One pair round per host in order; a malformed host raises after the rounds
\* of the hosts before it are committed.
SpawnRound1(rs, t, input, status) ==
    LET n == Cardinality(ReadyHosts)
    IN  /\ rounds' = rs \o [k \in 1..n |-> NewRound("same_host_pair", HostOrder[k])]
        /\ iters' = t \o [k \in 1..n |->
               NewIteration(Len(rs) + k, 1, None, Workers[HostOrder[k]][1], input)]
        /\ session' = IF n = Len(HostOrder) THEN "round_1" ELSE status

\* Mutant: the arbitrator is not asked.
SpawnRound2Unasked(rs, t, input) ==
    /\ rounds' = Append(rs, NewRound("cross_host_arbitration", None))
    /\ iters' = t
    /\ session' = "round_2"

SpawnRound2(rs, t, input) ==
    /\ rounds' = Append(rs, NewRound("cross_host_arbitration", None))
    /\ iters' = SpawnIteration(t, Len(rs) + 1, None, Arbitrator, input)
    /\ session' = "round_2"

Precedes(a, b) ==
    \E j, k \in DOMAIN WorkerOrder : j < k /\ WorkerOrder[j] = a /\ WorkerOrder[k] = b

SpawnRound3(rs, t, input) ==
    \E order \in [1..Cardinality(ExpectedReviewers) -> ExpectedReviewers] :
        /\ \A j, k \in DOMAIN order : j < k => Precedes(order[j], order[k])
        /\ rounds' = Append(rs, NewRound("multi_agent_review", None))
        /\ iters' = t \o [k \in DOMAIN order |->
               NewIteration(Len(rs) + 1, k, None, order[k], input)]
        /\ session' = "round_3"

\* Mutant: the request is stored without its round.
SpawnExecuteRoundless(rs, t) ==
    /\ rounds' = rs
    /\ iters' = SpawnIteration(t, Len(rs) + 1, None, Executor, Draft(Round2Outcome(rs)))
    /\ session' = "executing"

\* An empty final prompt is refused by create_iteration, after the round row
\* is committed and before the session moves on.
SpawnExecuteRound(rs, t) ==
    /\ rounds' = Append(rs, NewRound("execute", None))
    /\ IF Round2Outcome(rs) = None
       THEN iters' = t /\ UNCHANGED session
       ELSE /\ iters' = SpawnIteration(t, Len(rs) + 1, None, Executor,
                                       Draft(Round2Outcome(rs)))
            /\ session' = "executing"

MaybeAdvanceToRound2(rs, t) ==
    LET outcomes == RoundOutcomesPerHost(rs)
        converged == \A r \in RoundsOfType(rs, "same_host_pair") : rs[r].status = "converged"
    IN  \/ /\ ~converged
           /\ rounds' = rs
           /\ iters' = t
           /\ UNCHANGED session
        \/ /\ converged
           /\ Irreconcilable(outcomes)
           /\ rounds' = rs
           /\ iters' = t
           /\ session' = "escalated"
        \/ /\ converged
           /\ ~Irreconcilable(outcomes)
           /\ SpawnRound2(rs, t, ArbitratorInput(outcomes))

-----------------------------------------------------------------------------
(***************************************************************************)
(* Agents.                                                                 *)
(***************************************************************************)
StartSession ==
    /\ session = "none"
    /\ HostOrder # <<>>
    /\ SpawnRound1(rounds, iters, Problem, "drafting")
    /\ UNCHANGED <<reviews, skipped, finalized>>

\* delphi_emit_response is refused unless the request waits for its destination.
CanRespond(i, type) ==
    /\ i \in DOMAIN iters
    /\ iters[i].status = "awaiting_destination"
    /\ rounds[iters[i].round].type = type

\* Mutant: an agent's own word is enough to converge.
AdvanceRound1OnAssessment(t, r) ==
    LET last == t[LatestAnswered(t, r)]
    IN  \/ /\ last.assess = "converged"
           /\ MaybeAdvanceToRound2(UpdateRound(rounds, r, "converged", last.output), t)
        \/ /\ last.assess # "converged"
           /\ ~Stalled(t, r)
           /\ iters' = SpawnIteration(t, r, last.dst,
                           OtherAgentOnHost(rounds[r].host, last.dst), Draft(last.output))
           /\ UNCHANGED <<session, rounds>>

\* _advance_round_1 on the answers recorded so far.
AdvanceRound1(t, r) ==
    LET last == t[LatestAnswered(t, r)]
    IN  \/ /\ Stalled(t, r) \/ DetectOscillation(t, r)
           /\ rounds' = UpdateRound(rounds, r, "escalated", None)
           /\ iters' = t
           /\ session' = "escalated"
        \/ /\ IsConverged(t, r)
           /\ MaybeAdvanceToRound2(UpdateRound(rounds, r, "converged", last.output), t)
        \/ /\ ~Stalled(t, r) /\ ~DetectOscillation(t, r) /\ ~IsConverged(t, r)
           /\ iters' = SpawnIteration(t, r, last.dst,
                           OtherAgentOnHost(rounds[r].host, last.dst), Draft(last.output))
           /\ UNCHANGED <<session, rounds>>

RespondInRound1(i, output, assess) ==
    /\ CanRespond(i, "same_host_pair")
    /\ output \in Drafts
    /\ AdvanceRound1(Respond(iters, i, output, assess), iters[i].round)
    /\ UNCHANGED <<reviews, skipped, finalized>>

\* The round completes even when nobody is left to review and the handler raises.
RespondInRound2(i, output, assess) ==
    /\ CanRespond(i, "cross_host_arbitration")
    /\ output \in Syntheses
    /\ LET rs == UpdateRound(rounds, iters[i].round, "complete", output)
           t == Respond(iters, i, output, assess)
       IN  \/ /\ ExpectedReviewers # {}
              /\ SpawnRound3(rs, t, Draft(output))
           \/ /\ ExpectedReviewers = {}
              /\ rounds' = rs
              /\ iters' = t
              /\ UNCHANGED session
    /\ UNCHANGED <<reviews, skipped, finalized>>

\* The response is committed before the round type is looked at and refused.
RespondWithWrongTool(i, output, assess) ==
    /\ CanRespond(i, "multi_agent_review") \/ CanRespond(i, "execute")
    /\ iters' = Respond(iters, i, output, assess)
    /\ UNCHANGED <<session, rounds, reviews, skipped, finalized>>

EmitResponse ==
    \E i \in DOMAIN iters, output \in Texts, assess \in {"converged", "more_work_needed"} :
        \/ RespondInRound1(i, output, assess)
        \/ RespondInRound2(i, output, assess)

ReviewersOf(vs, r) == {v.reviewer : v \in {w \in vs : w.round = r}}
RejectersOf(vs, r) ==
    {v.reviewer : v \in {w \in vs : w.round = r /\ w.decision = "reject"}}

\* The review requests of a's inbox.  emit_review itself does not ask for them.
OpenReviewRequest(r, a) ==
    /\ rounds[r].status = "in_progress"
    /\ a \in ExpectedReviewers
    /\ a \notin ReviewersOf(reviews, r)

\* A review nobody requested: from an outsider, a second time or too late.
UnrequestedReview(r, a) ==
    /\ ~OpenReviewRequest(r, a)
    /\ a \notin ExpectedReviewers => "outsider" \in AgentFaults
    /\ rounds[r].status # "in_progress" \/ a \in ReviewersOf(reviews, r)
           => "resubmit" \in AgentFaults

MayReject(r) ==
    Cardinality({q \in RoundsOfType(rounds, "multi_agent_review") : q <= r})
        <= MaxRejectedRounds

\* Mutants: the review round stays open; the arbitrator is sent every review.
CloseReviewLeavingOpen(r, vs) ==
    LET rejecters == RejectersOf(vs, r)
    IN  IF rejecters = {} THEN SpawnExecuteRound(rounds, iters)
        ELSE SpawnRound2(rounds, iters, MediationInput(Round2Outcome(rounds), rejecters))
CloseReviewForwardingAll(r, vs) ==
    LET rs == UpdateRound(rounds, r, "complete", None)
    IN  IF RejectersOf(vs, r) = {} THEN SpawnExecuteRound(rs, iters)
        ELSE SpawnRound2(rs, iters, MediationInput(Round2Outcome(rs), ReviewersOf(vs, r)))

\* Every expected reviewer is in: execute, mediate or restart.
CloseReview(r, vs) ==
    LET rs == UpdateRound(rounds, r, "complete", None)
        rejecters == RejectersOf(vs, r)
    IN  \/ /\ rejecters = {}
           /\ SpawnExecuteRound(rs, iters)
        \/ /\ rejecters # {}
           /\ MediationAttempts(rs) < MAX_MEDIATION_ATTEMPTS
           /\ SpawnRound2(rs, iters, MediationInput(Round2Outcome(rs), rejecters))
        \/ /\ rejecters # {}
           /\ MediationAttempts(rs) >= MAX_MEDIATION_ATTEMPTS
           /\ SpawnRound1(rs, iters, ProblemWith(rejecters), session)

EmitReview(r, a, decision) ==
    /\ rounds[r].type = "multi_agent_review"
    /\ decision = "reject" => MayReject(r)
    /\ LET vs == reviews \cup {[round |-> r, reviewer |-> a, decision |-> decision]}
       IN  /\ reviews' = vs
           /\ \/ /\ ExpectedReviewers \subseteq ReviewersOf(vs, r)
                 /\ CloseReview(r, vs)
              \/ /\ ~(ExpectedReviewers \subseteq ReviewersOf(vs, r))
                 /\ UNCHANGED <<session, rounds, iters>>
    /\ UNCHANGED <<skipped, finalized>>

\* Mutant: a request that was answered is executed again.
CanExecuteAgain(i) ==
    /\ i \in DOMAIN iters
    /\ rounds[iters[i].round].type = "execute"

\* An expired or still open nudge window does not hold the executor up.
CanExecute(i) ==
    /\ i \in DOMAIN iters
    /\ rounds[iters[i].round].type = "execute"
    /\ iters[i].dst = Executor
    /\ iters[i].status \in {"awaiting_nudge", "awaiting_destination"}

\* Mutant: the report is kept as the final prompt.
ExecutorSucceedsKeepingReport(i, output) ==
    /\ CanExecute(i)
    /\ output \in Reports
    /\ iters' = Respond(iters, i, output, "converged")
    /\ rounds' = UpdateRound(rounds, iters[i].round, "complete", output)
    /\ finalized' = IF finalized # None THEN finalized ELSE output
    /\ session' = "complete"
    /\ UNCHANGED <<reviews, skipped>>

\* Mutant: a final prompt that is there already is written again.
ExecutorSucceedsAgain(i, output) ==
    /\ CanExecute(i)
    /\ output \in Reports
    /\ iters' = Respond(iters, i, output, "converged")
    /\ rounds' = UpdateRound(rounds, iters[i].round, "complete", output)
    /\ finalized' = IF Round2Outcome(rounds) # None THEN Round2Outcome(rounds)
                    ELSE output
    /\ session' = "complete"
    /\ UNCHANGED <<reviews, skipped>>

ExecutorSucceeds(i, output) ==
    /\ CanExecute(i)
    /\ output \in Reports
    /\ iters' = Respond(iters, i, output, "converged")
    /\ rounds' = UpdateRound(rounds, iters[i].round, "complete", output)
    /\ finalized' = IF finalized # None THEN finalized
                    ELSE IF Round2Outcome(rounds) # None THEN Round2Outcome(rounds)
                    ELSE output
    /\ session' = "complete"
    /\ UNCHANGED <<reviews, skipped>>

\* Mutant: the session is not escalated.
ExecutorFailsSilently(i, output) ==
    /\ CanExecute(i)
    /\ output \in Reports
    /\ iters' = Respond(iters, i, output, "more_work_needed")
    /\ rounds' = UpdateRound(rounds, iters[i].round, "escalated", output)
    /\ UNCHANGED <<session, reviews, skipped, finalized>>

ExecutorFails(i, output) ==
    /\ CanExecute(i)
    /\ output \in Reports
    /\ iters' = Respond(iters, i, output, "more_work_needed")
    /\ rounds' = UpdateRound(rounds, iters[i].round, "escalated", output)
    /\ session' = "escalated"
    /\ UNCHANGED <<reviews, skipped, finalized>>

ExecutorEmit ==
    \E i \in DOMAIN iters, output \in Texts :
        ExecutorSucceeds(i, output) \/ ExecutorFails(i, output)

(***************************************************************************)
(* The nudge sweep.  Windows have one length, so they close in the order   *)
(* the iterations were created: a sweep takes those up to some k.          *)
(***************************************************************************)
AwaitingNudge == {i \in DOMAIN iters : iters[i].status = "awaiting_nudge"}

AutoSkipExpiredNudges ==
    \E k \in AwaitingNudge :
        /\ iters' = AwaitDestination(iters, {i \in AwaitingNudge : i <= k})
        /\ UNCHANGED <<session, rounds, reviews, skipped, finalized>>

(***************************************************************************)
(* The operator.                                                           *)
(***************************************************************************)
MayAnnotate == Cardinality({j \in DOMAIN iters : iters[j].nudged}) < MaxNudges

PostNudge(i, submit) ==
    /\ "nudge" \in OperatorActions
    /\ i \in AwaitingNudge
    /\ submit => MayAnnotate
    /\ iters' = [iters EXCEPT ![i].status = "awaiting_destination", ![i].nudged = submit]
    /\ UNCHANGED <<session, rounds, reviews, skipped, finalized>>

PostAbort ==
    /\ "abort" \in OperatorActions
    /\ session # "none"
    /\ rounds' = [r \in DOMAIN rounds |->
           IF rounds[r].status \in {"in_progress", "pending"}
           THEN [rounds[r] EXCEPT !.status = "aborted"] ELSE rounds[r]]
    /\ session' = "aborted"
    /\ UNCHANGED <<iters, reviews, skipped, finalized>>

ResolveAbort ==
    /\ "resolve_abort" \in OperatorActions
    /\ session # "none"
    /\ session' = "aborted"
    /\ UNCHANGED <<rounds, iters, reviews, skipped, finalized>>

\* list_rounds_for_session: by round_num, then host, then insertion.
ListedBefore(q, r) ==
    \E j, k \in DOMAIN HostOrder :
        /\ HostOrder[j] = rounds[q].host
        /\ HostOrder[k] = rounds[r].host
        /\ j < k \/ (j = k /\ q <= r)

\* The rounds of S are closed with their last output, in listing order, up to
\* the first one that has no output.
Closable(S) ==
    {r \in S : \A q \in S : ListedBefore(q, r) => Answered(iters, q) # {}}

CloseWithLastOutput(S) ==
    [r \in DOMAIN rounds |->
        IF r \in Closable(S)
        THEN [rounds[r] EXCEPT !.status = "converged",
                               !.outcome = iters[LatestAnswered(iters, r)].output]
        ELSE rounds[r]]

ForceConvergeRound1 ==
    LET open == {r \in RoundsOfType(rounds, "same_host_pair") :
                    rounds[r].status \in {"in_progress", "escalated", "pending"}}
    IN  /\ "force_converge" \in OperatorActions
        /\ open # {}
        /\ \/ /\ Closable(open) = open
              /\ MaybeAdvanceToRound2(CloseWithLastOutput(open), iters)
           \/ /\ Closable(open) # open
              /\ rounds' = CloseWithLastOutput(open)
              /\ UNCHANGED <<session, iters>>
        /\ UNCHANGED <<reviews, skipped, finalized>>

ProceedToArbitrator ==
    LET open == {r \in RoundsOfType(rounds, "same_host_pair") :
                    rounds[r].status # "converged"}
        rs == CloseWithLastOutput(open)
    IN  /\ "proceed_to_arbitrator" \in OperatorActions
        /\ session = "escalated"
        /\ \/ /\ Closable(open) = open
              /\ SpawnRound2(rs, iters, ArbitratorInput(RoundOutcomesPerHost(rs)))
           \/ /\ Closable(open) # open
              /\ rounds' = rs
              /\ UNCHANGED <<session, iters>>
        /\ UNCHANGED <<reviews, skipped, finalized>>

\* Mutant: hands out the session's latest answer instead of the iteration's own.
RetryWithLatestAnswer(i, submit) ==
    LET it == iters[i]
        answered == {j \in DOMAIN iters : iters[j].output # None}
    IN  /\ "retry" \in OperatorActions
        /\ answered # {}
        /\ iters' = SpawnIteration(iters, it.round, it.dst,
                        IF it.src = None THEN it.dst ELSE it.src,
                        Draft(iters[Latest(answered)].output))
        /\ UNCHANGED <<session, rounds, reviews, skipped, finalized>>

\* The retried iteration swaps source and destination; its status and its
\* session's play no part in whether it may be retried.  Nor does the code ask
\* whether it is an iteration of the session the operator names: with one
\* session it always is.  A retry with a nudge text annotates the new request.
RetryIteration(i, submit) ==
    LET it == iters[i]
        r == it.round
        t == SpawnIteration(iters, r, it.dst, IF it.src = None THEN it.dst ELSE it.src,
                            IF it.output = None THEN it.input ELSE Draft(it.output))
    IN  /\ "retry" \in OperatorActions
        /\ submit => MayAnnotate
        /\ iters' = IF submit
                    THEN [t EXCEPT ![Len(t)].status = "awaiting_destination",
                                   ![Len(t)].nudged = TRUE]
                    ELSE t
        /\ rounds' = IF rounds[r].status \in {"escalated", "pending"}
                     THEN [rounds EXCEPT ![r].status = "in_progress"] ELSE rounds
        /\ session' = IF session = "escalated" THEN "round_1" ELSE session
        /\ UNCHANGED <<reviews, skipped, finalized>>

SkipAgent(a) ==
    /\ "skip_agent" \in OperatorActions
    /\ session # "none"
    /\ skipped' = skipped \cup {a}
    /\ UNCHANGED <<session, rounds, iters, reviews, finalized>>

-----------------------------------------------------------------------------
Init ==
    /\ session = "none"
    /\ rounds = <<>>
    /\ iters = <<>>
    /\ reviews = {}
    /\ skipped = {}
    /\ finalized = None
    /\ overrides = 0

\* An agent that works off its inbox.
AgentStep ==
    \/ EmitResponse
    \/ \E r \in DOMAIN rounds, a \in Agents, decision \in {"approve", "reject"} :
           OpenReviewRequest(r, a) /\ EmitReview(r, a, decision)
    \/ ExecutorEmit

AgentFault ==
    \/ /\ "wrong_tool" \in AgentFaults
       /\ \E i \in DOMAIN iters, output \in Reports,
              assess \in {"converged", "more_work_needed"} :
              RespondWithWrongTool(i, output, assess)
    \/ \E r \in DOMAIN rounds, a \in Agents, decision \in {"approve", "reject"} :
           UnrequestedReview(r, a) /\ EmitReview(r, a, decision)

OperatorRoutine ==
    \/ StartSession
    \/ \E i \in DOMAIN iters, submit \in BOOLEAN : PostNudge(i, submit)

OperatorOverride ==
    \/ \E i \in DOMAIN iters, submit \in BOOLEAN : RetryIteration(i, submit)
    \/ PostAbort
    \/ ResolveAbort
    \/ ForceConvergeRound1
    \/ ProceedToArbitrator
    \/ \E a \in AllWorkers : SkipAgent(a)

WithinBounds == Len(rounds') <= MaxRounds /\ Len(iters') <= MaxIterations

Next ==
    /\ \/ /\ AgentStep \/ AutoSkipExpiredNudges \/ OperatorRoutine
          /\ UNCHANGED overrides
       \/ /\ overrides < MaxOverrides
          /\ AgentFault \/ OperatorOverride
          /\ overrides' = overrides + 1
    /\ WithinBounds

Spec == Init /\ [][Next]_vars

\* Agents answer what is in their inbox and the sweep loop keeps running; the
\* operator owes the session nothing but to open it.
Fairness ==
    /\ WF_vars(StartSession /\ WithinBounds /\ UNCHANGED overrides)
    /\ WF_vars(AgentStep /\ WithinBounds /\ UNCHANGED overrides)
    /\ WF_vars(AutoSkipExpiredNudges /\ UNCHANGED overrides)

FairSpec == Spec /\ Fairness
=============================================================================
