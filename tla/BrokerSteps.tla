----------------------------- MODULE BrokerSteps -----------------------------
(***************************************************************************)
(* The Delphi workflow of module Delphi, one database statement at a time. *)
(*                                                                         *)
(* Every function of database.py commits by itself and every handler opens *)
(* its own connection, so a handler is not a transaction: it is a list of  *)
(* statements, each of which reads or writes and commits.  The MCP tools   *)
(* and the nudge sweep run one after the other on the event loop; operator *)
(* requests run on threads of their own, between any two statements of the *)
(* others.  A crash drops the rest of every list.                          *)
(*                                                                         *)
(* Reads that follow one another at the start of a handler are one step.   *)
(***************************************************************************)
EXTENDS Delphi

CONSTANTS
    Loop,         \* the event loop
    Desk,         \* the threads that serve operator requests
    Cost,         \* bound: what an operator request counts for
    MaxCost,      \* bound: operator requests and crashes, by their cost
    MaxCrashes    \* bound: crashes of the broker

ASSUME ThreadAssumption ==
    /\ Loop \notin Desk
    /\ Cost \in [OperatorActionKinds -> Nat \ {0}]
    /\ {MaxCost, MaxCrashes} \subseteq Nat

Threads == {Loop} \cup Desk

VARIABLES
    work,        \* thread -> what is left of its handler
    overtaken,   \* history: rows (or the list of the pair rounds) that two handlers were
                 \* between reading and writing at once
    nudges,      \* nudge requests so far, by cost; overrides counts the others
    crashes      \* crashes so far

tables == <<session, rounds, iters, reviews, skipped, finalized>>
stepVars == <<vars, work, overtaken, nudges, crashes>>

-----------------------------------------------------------------------------
(***************************************************************************)
(* Statements.  A handler refers to the round it created last (made) and   *)
(* the iteration it inserted last (asked) as New.                          *)
(***************************************************************************)
New == 0

OpenRoundStmt(type, host) == [op |-> "open_round", type |-> type, host |-> host]
SetRoundStmt(r, status, outcome) ==
    [op |-> "set_round", round |-> r, status |-> status, outcome |-> outcome]
NumberStmt(r, src, dst, input) ==
    [op |-> "number", round |-> r, src |-> src, dst |-> dst, input |-> input]
InsertStmt(r, n, src, dst, input) ==
    [op |-> "insert", round |-> r, num |-> n, src |-> src, dst |-> dst, input |-> input]
CheckStmt(i, status) == [op |-> "check", request |-> i, status |-> status]
ReleaseStmt(i, nudged) == [op |-> "release", request |-> i, nudged |-> nudged]
RecordStmt(i, output, assess) ==
    [op |-> "record", request |-> i, output |-> output, assess |-> assess]
SetSessionStmt(status) == [op |-> "set_session", status |-> status]
FinalizeStmt(output) == [op |-> "finalize", output |-> output]
WriteSkipsStmt(S) == [op |-> "write_skips", skips |-> S]
\* Reads that decide what comes next, about a round or a text.
ReadStmt(op, about) == [op |-> op, about |-> about]

Idle == [todo |-> <<>>, made |-> New, asked |-> New]

Busy == {h \in Threads : work[h].todo # <<>>}
Current(h) == work[h].todo[1]
At(h, op) == Current(h).op = op
RoundOf(h) == IF Current(h).round = New THEN work[h].made ELSE Current(h).round
RequestOf(h) == IF Current(h).request = New THEN work[h].asked ELSE Current(h).request

Resting(w) == IF w.todo = <<>> THEN Idle ELSE w

Rest(h) == Tail(work[h].todo)

\* The statement is done (or was a read that led to the statements of s).
Proceed(h, s) == work' = [work EXCEPT ![h] = Resting([work[h] EXCEPT !.todo = s \o Rest(h)])]
Abandon(h) == work' = [work EXCEPT ![h] = Idle]
Begin(h, s) == work' = [work EXCEPT ![h] = Resting([Idle EXCEPT !.todo = s])]

Statement ==
    [op: {"open_round"}, type: RoundTypes, host: Hosts \cup {None}]
    \cup [op: {"set_round"}, round: Nat, status: RoundStatuses, outcome: Texts \cup {None}]
    \cup [op: {"number"}, round: Nat, src: Agents \cup {None}, dst: Agents, input: Inputs]
    \cup [op: {"insert"}, round: Nat, num: Nat \ {0}, src: Agents \cup {None}, dst: Agents,
          input: Inputs]
    \cup [op: {"check"}, request: Nat, status: IterationStatuses]
    \cup [op: {"release"}, request: Nat, nudged: BOOLEAN]
    \cup [op: {"record"}, request: Nat, output: Texts, assess: {"converged", "more_work_needed"}]
    \cup [op: {"set_session"}, status: SessionStatuses]
    \cup [op: {"finalize"}, output: Texts]
    \cup [op: {"write_skips"}, skips: SUBSET Agents]
    \cup [op: {"advance", "close", "tally"}, about: Nat \ {0}]
    \cup [op: {"maybe_advance", "reconcile", "arbitrate", "execute"}, about: {None}]
    \cup [op: {"ask_reviewers"}, about: Texts]
    \cup [op: {"weigh", "mediate"}, about: SUBSET Agents]

\* Type invariant: the tables, and handlers whose references resolve.
StepsTypeOK ==
    /\ TypeOK
    /\ work \in [Threads -> [todo: Seq(Statement), made: Nat, asked: Nat]]
    /\ \A h \in Threads : work[h].made <= Len(rounds) /\ work[h].asked <= Len(iters)
    /\ overtaken \subseteq ({"request", "numbers", "status", "skipped", "rounds"} \X Nat)
    /\ {nudges, crashes} \subseteq Nat

(***************************************************************************)
(* Rows a handler is about to write on the strength of an earlier read.    *)
(***************************************************************************)
\* The statement a handler is at.
WritesNext(h) ==
    CASE At(h, "release") \/ At(h, "record") -> {<<"request", RequestOf(h)>>}
      [] At(h, "insert") -> {<<"numbers", RoundOf(h)>>}
      [] At(h, "set_round") -> {<<"status", RoundOf(h)>>}
      [] At(h, "write_skips") -> {<<"skipped", New>>}
      [] OTHER -> {}

\* The rounds it has listed, or found in need of reopening, at its start.
WritesLater(h) ==
    {<<"status", s.round>> : s \in {t \in Elements(work[h].todo) :
        t.op = "set_round" /\ t.round # New /\ t.status \in {"in_progress", "aborted"}}}
    \cup {<<"status", s.about>> : s \in {t \in Elements(work[h].todo) : t.op = "close"}}

\* The list of the pair rounds: those who judge by it, and those who still add
\* to it.
ListsRounds(h) ==
    IF \/ At(h, "maybe_advance") \/ At(h, "reconcile")
       \/ \E s \in Elements(work[h].todo) : s.op = "open_round" /\ s.type = "same_host_pair"
    THEN {<<"rounds", New>>} ELSE {}

HeldBy(h) == WritesNext(h) \cup WritesLater(h) \cup ListsRounds(h)

Contested ==
    UNION {HeldBy(p[1]) \cap HeldBy(p[2]) : p \in {q \in Busy \X Busy : q[1] # q[2]}}
-----------------------------------------------------------------------------
(***************************************************************************)
(* What the functions of workflow.py leave to do.                          *)
(***************************************************************************)
Ask(r, src, dst, input) == <<NumberStmt(r, src, dst, input)>>

\* Mutant: the session is moved on before the round exists.
SpawnAnnounced(type, host, requests, last) ==
    last \o <<OpenRoundStmt(type, host), SetRoundStmt(New, "in_progress", None)>> \o requests

\* create_round, update_round_status, the requests, update_session_status.
Spawn(type, host, requests, last) ==
    <<OpenRoundStmt(type, host), SetRoundStmt(New, "in_progress", None)>> \o requests \o last

\* One pair round per host, up to the first host without two workers.
SpawnPairs(input) ==
    LET n == Cardinality(ReadyHosts)
        host(k) == HostOrder[(k + 2) \div 3]
        stmt(k) ==
            CASE k % 3 = 1 -> OpenRoundStmt("same_host_pair", host(k))
              [] k % 3 = 2 -> SetRoundStmt(New, "in_progress", None)
              [] OTHER -> NumberStmt(New, None, Workers[host(k)][1], input)
    IN  [k \in 1..(3 * n) |-> stmt(k)]
            \o IF n = Len(HostOrder) THEN <<SetSessionStmt("round_1")>> ELSE <<>>

SpawnArbitration(input) ==
    Spawn("cross_host_arbitration", None, Ask(New, None, Arbitrator, input),
          <<SetSessionStmt("round_2")>>)

\* SELECT ... ORDER BY iter_num: duplicates keep the order of insertion, so
\* there is one such list.
Ordered(r) ==
    LET rows == IterationsOf(iters, r)
        byNum(i, j) == iters[i].num < iters[j].num \/ (iters[i].num = iters[j].num /\ i < j)
    IN  {[k \in DOMAIN s |-> iters[s[k]]] :
            s \in {q \in [1..Cardinality(rows) -> rows] :
                      \A j, k \in DOMAIN q : j < k => byNum(q[j], q[k])}}

\* list_rounds_for_session: the sequences that list S (there is one).
RoundNum ==
    [same_host_pair |-> 1, cross_host_arbitration |-> 2, multi_agent_review |-> 3, execute |-> 4]
Before(q, r) ==
    \/ RoundNum[rounds[q].type] < RoundNum[rounds[r].type]
    \/ /\ rounds[q].type = rounds[r].type
       /\ q # r
       /\ IF rounds[q].type = "same_host_pair" THEN ListedBefore(q, r) ELSE q < r
Listings(S) ==
    {s \in [1..Cardinality(S) -> S] : \A j, k \in DOMAIN s : j < k => Before(s[j], s[k])}

-----------------------------------------------------------------------------
(***************************************************************************)
(* Writes.  Each is one UPDATE or INSERT with its commit.                  *)
(***************************************************************************)
OpenRound(h) ==
    /\ At(h, "open_round")
    /\ rounds' = Append(rounds, [NewRound(Current(h).type, Current(h).host)
                                    EXCEPT !.status = "pending"])
    /\ work' = [work EXCEPT ![h] =
                   Resting([work[h] EXCEPT !.todo = Rest(h), !.made = Len(rounds) + 1])]
    /\ UNCHANGED <<session, iters, reviews, skipped, finalized>>

SetRound(h) ==
    /\ At(h, "set_round")
    /\ rounds' = UpdateRound(rounds, RoundOf(h), Current(h).status, Current(h).outcome)
    /\ Proceed(h, <<>>)
    /\ UNCHANGED <<session, iters, reviews, skipped, finalized>>

\* Mutant: the request refers to the round as its handler does.
InsertUnresolved(h) ==
    /\ At(h, "insert")
    /\ LET s == Current(h)
       IN  iters' = Append(iters, NewIteration(s.round, s.num, s.src, s.dst, s.input))
    /\ work' = [work EXCEPT ![h] =
                   Resting([work[h] EXCEPT !.todo = Rest(h), !.asked = Len(iters) + 1])]
    /\ UNCHANGED <<session, rounds, reviews, skipped, finalized>>

Insert(h) ==
    /\ At(h, "insert")
    /\ LET s == Current(h)
       IN  iters' = Append(iters, NewIteration(RoundOf(h), s.num, s.src, s.dst, s.input))
    /\ work' = [work EXCEPT ![h] =
                   Resting([work[h] EXCEPT !.todo = Rest(h), !.asked = Len(iters) + 1])]
    /\ UNCHANGED <<session, rounds, reviews, skipped, finalized>>

\* The UPDATE names the row alone: whatever became of it since the check.
Release(h) ==
    /\ At(h, "release")
    /\ iters' = [iters EXCEPT ![RequestOf(h)].status = "awaiting_destination",
                              ![RequestOf(h)].nudged = Current(h).nudged]
    /\ Proceed(h, <<>>)
    /\ UNCHANGED <<session, rounds, reviews, skipped, finalized>>

Record(h) ==
    /\ At(h, "record")
    /\ iters' = Respond(iters, RequestOf(h), Current(h).output, Current(h).assess)
    /\ Proceed(h, <<>>)
    /\ UNCHANGED <<session, rounds, reviews, skipped, finalized>>

SetSession(h) ==
    /\ At(h, "set_session")
    /\ session' = Current(h).status
    /\ Proceed(h, <<>>)
    /\ UNCHANGED <<rounds, iters, reviews, skipped, finalized>>

\* The event loop alone reads and writes finalized_prompt.
Finalize(h) ==
    /\ At(h, "finalize")
    /\ finalized' = IF Round2Outcome(rounds) # None THEN Round2Outcome(rounds)
                    ELSE Current(h).output
    /\ Proceed(h, <<>>)
    /\ UNCHANGED <<session, rounds, iters, reviews, skipped>>

WriteSkips(h) ==
    /\ At(h, "write_skips")
    /\ skipped' = Current(h).skips
    /\ Proceed(h, <<>>)
    /\ UNCHANGED <<session, rounds, iters, reviews, finalized>>

Write ==
    \E h \in Busy :
        \/ OpenRound(h) \/ SetRound(h) \/ Insert(h) \/ Release(h) \/ Record(h)
        \/ SetSession(h) \/ Finalize(h) \/ WriteSkips(h)

-----------------------------------------------------------------------------
(***************************************************************************)
(* Reads.  What is read decides what the handler does next; raising drops  *)
(* the rest of it.                                                         *)
(***************************************************************************)
\* Mutant: the status is not looked at again.
CheckNothing(h) == At(h, "check") /\ Proceed(h, <<>>)

Check(h) ==
    /\ At(h, "check")
    /\ \/ iters[RequestOf(h)].status = Current(h).status /\ Proceed(h, <<>>)
       \/ iters[RequestOf(h)].status # Current(h).status /\ Abandon(h)

\* Mutant: numbers after the answers instead of after the latest request.
NumberByAnswers(h) ==
    /\ At(h, "number")
    /\ LET s == Current(h)
       IN  Proceed(h, <<InsertStmt(s.round, NextNumByAnswers(iters, RoundOf(h)),
                                   s.src, s.dst, s.input)>>)

\* latest_iteration_for_round: ORDER BY iter_num DESC LIMIT 1.
Number(h) ==
    /\ At(h, "number")
    /\ LET s == Current(h)
           nums == {iters[i].num : i \in IterationsOf(iters, RoundOf(h))}
           n == IF nums = {} THEN 1 ELSE Latest(nums) + 1
       IN  Proceed(h, <<InsertStmt(s.round, n, s.src, s.dst, s.input)>>)

\* _advance_round_1 reads the iterations after the answer is recorded.
Advance(h) ==
    /\ At(h, "advance")
    /\ LET r == Current(h).about
       IN  \E t \in Ordered(r) :
               LET last == t[LatestAnswered(t, r)]
               IN  \/ /\ Stalled(t, r) \/ DetectOscillation(t, r)
                      /\ Proceed(h, <<SetRoundStmt(r, "escalated", None),
                                      SetSessionStmt("escalated")>>)
                   \/ /\ IsConverged(t, r)
                      /\ Proceed(h, <<SetRoundStmt(r, "converged", last.output),
                                      ReadStmt("maybe_advance", None)>>)
                   \/ /\ ~Stalled(t, r) /\ ~DetectOscillation(t, r) /\ ~IsConverged(t, r)
                      /\ Proceed(h, Ask(r, last.dst, OtherAgentOnHost(rounds[r].host, last.dst),
                                        Draft(last.output)))

\* _maybe_advance_to_round_2 lists the rounds twice: for their status, then for
\* their outcomes.
MaybeAdvance(h) ==
    /\ At(h, "maybe_advance")
    /\ IF \A r \in RoundsOfType(rounds, "same_host_pair") : rounds[r].status = "converged"
       THEN Proceed(h, <<ReadStmt("reconcile", None)>>)
       ELSE Proceed(h, <<>>)

Reconcile(h) ==
    LET outcomes == RoundOutcomesPerHost(rounds)
    IN  /\ At(h, "reconcile")
        /\ IF Irreconcilable(outcomes)
           THEN Proceed(h, <<SetSessionStmt("escalated")>>)
           ELSE Proceed(h, SpawnArbitration(ArbitratorInput(outcomes)))

\* _proceed_to_arbitrator takes the outcomes as they are.
Arbitrate(h) ==
    /\ At(h, "arbitrate")
    /\ Proceed(h, SpawnArbitration(ArbitratorInput(RoundOutcomesPerHost(rounds))))

\* _outputs_for_round of a round that is closed by the operator.
Close(h) ==
    /\ At(h, "close")
    /\ LET r == Current(h).about
       IN  \E t \in Ordered(r) :
               IF Answered(t, r) = {} THEN Abandon(h)
               ELSE Proceed(h, <<SetRoundStmt(r, "converged", t[LatestAnswered(t, r)].output)>>)

\* _expected_reviewers_for_session, once the synthesis is stored.
AskReviewers(h) ==
    /\ At(h, "ask_reviewers")
    /\ \/ ExpectedReviewers = {} /\ Abandon(h)
       \/ /\ ExpectedReviewers # {}
          /\ \E order \in [1..Cardinality(ExpectedReviewers) -> ExpectedReviewers] :
                 /\ \A j, k \in DOMAIN order : j < k => Precedes(order[j], order[k])
                 /\ Proceed(h, Spawn("multi_agent_review", None,
                        [k \in DOMAIN order |->
                            NumberStmt(New, None, order[k], Draft(Current(h).about))],
                        <<SetSessionStmt("round_3")>>))

\* on_review_emitted, once the review is stored.
Tally(h) ==
    /\ At(h, "tally")
    /\ LET r == Current(h).about
           rejecters == RejectersOf(reviews, r)
       IN  IF ~(ExpectedReviewers \subseteq ReviewersOf(reviews, r)) THEN Proceed(h, <<>>)
           ELSE Proceed(h, <<SetRoundStmt(r, "complete", None),
                             IF rejecters = {} THEN ReadStmt("execute", None)
                             ELSE ReadStmt("weigh", rejecters)>>)

\* _mediation_attempt_count
Weigh(h) ==
    /\ At(h, "weigh")
    /\ IF MediationAttempts(rounds) < MAX_MEDIATION_ATTEMPTS
       THEN Proceed(h, <<ReadStmt("mediate", Current(h).about)>>)
       ELSE Proceed(h, SpawnPairs(ProblemWith(Current(h).about)))

Mediate(h) ==
    /\ At(h, "mediate")
    /\ Proceed(h, SpawnArbitration(MediationInput(Round2Outcome(rounds), Current(h).about)))

\* An empty prompt is refused when the round is open already.
Execute(h) ==
    /\ At(h, "execute")
    /\ IF Round2Outcome(rounds) = None
       THEN Proceed(h, Spawn("execute", None, <<>>, <<>>))
       ELSE Proceed(h, Spawn("execute", None,
                Ask(New, None, Executor, Draft(Round2Outcome(rounds))),
                <<SetSessionStmt("executing")>>))

Read ==
    /\ \E h \in Busy :
           \/ Check(h) \/ Number(h) \/ Advance(h) \/ MaybeAdvance(h) \/ Reconcile(h)
           \/ Arbitrate(h) \/ Close(h) \/ AskReviewers(h) \/ Tally(h) \/ Weigh(h)
           \/ Mediate(h) \/ Execute(h)
    /\ UNCHANGED tables

-----------------------------------------------------------------------------
(***************************************************************************)
(* Handlers: the first read (or, where nothing is read, the first write)   *)
(* and the statements it leads to.                                         *)
(***************************************************************************)
CreateSession(h) ==
    /\ session = "none"
    /\ HostOrder # <<>>
    /\ session' = "drafting"
    /\ Begin(h, SpawnPairs(Problem))
    /\ UNCHANGED <<rounds, iters, reviews, skipped, finalized>>

\* Mutant: an answer is taken whatever the request has become.
RespondUnchecked(i, output, assess) ==
    LET r == iters[i].round
    IN  /\ iters[i].status \in {"awaiting_destination", "complete"}
        /\ Begin(Loop, <<RecordStmt(i, output, assess)>> \o
              IF rounds[r].type = "same_host_pair" THEN <<ReadStmt("advance", r)>>
              ELSE <<SetRoundStmt(r, "complete", output), ReadStmt("ask_reviewers", output)>>)
        /\ rounds[r].type = "same_host_pair" => output \in Drafts
        /\ rounds[r].type = "cross_host_arbitration" => output \in Syntheses
        /\ rounds[r].type \in {"same_host_pair", "cross_host_arbitration"}
        /\ UNCHANGED tables

\* Nobody reads what the arbitrator thinks of its own synthesis.
DestinationResponds(i, output, assess) ==
    LET r == iters[i].round
    IN  /\ \/ /\ CanRespond(i, "same_host_pair")
              /\ output \in Drafts
              /\ Begin(Loop, <<RecordStmt(i, output, assess), ReadStmt("advance", r)>>)
           \/ /\ CanRespond(i, "cross_host_arbitration")
              /\ output \in Syntheses /\ assess = "converged"
              /\ Begin(Loop, <<RecordStmt(i, output, assess),
                               SetRoundStmt(r, "complete", output),
                               ReadStmt("ask_reviewers", output)>>)
        /\ UNCHANGED tables

ReviewerDecides(r, a, decision) ==
    /\ rounds[r].type = "multi_agent_review"
    /\ OpenReviewRequest(r, a)
    /\ decision = "reject" => MayReject(r)
    /\ reviews' = reviews \cup {[round |-> r, reviewer |-> a, decision |-> decision]}
    /\ Begin(Loop, <<ReadStmt("tally", r)>>)
    /\ UNCHANGED <<session, rounds, iters, skipped, finalized>>

\* An open nudge window is skipped first; the status is then checked again.
ExecutorReports(i, output, success) ==
    LET r == iters[i].round
        waited == IF iters[i].status = "awaiting_nudge"
                  THEN <<ReleaseStmt(i, FALSE), CheckStmt(i, "awaiting_destination")>> ELSE <<>>
        prompt == IF finalized = None THEN <<FinalizeStmt(output)>> ELSE <<>>
    IN  /\ CanExecute(i)
        /\ output \in Reports
        /\ IF success
           THEN Begin(Loop, waited \o <<RecordStmt(i, output, "converged"),
                                        SetRoundStmt(r, "complete", output)>>
                            \o prompt \o <<SetSessionStmt("complete")>>)
           ELSE Begin(Loop, waited \o <<RecordStmt(i, output, "more_work_needed"),
                                        SetRoundStmt(r, "escalated", output),
                                        SetSessionStmt("escalated")>>)
        /\ UNCHANGED tables

\* The windows up to some request have closed.  Each request is checked and
\* skipped in turn, the first one as it is listed; the first that has been
\* nudged meanwhile raises.
Sweep ==
    \E k \in AwaitingNudge :
        LET expired == {i \in AwaitingNudge : i <= k}
        IN  \E order \in [1..Cardinality(expired) -> expired] :
                /\ \A m, n \in DOMAIN order : m < n => order[m] < order[n]
                /\ Begin(Loop, [n \in 1..(2 * Len(order) - 1) |->
                       IF n % 2 = 1 THEN ReleaseStmt(order[(n + 1) \div 2], FALSE)
                       ELSE CheckStmt(order[n \div 2 + 1], "awaiting_nudge")])
                /\ UNCHANGED tables

NudgeOrSkip(h, i, submit) ==
    /\ "nudge" \in OperatorActions
    /\ i \in AwaitingNudge
    /\ Begin(h, <<ReleaseStmt(i, submit)>>)
    /\ UNCHANGED tables

Overrides(kind) ==
    /\ kind \in OperatorActions
    /\ overrides' = overrides + Cost[kind]
    /\ overrides' + nudges + crashes <= MaxCost

\* The rounds that were live when they were listed, then the session.
AbortSession(h) ==
    /\ Overrides("abort")
    /\ session # "none"
    /\ \E live \in Listings({r \in DOMAIN rounds : rounds[r].status \in {"in_progress", "pending"}}) :
           Begin(h, [k \in DOMAIN live |-> SetRoundStmt(live[k], "aborted", None)]
                    \o <<SetSessionStmt("aborted")>>)
    /\ UNCHANGED tables

ResolveByAbort(h) ==
    /\ Overrides("resolve_abort")
    /\ session # "none"
    /\ Begin(h, <<SetSessionStmt("aborted")>>)
    /\ UNCHANGED tables

\* The rounds of S are closed in turn, then comes the statement last.
CloseAll(h, S, last) ==
    \E listed \in Listings(S) :
        Begin(h, [k \in DOMAIN listed |-> ReadStmt("close", listed[k])] \o <<last>>)

ForceConverge(h) ==
    LET open == {r \in RoundsOfType(rounds, "same_host_pair") :
                    rounds[r].status \in {"in_progress", "escalated", "pending"}}
    IN  /\ Overrides("force_converge")
        /\ open # {}
        /\ CloseAll(h, open, ReadStmt("maybe_advance", None))
        /\ UNCHANGED tables

ToArbitrator(h) ==
    LET open == {r \in RoundsOfType(rounds, "same_host_pair") : rounds[r].status # "converged"}
    IN  /\ Overrides("proceed_to_arbitrator")
        /\ session = "escalated"
        /\ CloseAll(h, open, ReadStmt("arbitrate", None))
        /\ UNCHANGED tables

\* Round and session are set back on the strength of what was read at first.  The
\* iteration is looked up by its id alone, here always one of the one session.
RetryRequest(h, i, submit) ==
    LET it == iters[i]
        r == it.round
        nudge == IF submit
                 THEN <<CheckStmt(New, "awaiting_nudge"), ReleaseStmt(New, TRUE)>> ELSE <<>>
        reopen == IF rounds[r].status \in {"escalated", "pending"}
                  THEN <<SetRoundStmt(r, "in_progress", None)>> ELSE <<>>
        resume == IF session = "escalated" THEN <<SetSessionStmt("round_1")>> ELSE <<>>
    IN  /\ Overrides("retry")
        /\ Begin(h, Ask(r, it.dst, IF it.src = None THEN it.dst ELSE it.src,
                        IF it.output = None THEN it.input ELSE Draft(it.output))
                    \o nudge \o reopen \o resume)
        /\ UNCHANGED tables

\* The list is read whole and written whole.
SkipReviewer(h, a) ==
    /\ Overrides("skip_agent")
    /\ session # "none"
    /\ a \notin skipped
    /\ Begin(h, <<WriteSkipsStmt(skipped \cup {a})>>)
    /\ UNCHANGED tables

-----------------------------------------------------------------------------
StepsInit ==
    /\ Init
    /\ work = [h \in Threads |-> Idle]
    /\ overtaken = {}
    /\ nudges = 0
    /\ crashes = 0

\* Agents call the tools for what is in their inbox.
AgentCall ==
    \/ \E i \in DOMAIN iters, output \in Texts, assess \in {"converged", "more_work_needed"} :
           DestinationResponds(i, output, assess)
    \/ \E r \in DOMAIN rounds, a \in Agents, decision \in {"approve", "reject"} :
           ReviewerDecides(r, a, decision)
    \/ \E i \in DOMAIN iters, output \in Texts, success \in BOOLEAN :
           ExecutorReports(i, output, success)

Override(h) ==
    \/ AbortSession(h) \/ ResolveByAbort(h) \/ ForceConverge(h) \/ ToArbitrator(h)
    \/ \E i \in DOMAIN iters, submit \in BOOLEAN : RetryRequest(h, i, submit)
    \/ \E a \in AllWorkers : SkipReviewer(h, a)

Crash ==
    /\ crashes < MaxCrashes /\ overrides + nudges + crashes < MaxCost
    /\ Busy # {}
    /\ work' = [h \in Threads |-> Idle]
    /\ crashes' = crashes + 1
    /\ UNCHANGED <<tables, overrides, nudges>>

Handle ==
    \/ /\ \/ Write \/ Read
          \/ Loop \notin Busy /\ (AgentCall \/ Sweep)
          \/ \E h \in Desk \ Busy : CreateSession(h)
       /\ UNCHANGED <<overrides, nudges, crashes>>
    \/ /\ nudges' = nudges + Cost["nudge"]
       /\ overrides + nudges' + crashes <= MaxCost
       /\ \E h \in Desk \ Busy, i \in DOMAIN iters, submit \in BOOLEAN : NudgeOrSkip(h, i, submit)
       /\ UNCHANGED <<overrides, crashes>>
    \/ /\ \E h \in Desk \ Busy : Override(h)
       /\ UNCHANGED <<nudges, crashes>>

StepsNext ==
    /\ Handle \/ Crash
    /\ WithinBounds
    /\ overtaken' = overtaken \cup Contested'

StepsSpec == StepsInit /\ [][StepsNext]_stepVars
=============================================================================
