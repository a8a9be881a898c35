# A verification development for agent_broker

TLA+ models of the broker's state machines, the TLC configurations that check
them on small instances, and TLAPS proofs of what holds for every instance.
Paths are relative to the repository (`src/agent_broker/...`).

## 1. The system

The broker stands between AI agents on several hosts, which reach it over MCP
tools, and a human operator, who uses REST routes and HTML forms. It stores
everything in SQLite. It is really four state machines that share a process, a
registry of agents and the database file.

| part | state | operations | driven by |
|---|---|---|---|
| **Delphi workflow** (`workflow.py`, `database.py`, `mcp_server.py`, `routes/`) | `sessions`, `rounds`, `iterations`, `reviews` | start, emit_response, emit_review, executor_emit, nudge, abort, resolve_escalation (abort, force_converge, retry, skip_agent, proceed_to_arbitrator) | agents, operator, nudge sweep |
| **v3 tasks** (`v3/`) | `tasks`, `dispatches`, worker outputs, aggregations | create, dispatch, emit_output, aggregate, approve, refine, abort | primaries and workers, operator |
| **Collaboration** (`collaboration/`) | drafts, decisions, deliverables, receipts | propose, decide (approve, edit, redirect, reject), operator message, poll, ack, get thread | agents, operator |
| **Peer delivery** (`peer/`) | threads, messages, receipts, audit events | send, poll, ack, get thread, mark read, transcript | agents, operator |

Around them: the registry and configuration (`config.py`,
`peer/identity_service.py`), authentication (`transport_policy.py`), payload
contracts (`models.py`, `*_contracts.py`), the pages, the client helper. The
parts interact only through the registry: a workflow never calls the
collaboration or peer services.

**How it is scheduled.** MCP tools and the nudge sweep (`main.py`
`_nudge_sweep_loop`, every 30 s) run on the event loop, one at a time. REST
routes and forms are synchronous functions that FastAPI runs in a thread pool,
each on its own SQLite connection, so they interleave with everything. In the
Delphi part every function of `database.py` commits by itself: a handler is a
series of transactions. A collaboration or peer write is a single `BEGIN
IMMEDIATE` transaction; what its handler read before belongs to no transaction.
A v3 handler takes the write lock with its first `INSERT` or `UPDATE` and holds it
until it commits; what it read before may be stale by then.

**What is hard.**

* Nothing ties a request to the state of its session. Handlers ask for the
  status of the iteration or the round, so answers that arrive after an abort,
  an escalation or a completed round are processed.
* The synthesis is not passed along: reviewers, executor and final prompt each
  look up the latest arbitration again.
* Two hosts iterate at the same time and finish in either order.
* Retry, force_converge and proceed_to_arbitrator enter the workflow from the
  side, at any stage (only proceed_to_arbitrator demands an escalated session).
* A handler that raises half way keeps what it had committed.
* For the messaging parts: at-least-once delivery, repeated acknowledgements,
  batch limits, two operators deciding at once.

**What makes each part correct.**

* *Delphi*: hosts iterate in isolation; the pair relays strictly and converges
  only on two agreeing answers; arbitration sees every host's converged outcome;
  only a synthesis all reviewers approved is executed; mediation is bounded and
  concerns what was rejected; the final prompt is what was executed and never
  changes; recorded answers never change; a running session always waits for
  somebody, and settles.
* *Collaboration*: an agent sees its own writing and what was released to it, in
  the released form, and nothing else; a draft is decided on once, however many
  operators try; what an operator is told is true; a released message is
  delivered until it is acknowledged, across lost answers and restarts.
* *Delphi between two commits*: whatever is cut off or overtaken, the status of the
  session never runs ahead of its rounds, and what was accepted stays.
* *Peer delivery*: every message reaches its recipients until acknowledged, across
  restarts with an edited registry; receipts and audit log tell one story; governed
  participants stay out.
* *v3 tasks*: only what the orchestrator decided done is completed; nothing happens
  to a task after its end but by handlers that had read it before; the audit log
  accounts for its status; workers are heard.

## 2. The modules

| module | content |
|---|---|
| `Delphi` | the session workflow: state, one action per handler, the next-state relation, fairness |
| `DelphiProperties` | what it should guarantee, in three groups, and the refinement mapping |
| `SessionFlow` | its abstract specification: phase, synthesis, votes, turn-downs, final prompt |
| `DelphiProofs` | theorems about `Delphi`: the tables, the transcript, and each request: isolation, numbering, the mediation budget |
| `DelphiApprovalProofs` | theorems about synthesis, review and execution when nothing is forced |
| `DelphiStageProofs` | theorems about the pairs and the stages of a session that nobody forces, and the refinement of `SessionFlow` |
| `BrokerSteps`, `BrokerStepsProperties` | the same workflow one database statement at a time, with operator threads and crashes |
| `BrokerStepsProofs` | theorems about `BrokerSteps`: what interleaving and crashes cannot break, and what it takes to |
| `BrokerStepsCalmProofs` | a theorem about `BrokerSteps`: what holds of whole handlers holds inside them, while none overtakes another |
| `Collaboration` | operator-mediated messages, operator requests split at the write lock, crashes |
| `CollaborationProperties` | its properties and the mapping to `Gate` |
| `Gate` | its abstract specification: messages are ruled on once, released ones are handed over, then settled |
| `CollaborationProofs` | theorems about `Collaboration`, the refinement of `Gate` among them |
| `PeerDelivery` | direct messages, their audit log, the operator's transcript, restarts with an edited registry |
| `PeerProperties` | its properties and the mapping to `Mailbox` |
| `Mailbox` | its abstract specification: mail is posted, handed over oldest first until settled, settled once |
| `PeerProofs` | theorems about `PeerDelivery`, the refinement of `Mailbox` among them |
| `Tasks`, `TasksProperties` | the v3 tasks, every handler split into its unlocked reads and its transaction |
| `TasksProofs` | theorems about `Tasks` |
| `MCDelphi`, `MCBrokerSteps`, `MCCollaboration`, `MCPeer`, `MCTasks` | the instances for TLC |

The four parts share no state but the registry, so no module composes two of them.
`BrokerSteps` extends `Delphi`: it has the same tables and helpers and its own actions.

### Delphi: state and actions

A variable per table or column: `session` is `sessions.status`, `rounds` and
`iters` are the rows of their tables in order of creation, `reviews` is a set
because `(round, reviewer)` is all the code asks of it, `skipped` and `finalized`
are columns of the session. One session is modelled. The handlers find round and
session from the row they are given, so sessions do not meet, with one exception:
`_retry_iteration` (`workflow.py:697-721`) does not ask whether the iteration belongs to
the session the operator names (`post_nudge` does, `routes/api.py:197`). A retry of
another session's iteration would reopen the round of the one and set back the status of
the other; that case is not in the model. `overrides` counts interventions and faults, for the bound.

`iterations.source_output` is text. The model keeps what distinguishes the
texts: the problem, a draft, the outcomes put before the arbitrator, or the
rejected synthesis with the reviewers who rejected it. Drafts, syntheses and
reports are opaque; `difflib`'s ratio is the constant `Similarity`, in percent,
and the three thresholds of `workflow.py:47-52` are compared with it.

| code | action |
|---|---|
| `start_session` | `StartSession` |
| `delphi_emit_response`, `on_destination_response`, `_advance_round_1/2`, `_maybe_advance_to_round_2` | `EmitResponse` (`RespondInRound1`, `RespondInRound2`) |
| the same on a review or execute iteration, recorded and then refused | `RespondWithWrongTool` |
| `delphi_emit_review`, `on_review_emitted` | `EmitReview`, in the agent's own time (`AgentStep`) or unrequested (`AgentFault`) |
| `delphi_executor_emit`, `on_executor_emitted` | `ExecutorSucceeds`, `ExecutorFails` |
| `auto_skip_expired_nudges` | `AutoSkipExpiredNudges` |
| `post_nudge`, `post_abort` | `PostNudge`, `PostAbort` |
| `resolve_escalation` | `ResolveAbort`, `ForceConvergeRound1`, `RetryIteration`, `SkipAgent`, `ProceedToArbitrator` |

A handler is one step, including what it leaves behind when it raises: the
rounds before a malformed host (`SpawnRound1`), an execute round without a
request (`SpawnExecuteRound`), a completed arbitration with nobody left to
review it (`RespondInRound2`), the rounds closed before one without an output
(`Closable`). That is exact for MCP tools and the sweep among themselves, which do
not interleave; the operator's routes interleave with them and with each other, and
a crash may fall anywhere. `Delphi` is the workflow as it is meant, `BrokerSteps` adds
what happens between the statements.

Windows all have one length, so a sweep expires the iterations created up to
some moment; when is left open, as agents and clocks are not synchronised.

What an agent may do is split in two. `AgentStep` answers what its inbox
(`delphi_poll_inbox`) shows. `AgentFault` is what the tools accept beyond that:
a review repeated, late, or by an agent that is not expected, and
emit_response on a request of another kind. The operator's interventions are
`OperatorRoutine` (open a session, submit or skip a nudge) and
`OperatorOverride` (everything else). The constants `OperatorActions` and
`AgentFaults` say which kinds a run allows.

### BrokerSteps: state and actions

`work[h]` is what thread `h` has left of its handler: a list of statements, each of
which is one function of `database.py` with its commit, or a read that decides what
comes next. `Loop` is the event loop, which runs one tool or sweep at a time; each
element of `Desk` is a thread serving one operator request. `Handle` lets any busy
thread take its next statement (`Write`, `Read`) and any idle one begin a handler;
`Crash` empties every list and keeps the tables. A handler that inserts a row refers to
it afterwards: `New` stands for the round or iteration it created last.

| code | the handler begins with | and its later reads are |
|---|---|---|
| `start_session` | `CreateSession` | `Number` |
| `delphi_emit_response`, `on_destination_response` | `DestinationResponds` | `Advance`, `MaybeAdvance`, `Reconcile`, `AskReviewers`, `Number` |
| `delphi_emit_review`, `on_review_emitted` | `ReviewerDecides` | `Tally`, `Weigh`, `Mediate`, `Execute`, `Number` |
| `delphi_executor_emit`, `on_executor_emitted` | `ExecutorReports` | `Check` |
| `auto_skip_expired_nudges` | `Sweep` | `Check` |
| `post_nudge`, `apply_nudge` | `NudgeOrSkip` | |
| `post_abort` | `AbortSession` | |
| `resolve_escalation` | `ResolveByAbort`, `ForceConverge`, `ToArbitrator`, `RetryRequest`, `SkipReviewer` | `Close`, `MaybeAdvance`, `Reconcile`, `Arbitrate`, `Number`, `Check` |

Reads that follow one another at the start of a handler are one step, and a check
that raises drops the rest (`Abandon`). `overtaken` is a history: the rows that two
handlers were between reading and writing at the same time (`Contested`), and the
list of the pairs, if somebody judged by it while somebody else was still adding to
it. The properties say what holds wherever nobody was overtaken, and so where exactly a race
can do damage: an answer taken back by a nudge, a nudge dropped by a sweep, a skip
dropped by another, an aborted round resumed, two requests with one number. All four
are within the reach of this model; that they happen is not contradicted by any
statement of the repository.

### SessionFlow and the refinement

`SessionFlow` knows nothing of rounds and inboxes: a phase, the synthesis on
the table, a vote per reviewer, the number of rejected syntheses and the final
prompt. `DelphiProperties!Flow` reads these off the tables, e.g. the votes are
the reviews of the latest review round, and the turn-downs are the completed
review rounds with a rejection, while the code counts arbitration rounds. That
the two agree is one of the things the refinement says. Run `flow` checks it on one
host, `DelphiStageProofs` proves it for any number of them.

### Collaboration: state and actions

`drafts` and `decisions` are sequences of the same length: row `d` of the second
is the row of `collab_operator_decisions` for draft `d`, or `Pending`. A deliverable
needs no variable: `draft_id` is UNIQUE in its table and it is inserted with an
approving decision, so deliverables are the drafts whose decision has recipients.
`delivered` and `acked` are the receipts with the time stamp set. `known` is not in
the database: it is what the broker's answers have shown each agent, which is what
"approval-gated" is about. `calls` are the operators' requests on the thread pool,
and what their callers were told.

| code | action |
|---|---|
| `propose` | `Propose` |
| `poll`, answered | `Poll` |
| `poll`, the answer lost or the broker restarted after some of its per-message transactions | `PollUnanswered` |
| `ack`, `mark_acked` | `Ack` |
| `get_thread`, `_thread_view` | `GetThread` |
| `decide` up to `BEGIN IMMEDIATE`, with `_normalize_decision` | `BeginDecide` |
| `decide`, the transaction | `CommitDecide` |
| `send_operator_message`, likewise | `BeginMessage`, `CommitMessage` |
| the process dies | `Crash` |

MCP tools run on the event loop without an `await` between read and write, so they
are single steps; operator handlers are not, and between their halves anything may
happen. The loser of a race meets the UNIQUE constraint: its transaction is rolled
back and the request fails.

Abstracted: recipient lists are sets; text and payload are one content; all new
threads have one subject; reasons, `parent_message_id` and the visibility flags of
probe participants are left out; time stamps are unique. A write that fails because
the database stays locked behaves like a request that was never sent. The
triggers of the schema are defences: no handler runs into them, so they are not
actions but what `TypeOK` says.

`Gate` promises three things: one ruling per message, hand-over only of what was
released and to whom, acknowledgement only after hand-over. `Collaboration` maps a
pending decision to an unruled message, a rejection to a held one, the rest to a
release with form and audience.

### Peer delivery: state and actions

`messages` holds each message with its recipients, `delivered` and `acked` the
receipts' time stamps, `events` the audit log in commit order, `known` what the
participants were shown. `Editions` is `config/agents.json` as the operator edits it,
`edition` the version the process has read at its start, `since` a history of when a
participant left the direct lane.

| code | action |
|---|---|
| `send`, `_resolve_recipients` and the transaction | `Send` |
| `poll`, answered; the answer lost | `Poll`; `PollUnanswered` |
| `ack`, `ack_message` | `Ack` |
| `get_thread` | `GetThread` |
| `mark_read` (operator) | `MarkRead` |
| `get_thread_transcript` (operator): messages, receipts, events, the answer | `ReadMessages`, `ReadRows("receipts")`, `ReadRows("events")`, `CloseTranscript` |
| the process ends and starts with the file as it is then | `Restart` |

The tools write in one transaction each on the event loop, so a crash falls between
two steps. The transcript is three SELECTs on its own connection with the tools
writing in between. The inbox and outbox listings only read.

`Mailbox` knows mail and a log. It is told nothing of receipts: what is unsettled is
what the log does not show as acknowledged. That the receipts say the same is one of
the things the refinement (`ImplementsMailbox`) checks.

### Tasks: state and actions

One task: no handler decides anything by another task's rows. `log` keeps the
entries of `v3_task_events` that carry a status, and the operator's refine comment,
which shares a transaction with one. `tool` is the `delphi_v3_dispatch` call on the
event loop, `calls` the operator's requests; both carry the status they read (the call
two of them: `found` is what the tool's own check saw, `seen` what `create_dispatch` saw
when it looked again).
`refused` remembers the dispatches whose answer was turned away.

| code | action |
|---|---|
| `create_task` | `CreateTask` |
| `delphi_v3_dispatch`: the tool's check, `create_dispatch`'s read, its transaction | `BeginDispatch`, `ReadTask`, `CreateDispatch` |
| `delphi_v3_emit_output`, `record_worker_output`, `update_dispatch_status` | `EmitOutput` |
| `delphi_v3_aggregate`, `create_aggregation` | `Aggregate` |
| `approve`: the route's check, then `finalize_task` | `BeginApprove`, `Approve` |
| `refine`: the check, then comment and status | `BeginRefine`, `Refine` |
| `abort` with a reason: the event takes the lock before the status is read | `BeginAbort`, `AbortWithReason` |
| `abort` without: `update_task_status` reads before its UPDATE | `BeginAbort`, `ValidateAbort`, `Abort` |
| the process dies, uncommitted work is rolled back | `Crash` |

`update_task_status` is `UpdateTaskStatus`, with its two odd corners: the same status
again returns without a commit, and a transition that is not allowed raises, so
that the caller's connection is closed and everything rolled back.

## 3. The runs

| run | instance | question | distinct states |
|---|---|---|---|
| `flow` | one host, two workers, two syntheses, up to two rejected reviews, no interventions; fair | does the tables' history implement `SessionFlow`, is somebody always asked, does it settle? | 50,517 |
| `review` | one host, two syntheses, one rejected review, one nudge, one abort or skip at any time | is only an approved synthesis reviewed, executed and kept? | 649,700 |
| `pair` | two hosts, three drafts (two alike, one unlike), three iterations | isolation, strict relay, arbitration on converged outcomes | 315,382 |
| `override` | one host, any two overrides or faults, executions that report differently | what survives all of it | 825,643 |
| `steps` | one host, event loop and two operator threads, statement by statement, any one request of the operator (two skips) or one crash | status behind the tables, what was accepted stays, numbering, and `Delphi`'s properties between statements | 1,623,167 |
| `collab` | two agents, two drafts of one content and edits to another, two operator requests side by side; fair | disclosure, invitation, uniqueness, truthful replies, final rulings under every race; is `Gate` implemented and every released message acknowledged? | 235,332 |
| `peer` | an operator and a participant that is direct, then unregistered, then governed (or skips a stage); two messages; fair | is `Mailbox` implemented, audit log against receipts, the governed kept out, the transcript, delivery across restarts | 118,248 |
| `tasks` | two dispatches, two decisions, three operator requests, two at a time | completion, the end of a task, the audit log | 90,956 |
| `abort`, `retry`, `skip`, `heard` | as small as the counterexample allows | statements of the documents that the code does not keep | |

**Bounds: Delphi.** A mediation limit of 1 makes all of first arbitration, mediation and
restart happen within three review rounds; `MaxRounds` and `MaxIterations` are
above what such a session can create (10 rounds and 14 iterations in `flow` and
`review`, so they never cut it off). The relay limit 2 or 3 is the least that has an
answer before the stall. Three drafts are the least with a pair that converges,
a pair that goes on and a pair that oscillates. Two hosts are what isolation,
reconcilability and the order of convergence need; one host is enough for the
stages after arbitration, which do not look at hosts. Two overrides suffice for
the combinations that surprised us: a retry and a force_converge, a repeated
review after a retry. In `override` the bounds on rows do cut: it asks only
for safety. Eight requests and two reports are what `FinalPromptFrozen` needs: a
late review rejects the synthesis while it is being executed, the
arbitrator is asked again, and as that arbitration has no outcome yet, the execution's
report becomes the final prompt; then the execution is retried and reports something else,
which must not replace it. The reports are symmetric, as no handler
compares them. `MaxNudges` is 0 there, so that a retry with a nudge text, which is a retry
and a nudge in one, is left to run `steps` (`RetryRequest`) and to the proofs.

**Bounds: statements.** Every request of the operator costs 2 of `MaxCost` = 2 but a
skip, which costs 1, and so does a crash: a behaviour has one request of any kind
beside the tools and the sweep, or two skips, or a skip and a crash, or a crash.
(Opening the session is free.) One request against the event loop is every race of a
route with a tool or the sweep, and two skips are the race of two routes; two other
requests at once are not covered. One rejected review makes mediation happen; four
rounds and six requests are enough for mediation to be asked for, and do cut: the
execution after it is covered by `review`. The two operator threads are symmetric.
There is one host: the same instance with two hosts does not finish in minutes, so what
needs a second one, a pair that is judged while another is still to be opened (section
4), happens in no run. The theorems about `BrokerSteps` are about any number of hosts.

**Bounds: messages and tasks.** Two requests side by side are a race, and a draft has
one decision to race for. Two drafts are the least with a thread and a reply in it,
or with a message that commits after one with a later time stamp; a poll limit of 1
makes the order matter. A single correlation id is the collision. What is submitted is
one content (`Submitted`), and an edit may put a second one in its place, which is
what tells a released form from the original; the theorems are about any set of
contents, all of them submitted or not. `MaxDrafts` limits when a
request may start, not when it may commit. The operator and one participant are a
sender and a recipient either way, and the edits of the registry make the participant
somebody to keep out after it had been let in, with mail on its way; with a
poll limit of 2 there are batches. `MaxEvents` stops only what can be repeated for
ever (reads, polls in vain), never a send, an ack or a poll that brings news, so that
`EventuallyReceived` does not profit from it. Three requests on a task are an
approval, an abort that overtakes it and one more on what they leave behind.

**Deadlock** is checked in run `peer`, where somebody can always poll or the operator
can restart. In the others it is not: a session ends when it is complete, escalated or
aborted, a task when it is complete or aborted, and drafts run out with the bounds;
no step may be left then.

**Fairness** (`flow`): the session is opened; agents keep answering their inbox
(`WF` on `AgentStep`: an agent that never answers is the operator's business, and
no property promises anything then); the sweep loop runs, as `main.py` restarts it
after an exception on its next tick. Nothing is assumed of the operator, and
`Settles` is only claimed up to escalation. Rejections must stop (bound
`MaxRejectedRounds`): the code itself never gives up restarting. (`collab`, `peer`):
agents keep polling, with answers that arrive, and acknowledge what they were given;
they are clients that poll in a loop, and answers may be lost any number of times,
only not for ever. In `peer` that is asked only of participants that are registered, and
`EventuallyReceived` promises something only to those that stay registered. Operators need never act, and a request need never commit.

Properties of the first group of `DelphiProperties` hold under every
intervention and fault, those of the second without overrides other than skipping
and aborting. This is not a convenience: `retry`, `force_converge` and
`proceed_to_arbitrator` are documented as the operator's right to advance what
the workflow would not.

## 4. Where the documents and the code disagree

* **abort** — `routes/api.py:234-236` promises that nothing is dispatched after an
  abort. An open iteration of the session remains answerable, and its answer
  spawns the next one; it can even bring the session back to `round_2`.
* **retry** — retrying a failed execution hands the executor its own failure
  report, because `_retry_iteration` prefers the iteration's output to its input.
* **skip** — skipping the last pending reviewer (`DESIGN.md:237`) does not close
  the round; nobody is left whose review would.
* **heard** — a worker cannot answer a v3 dispatch: `record_worker_output` asks for
  the transition to `done`, which `update_dispatch_status` allows only from
  `in_progress` (`v3/database.py:402-408`), and nothing sets that status; no test
  emits an output. `TasksProofs!NothingIsRecorded` proves that
  no output is ever stored, in any instance.

Met while modelling, without a run of their own:

* `DESIGN.md:230`, "the broker never advances past a pause": when one host escalates,
  the other pair's relay goes on. Whether the pause is meant for the session or for
  the pair is not said.
* `DESIGN.md:560`, "a repeated identical approval decision returns the existing
  decision": true of a repetition, not of two identical decisions that overlap; the
  second meets the UNIQUE constraint and fails (`CommitDecide`, second disjunct).
* An operator's approve or abort of a v3 task that overlaps with another one
  overwrites its outcome. `OnlyOvertakenActAfterEnd` states how far this can go.
* The comment of an operator's refine is lost when the orchestrator has sent the task
  back in the meantime; the operator is told "dispatched".
* A dispatch stays on offer after its task has ended, and one that the tool took up
  before the end is added to it afterwards.
* An orchestrator can take a task out of `escalated` itself, by deciding `refine`.
* `database.py:24-25`, "Callers commit per operation so the broker never leaves a
  half-applied transition on disk": an operation is one function of `database.py`, and
  a transition of the workflow is several. A crash in between leaves, for instance, a
  pair that has converged and no arbitration, and nothing takes it up again after a
  restart. `StatusFollowsTables` is what can be said instead. For round 1 it speaks of
  every host only while the operator does not interfere: a retry in an escalated session
  sets it back to `"round_1"` also when the restart of round 1 was cut off before the
  last host's pair.
* `start_session` opens the pairs host by host, and agents answer the first ones
  meanwhile. If the first pair converges before the second host's round is inserted,
  `_maybe_advance_to_round_2` (`workflow.py:370-374`) finds every round converged and asks
  the arbitrator without that host; it asks again when the second pair has converged.
  Unlikely, since agents are slower than an INSERT, but nothing excludes it. It is the
  row `<<"rounds", New>>` of `overtaken`.
* A participant that has become governed is still shown, by `get_thread`, the direct
  messages of threads it took part in, if it reads them with a broker that lists it as
  registered. `DESIGN.md:466` speaks of sending only; `GovernedStayOut` says
  precisely what stays closed.
* `init_db` inserts and updates agents and never removes one: a worker that is taken
  out of `config/agents.json` stays in the table, its host has three workers then, and
  `start_session` raises. The Delphi models take the table as constant.

## 5. The proofs

### DelphiProofs

For every registry, every set of texts, every bound and all interventions and
faults:

* `TypeCorrect`: `Spec => []TypeOK`, the types, CHECK constraints and references
  of the schema;
* `TranscriptOnlyGrows`: `Spec => TranscriptGrows`: no step rewrites an answer,
  reopens a completed request or drops a row;
* `FinalPromptIsFrozen`: `Spec => FinalPromptFrozen`.

They rest on the module's assumptions about the registry, the texts and the
limits, nothing else (notably not on hosts having two workers).

`TypeOK` is not inductive. The next iteration of a pair goes to
`Workers[h][1]` or `Workers[h][2]`, which are agents only if host `h` has two
workers. So the invariant is `TypeInv == TypeOK /\ Manned(rounds)`: every pair
round belongs to a host with two workers, which holds as `SpawnRound1` stops at the
first host that has not. Each table write gets a lemma (`SpawnIterationKeeps`,
`UpdateRoundKeeps`, `RespondKeeps`, ...) in terms of four facts about the
tables written so far, since a handler writes a table more than once;
each action gets a step lemma that combines them; `NextKeeps` goes through `Next`.
`LatestIsMember` carries the one non-trivial fact about `CHOOSE`: a non-empty
set of indices has a greatest one, by finiteness. For the transcript, `KeptIsStep`
and `RespondKeeps` show that an answer is only recorded on a request that has
none: the guards of `CanRespond` and `CanExecute` are what the proof uses.

The second half of the module is about each request, also under every override and fault:

* `HostsAreIsolated` (`HostIsolation`), `RequestsAreNumbered` (`NumberedInOrder`),
  `MediationIsBounded` (`MediationBudget`).

None of the three is inductive alone. A relayed draft is somebody's recorded answer
of the same round, so isolation needs that an answer once recorded is kept and
belongs to its round (`AnswerClosed`, `StaysHome`); the number of a request is found
from the number of the latest one, so it has to be the count of the requests of the
round up to it (`num = Cardinality(UpTo)`); a mediation request is counted against
the arbitrations *before* its round, while the code counts those there are when
it asks (`WithinBudget`). `SoundInv` says all this row by row, and the proofs follow
the three things a handler can do to the rows: open requests (`OpeningIsSound`),
record an answer, append a request. A retry is where the first two meet: it hands out
an answer or an input of the retried row, which is fine because either stays at home.

### DelphiApprovalProofs

For any number of hosts, syntheses, mediations and restarts, with nudges, skipped
reviewers and aborts at any time and as often as the operator likes:

* `ExecutionIsApproved`, `ReviewersSeeTheSynthesis`, `FinalPromptIsExecuted`,
  `MediationsCarryRejections`: the properties of run `review` but `OneStage`.

They assume `Unforced`: no force_converge, no retry, no proceed_to_arbitrator, and
agents that answer what their inbox shows. Those overrides are meant to break the
order, and run `override` and the finding `retry` show that they do.

The difficulty is that nothing in the tables ties a stage to the next: each handler
looks up the latest arbitration. What makes that right is that there is only one
thing left that can move the session. `Active` rounds are those with an unanswered
request, and the review rounds in progress, *whatever the session's status is*,
since after an abort its requests are still answered. `Track` says: two
rounds are active together only if they are the pairs of different hosts
(`OneTrack`), an active round has one unanswered request unless it is a review
(`OneOpenRequest`), and what is active is about the latest arbitration (`UpToDate`).
`PastInv` is what the properties say of rows long closed, each with the review
round that is its witness. The witness has to keep: its reviews do, as reviews
are only taken while the round is in progress, and the reviewers still expected only
get fewer.

Every action lemma concludes `Onward`: the track is kept, tables and reviews only
grow, and whatever row is new is backed by a witness. `PastStays` carries the past
across any such step, once for all.

### DelphiStageProofs

Still under `Unforced`, with aborts, nudges and (but for the last) skips at any time:

* `RelayIsUnbroken` (`RelayUnbroken`);
* `ArbitratorGetsAgreements` (`ArbitratesConvergedOutcomes`) and `StagesAreSeparate`
  (`OneStage`), where every host has its two workers (`EveryHostPaired`);
* `SomebodyIsAlwaysAsked` (`SomebodyIsAsked`), where besides nobody is skipped
  (`NobodySkipped`).

The two hypotheses are the ones the code needs. A host without exactly two workers makes
`_spawn_round_1` raise after it has committed the rounds of the hosts before it; the
session then keeps its old status (`"drafting"`, or `"round_3"` at a restart) while
those pairs iterate, and once they converge the arbitrator is asked without the
malformed host. And a skip can leave a review waiting for nobody: that is the
finding `SkipUnblocks`.

The inductive invariant `StageInv` adds to `ApprovalInv` what is true of the tables
of a session nobody forces (`Orderly`) and what its status then says of them
(`Stages`). `Orderly` has a conjunct for each thing that has to be remembered:

* `Relay`, row by row: when a pair is asked for the j-th time, every request before
  is complete and the latest of them was answered by the other worker with just what
  is handed on. `NumbersRise` links it to the property, which speaks of
  consecutive numbers and not of rows: it takes the counting of
  `DelphiProofs` (`num = Cardinality(UpTo)`);
* `Agreed`: a converged round still is converged by the code's own test, evaluated on
  the rows as they are now; the rows of a closed round do not change;
* `Backed`: what the arbitrator was given host by host has its converged round. It
  holds when it is asked since then every pair round has converged (`AllConverged`) and
  every host has one (`Covered`);
* `Lively`: a round in progress still can move the session on. It is the converse of
  what a reader expects, an active round being in progress, which an abort breaks. With
  `OneTrack` it gives `OneStage`;
* `Settled` and `Synthesized`: beyond round 1 the pairs have converged, and from the
  review on there is a synthesis, so that `SpawnExecuteRound` never stops halfway.

Four lemmas carry `Orderly` across the only things a handler does to the tables: rewrite
rows (`MovedStaysOrderly`, when it leaves alone what `Concluding` names), ask the pair
again (`AskedStaysOrderly`), and spawn rounds from quiet tables (`SpawnedIsOrderly`,
`SpawnedAlone`). Each action lemma concludes `Staged`.

#### The session flow

The last part of the module is `FlowIsImplemented`: `Spec => ImplementsFlow`, where every host has its two workers and
nobody departs from the routine (`Routine`: the operator opens the session and nudges,
the agents follow their inbox). Rounds, requests, nudge windows, the number of hosts and
the texts are arbitrary; the theorem says that underneath them the session is the little
machine of `SessionFlow`. That the final prompt got every vote, and that a
rejection is never lost, can be read off that machine.

The hypotheses are needed. An abort has no counterpart in `SessionFlow`, a skip shrinks
the electorate, and a forced session may execute what nobody voted on
(`Unforced` and its findings above).

Each handler has its lemma: it takes a step of `SessionFlow` or none (`Follows`) and keeps
the invariant (`Flowing`). `FlowInv` adds to `StageInv`:

* `Running`: without an abort, what can still move the session on is in progress. With
  `Announced` it makes the session status the phase: the pair that answers is in a
  session that is in `"round_1"`, or escalated;
* `GivenUp`: the second case. In an escalated session whose pairs still iterate one pair
  was given up, so those that go on cannot move the session on, and their steps are
  stutters. This is what fails when an operator retries;
* `Counted`: every arbitration but the last was turned down. The code decides between
  mediation and restart by counting arbitrations (`MediationAttempts`), `SessionFlow`
  by counting rejected syntheses;
* `Newest`: an open review is the latest, so that the votes `SessionFlow` sees are those
  on the round the code counts.

`MappingInTheNextState` moves the prime inside the mapping once for all: every later step
reasons about `VotesCast(session', rounds', reviews')` and the like as plain terms.

### BrokerStepsProofs

For any registry, texts and limits, any number of operator threads, and crashes and
operator requests between any two statements, with every override and agent fault:

* `StepsAreTyped` (`StepsTypeOK`): the tables stay well formed and what a handler refers
  to exists when it gets there, wherever the others and a crash have left the tables;
* `NumbersAreUniqueUnlessOvertaken` (`NumberedUnlessOvertaken`);
* `AcceptedStandsUnlessOvertaken` (`AcceptedStands`);
* `StatusNeverRunsAhead` (`StatusFollowsTables`): the session status never announces
  what the tables do not hold yet.

The second and the third say how far the missing transactions can go: what a handler has
read before another one wrote it is lost, and nothing else is. `overtaken` names those
rows, and the properties are about all the others. The last one holds without any
exception for the event loop and crashes.

The invariant `StepsInv` is about what is left of each handler. `Fits` says of a list of
statements that it can be carried out whatever the others do:

* `Lasting`: what a statement says wherever it stands in the list. Rows are never
  deleted, so a row it names stays;
* `Follows`: what stands before it. An answer is recorded right after its request was
  checked; the number of a request is looked up right before it is inserted. This is
  the order of the calls in `workflow.py`;
* `Ready`: what the first statement relies on, unless its row is overtaken: the number
  to insert is above those of the round, the request to answer is waiting, the round to
  reopen was not aborted, no skipped reviewer is missing from the list to write.

A statement becomes the first one of its list right after the read that makes it ready;
the proof has one lemma for each read and each handler (`AdvanceIsSteady` to
`SkipReviewerIsSteady`). It stays ready because nobody else writes what it relies on:
each write of a handler is to a row that it holds (`KeepsToItsRows`), and a row held
twice is in `Contested`, hence in `overtaken` from then on. `FitsLater` carries all other
handlers across any such step, once for all; a crash leaves only idle ones.
`Manned` is taken from `DelphiProofs`, and its lemmas on the tables are used again.

`StatusFollowsTables` needs a second invariant, `StatusInv`, on top of `StepsInv`: of a
handler that was cut off anywhere, the status is still to be written, so what it would
announce is a promise. A *claim* about the tables is one of: a first request was made
(`Begun`), the final prompt is there (`Concluded`), a request was made in a round of a
kind (`Stage`, `PairOn`). A statement `ReliesOn` claims: a session status on what it
announces, and the stages after the pairs on there having been pairs at all, which is
why a mediation of nothing never happens. `KeepsPromises` says of a list of statements
that each claim a statement relies on holds already, or that an earlier statement of the
list `Makes` it: the request inserted in the round the handler opened last, the prompt
written, the round closed (an answer is there to close it with, or the handler ends).
Claims never cease to hold (`Remembers`: rows are not deleted and do not change their
type, host or round), so no other thread can break a promise (`OthersKeepPromises`), and
a crash leaves no promise at all. What remains is one lemma for each statement, read and
handler (`OpenRoundIsPromising` to `RetryRequestIsPromising`). Retries are where `PairOn`
comes in: an operator who sets an escalated session back to round 1 announces pairs on
hosts that the interrupted restart never got to, so the claim is only made while
`overrides = 0`.

### BrokerStepsCalmProofs

On the same terms, again for any number of hosts, and without a bound on nudges and crashes:

* `UndisturbedSessionsAreSound` (`SoundWhenUndisturbed`): while the operator requests
  nothing but nudges and no handler has overtaken another, the relay of the pairs, the
  approval before the execution and the synthesis the reviewers see are what they are
  where handlers are single steps, although a crash may have left any handler half done.

`DelphiStageProofs` and `DelphiApprovalProofs` prove these of whole handlers from a track
on which one stage is under way. Here that track has to hold after each statement, and
after a crash it leads nowhere: rounds stay in progress with every request answered, or
without any. So `Calm` asks for less of the tables and says more about the threads.

`CalmTables` is what no half-done handler can break:

* `InOrder`: a round is opened when all before it are closed, pairs of one stage aside. It
  takes the place of the track, and it is why `Latest` finds what a handler means;
* `AnswersTell`, `OneArbiter`, `LastIsOpen`, `Relayed`: the requests of a round. A closed
  round has all its answers, a pair has one open request, the latest, and each hands on
  the one before;
* `Shown` and `ExecutesApproved`: the two properties as they can be kept. What reviewers
  and executor were given is the latest synthesis as long as no further arbitration was
  opened, and the round before an execution is a review that everybody approved.

`CalmThreads` says that what is left of each handler has one of a few forms, each with
what it relies on: `Relays` (the answer of a worker and what is made of it, with the next
request numbered right after the last one), `Judges` (the pairs), `Arbitrates`, `Reviews`
and `Builds` (the rounds of the stage that was decided on, their requests and the session
status). Desk threads only release requests or open the session. Two threads never both
have a stage to open (`Spawns`), nor fill one round (`Fills`). This is the place where
`overtaken = {}` is used: the first session may still be opened at a desk while the first
of its pairs converges, and `_maybe_advance_to_round_2` would judge those it finds. As that
is overtaking on the list of pair rounds, the case is excluded, as the property says.

`CalmInv == overrides = 0 /\ overtaken = {} => Calm` is inductive together with `StepsInv`;
TLC checked it on the instance of run `steps` before it was proved. One lemma for each
form and statement concludes `CalmStep` (`...KeepsCalm`); `CalmAfterStep` carries all other
threads across, since a step `Touches` only what they do not rely on. That a form and the
statement at its head fit together, so that no other case arises, is a section of its
own.

### CollaborationProofs

For any agents, contents, correlation ids, requests side by side and bounds, from
`CollaborationAssumption` alone (the operator is not governed; the missing content
is not a content; the poll limit is positive):

* `DisclosureIsDecided`, `AuthorsAreInvited`, `CorrelationsStayUnique`,
  `OperatorsAreToldTheTruth`, `TypeCorrect`: every invariant of run `collab`;
* `RulingsStand`: its action property;
* `GateIsImplemented`: `Spec => ImplementsGate`, its refinement.

The inductive invariant has three parts. `StoreInv`: only approvals have recipients
and an approval has a form (`WellFormed`), and what the operator writes carries
the decision it was written with (`OwnDecision`); the first is why a pending
recipient can be shown nothing, the second is why a repeated operator message may
compare with the draft and report on the decision. `BooksInv`: receipts and
`known`. `CallsInv`: a request that is still running will write something well
formed (`Fit`), one that was answered was answered truthfully (`Truthful`).

The argument turns on `Kept`: a step only adds drafts and only decides pending ones.
`DecisionKeepsStore` and `DraftKeepsStore` show it for the two writes, from the guard
that stands for the UNIQUE constraint; `KeptBooks` and `KeptCall` then carry all
that agents and callers hold on to across any step. Every action lemma concludes
`IInv' /\ Kept`, so that `RulingsStand` needs no second pass. For the
refinement, `AppendRules` shows that adding a row appends its ruling and
`StepsOfTheGate` maps each action.

### PeerProofs

For any participants, any series of registries in which the operator stays direct, and
any bounds, from `PeerAssumption`:

* `AuditIsTrue` (`AuditMatchesReceipts`), `TheGovernedStayOut` (`GovernedStayOut`),
  `TranscriptsAreWitnessed` (`TranscriptIsWitnessed`), `TypeCorrect`;
* `MailboxIsImplemented`: `Spec => ImplementsMailbox`.

The invariant ties receipts to the log in both directions: a receipt is acked exactly
if one entry says so, delivered exactly if some entry does. `AuditIsTrue` is that
invariant together with the counting, which needs that `Append` adds one index to
the set of entries of its kind and leaves the others alone; for a batch, that no
message is in it twice (`Batch` enumerates a finite set of numbers in order). The
same enumeration is what the step to `HandOver` of the mailbox rests on: the oldest
unacknowledged messages are the oldest unsettled mail. The transcript's rows
are snapshots of different moments; they are witnessed because receipts are read
before the events, both only grow, and an event is committed with its receipt.

### TasksProofs

For any agents, artifacts, requests and bounds, from `TasksAssumption`:

* `CompletionIsBacked`: only what was decided done is completed. The invariant
  (`Backed`) says it of `awaiting_approval` and of every approval in flight as well:
  an approval may commit after the status it read is gone, but the decision stays;
* `TheEndIsGuarded`: the action property of run `tasks`. `Checked` says that an
  approval or abort in flight read a task that had not ended, and so did a
  `delphi_v3_dispatch` call; as the end is for good, it read it before the end. That
  outputs stay rests on `Unstarted`, and not on a guard: `emit_output` does not look at
  the task;
* `TheLogTellsHistory` (`AuditTellsHistory`): the log is a chain, each entry starting
  where the one before it led, and ends in the task's status. The one exception the
  code has, an abort without a reason that was overtaken between its two reads, is
  part of the property;
* `NothingIsRecorded`: `Spec => [](outputs = <<>>)`;
* `TypeCorrect`. Its clause that dispatched workers are not the orchestrator needs
  `Independent`, about the call between its second read and its write.

### Model-checked only

Every invariant, action property and refinement that a passing run checks is a theorem.
What remains is liveness (`Settles`, `EventuallyAcked`, `EventuallyReceived`), which is
out of the prover's reach, as is `ENABLED`.

## 6. Not modelled, and what comes next

Not modelled, for good: signature checks and transport policy (predicates
on one request, no state), payload schemas and size limits, validation of the
configuration file, listings for the pages and their rendering, the signing client.
The registry is a constant of the Delphi, collaboration and task models, and is edited
between restarts in the peer model.

What could come next: an edited registry for the Delphi models, where `init_db` keeps
agents that are gone.
