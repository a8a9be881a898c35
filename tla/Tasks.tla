-------------------------------- MODULE Tasks --------------------------------
(***************************************************************************)
(* The v3 orchestrator-worker tasks (v3/database.py, v3/mcp_tools.py,      *)
(* v3/api.py, v3/web.py).                                                  *)
(*                                                                         *)
(* The agents' MCP tools run one at a time on the event loop, but          *)
(* statement by statement beside the operator's HTTP requests, which run   *)
(* on a thread pool; each has its own SQLite connection.  A handler first  *)
(* reads, with no transaction open; its first INSERT or UPDATE takes the   *)
(* write lock, which it holds until it commits, or until the connection is *)
(* closed, which rolls back.  So every read before the first write is a    *)
(* step, and what follows it up to the commit is one step.                 *)
(*                                                                         *)
(* One task is modelled: no handler decides anything by another task's     *)
(* rows.  A dispatch is named by its position in `dispatches`.             *)
(***************************************************************************)
EXTENDS Naturals, Sequences

CONSTANTS Agents,          \* agents that are neither probes nor operators
          Orchestrator,    \* the one the task is created for
          Artifacts,       \* final artifacts an operator may submit
          NoArtifact,      \* final_artifact IS NULL
          Calls,           \* operator requests that can run side by side
          MaxDispatches,   \* bound: dispatches created
          MaxAggregations, \* bound: aggregations recorded
          MaxRequests      \* bound: operator requests taken

ASSUME TasksAssumption ==
    /\ Orchestrator \in Agents
    /\ NoArtifact \notin Artifacts
    /\ MaxDispatches \in Nat
    /\ MaxAggregations \in Nat
    /\ MaxRequests \in Nat

VARIABLES status,        \* v3_tasks.status, "none" before the task exists
          artifact,      \* v3_tasks.final_artifact
          dispatches,    \* v3_dispatches
          outputs,       \* v3_worker_outputs: the dispatch of each
          aggregations,  \* v3_aggregations: the decision of each
          log,           \* v3_task_events that tell of the task's status
          tool,          \* the delphi_v3_dispatch call on the event loop
          refused,       \* dispatches whose worker emit_output has refused
          calls,         \* operator requests
          requests       \* how many were taken

vars == <<status, artifact, dispatches, outputs, aggregations, log, tool,
          refused, calls, requests>>

------------------------------------------------------------------------------
Statuses == {"new", "dispatched", "aggregating", "awaiting_approval",
             "complete", "aborted", "escalated"}

Terminal == {"complete", "aborted"}

DispatchStatuses == {"pending", "in_progress", "done", "failed", "cancelled"}

Decisions == {"done", "refine", "escalate"}

\* _VALID_TASK_TRANSITIONS
TaskTransitions ==
    [s \in Statuses |->
        CASE s = "new"               -> {"dispatched", "aborted"}
          [] s = "dispatched"        -> {"aggregating", "awaiting_approval",
                                         "dispatched", "aborted", "escalated"}
          [] s = "aggregating"       -> {"dispatched", "awaiting_approval",
                                         "aborted", "escalated"}
          [] s = "awaiting_approval" -> {"complete", "dispatched", "aborted"}
          [] s = "escalated"         -> {"aborted", "dispatched"}
          [] OTHER                   -> {}]

\* _VALID_DISPATCH_TRANSITIONS
DispatchTransitions ==
    [s \in DispatchStatuses |->
        CASE s = "pending"     -> {"in_progress", "cancelled"}
          [] s = "in_progress" -> {"done", "failed", "cancelled"}
          [] s = "failed"      -> {"in_progress"}
          [] OTHER             -> {}]

Event(type, from, to) == [type |-> type, from |-> from, to |-> to]

Changed(from, to) == Event("task_status_changed", from, to)

Comment == Event("operator_refine_comment", "none", "none")

Ops == {"none", "approve", "refine", "abort", "abort_with_reason"}

\* A request that read the status as `seen`; an abort without a reason reads
\* it a second time, and is then "validated".
Call == [op : Ops, validated : BOOLEAN, seen : Statuses \cup {"none"},
         artifact : Artifacts \cup {NoArtifact}]

Idle == [op |-> "none", validated |-> FALSE, seen |-> "none",
         artifact |-> NoArtifact]

\* A delphi_v3_dispatch call: the status it found, and the status it saw when
\* create_dispatch looked again.
NoTool == [worker |-> Orchestrator, stage |-> "idle", found |-> "none",
           seen |-> "none"]

Init ==
    /\ status = "none"
    /\ artifact = NoArtifact
    /\ dispatches = <<>>
    /\ outputs = <<>>
    /\ aggregations = <<>>
    /\ log = <<>>
    /\ tool = NoTool
    /\ refused = {}
    /\ calls = [c \in Calls |-> Idle]
    /\ requests = 0

\* The operator opens the task.
CreateTask ==
    /\ status = "none"
    /\ status' = "new"
    /\ log' = Append(log, Event("task_created", "none", "new"))
    /\ UNCHANGED <<artifact, dispatches, outputs, aggregations, tool, refused,
                   calls, requests>>

------------------------------------------------------------------------------
(* update_task_status, in the transaction of its caller. *)

Allowed(to) == to \in TaskTransitions[status]

\* A change of status, with the events its caller logged before it.
ChangeTaskStatus(to, before) ==
    /\ status # to
    /\ Allowed(to)
    /\ status' = to
    /\ log' = log \o before \o <<Changed(status, to)>>

\* The same status again writes nothing, and does not commit either.
UpdateTaskStatus(to) ==
    \/ ChangeTaskStatus(to, <<>>)
    \/ status = to /\ UNCHANGED <<status, log>>

\* ValueError: the caller's transaction is rolled back.
StatusRefused(to) ==
    /\ status # to
    /\ ~ Allowed(to)
    /\ UNCHANGED <<status, log>>

------------------------------------------------------------------------------
(* Agents: the MCP tools. *)

\* Mutant: a task that has ended is dispatched as well.
BeginDispatchAnytime(w) ==
    /\ tool.stage = "idle"
    /\ status # "none"
    /\ Len(dispatches) < MaxDispatches
    /\ tool' = [worker |-> w, stage |-> "begun", found |-> status, seen |-> "none"]
    /\ UNCHANGED <<status, artifact, dispatches, outputs, aggregations, log,
                   refused, calls, requests>>

\* delphi_v3_dispatch looks at the task
BeginDispatch(w) ==
    /\ tool.stage = "idle"
    /\ status \notin Terminal \cup {"none"}
    /\ Len(dispatches) < MaxDispatches
    /\ tool' = [worker |-> w, stage |-> "begun", found |-> status, seen |-> "none"]
    /\ UNCHANGED <<status, artifact, dispatches, outputs, aggregations, log,
                   refused, calls, requests>>

ReadTaskForAnyone ==
    /\ tool.stage = "begun"
    /\ tool' = [tool EXCEPT !.stage = "read", !.seen = status]
    /\ UNCHANGED <<status, artifact, dispatches, outputs, aggregations, log,
                   refused, calls, requests>>

\* and create_dispatch reads it again; it refuses the task's orchestrator.
ReadTask ==
    /\ tool.stage = "begun"
    /\ tool' = IF tool.worker = Orchestrator THEN NoTool
               ELSE [tool EXCEPT !.stage = "read", !.seen = status]
    /\ UNCHANGED <<status, artifact, dispatches, outputs, aggregations, log,
                   refused, calls, requests>>

\* The INSERT takes the lock.  Only a task that was new when read is moved to
\* dispatched, and if that is no longer allowed all is rolled back.
CreateDispatch ==
    /\ tool.stage = "read"
    /\ tool' = NoTool
    /\ \/ /\ \/ tool.seen = "new" /\ UpdateTaskStatus("dispatched")
             \/ tool.seen # "new" /\ UNCHANGED <<status, log>>
          /\ dispatches' = Append(dispatches, [worker |-> tool.worker,
                                               status |-> "pending"])
       \/ /\ tool.seen = "new"
          /\ StatusRefused("dispatched")
          /\ UNCHANGED dispatches
    /\ UNCHANGED <<artifact, outputs, aggregations, refused, calls, requests>>

\* poll_dispatches
Offered(w) ==
    {d \in DOMAIN dispatches : /\ dispatches[d].worker = w
                               /\ dispatches[d].status \in {"pending", "in_progress"}}

\* update_dispatch_status accepts the new status, or raises.
DispatchAccepts(d, to) == to \in DispatchTransitions[dispatches[d].status]

\* record_worker_output inserts the output, marks the dispatch done and
\* commits; if the dispatch does not accept that, it is all rolled back.
RecordWorkerOutput(d) ==
    LET accepted == DispatchAccepts(d, "done")
    IN  /\ outputs' = IF accepted THEN Append(outputs, d) ELSE outputs
        /\ dispatches' = IF accepted
                         THEN [dispatches EXCEPT ![d].status = "done"]
                         ELSE dispatches
        /\ refused' = IF accepted THEN refused ELSE refused \cup {d}

\* emit_output looks at the dispatch, and not at the task.
EmitOutput(d) ==
    /\ tool.stage = "idle"
    /\ dispatches[d].status \notin {"done", "cancelled"}
    /\ RecordWorkerOutput(d)
    /\ UNCHANGED <<status, artifact, aggregations, log, tool, calls, requests>>

\* The status each decision asks for.
Outcome(decision) ==
    CASE decision = "done"     -> "awaiting_approval"
      [] decision = "refine"   -> "dispatched"
      [] decision = "escalate" -> "escalated"

\* The INSERT takes the lock; a decision the status does not allow is rolled
\* back.
CreateAggregation(decision) ==
    /\ UpdateTaskStatus(Outcome(decision))
    /\ aggregations' = Append(aggregations, decision)

\* delphi_v3_aggregate looks at nothing but who calls.
Aggregate(decision) ==
    /\ tool.stage = "idle"
    /\ status # "none"
    /\ Len(aggregations) < MaxAggregations
    /\ CreateAggregation(decision)
    /\ UNCHANGED <<artifact, dispatches, outputs, tool, refused, calls,
                   requests>>

------------------------------------------------------------------------------
(* The operator's HTTP requests: a check, then a write. *)

Take(c, call) ==
    /\ calls[c].op = "none"
    /\ requests < MaxRequests
    /\ requests' = requests + 1
    /\ calls' = [calls EXCEPT ![c] = call]
    /\ UNCHANGED <<status, artifact, dispatches, outputs, aggregations, log,
                   tool, refused>>

BeginApproveAnytime(c, text) ==
    /\ status \notin Terminal \cup {"none"}
    /\ Take(c, [op |-> "approve", validated |-> FALSE, seen |-> status,
                artifact |-> text])

BeginApprove(c, text) ==
    /\ status = "awaiting_approval"
    /\ Take(c, [op |-> "approve", validated |-> FALSE, seen |-> status,
                artifact |-> text])

BeginRefine(c) ==
    /\ status = "awaiting_approval"
    /\ Take(c, [op |-> "refine", validated |-> FALSE, seen |-> status,
                artifact |-> NoArtifact])

BeginAbort(c) ==
    /\ status \notin Terminal \cup {"none"}
    /\ \E op \in {"abort", "abort_with_reason"} :
          Take(c, [op |-> op, validated |-> FALSE, seen |-> status,
                   artifact |-> NoArtifact])

Finish(c) == calls' = [calls EXCEPT ![c] = Idle]

FinalizeUnlogged(text) ==
    /\ status' = "complete"
    /\ artifact' = text
    /\ UNCHANGED log

\* finalize_task: the UPDATE asks nothing of the status.
FinalizeTask(text) ==
    /\ status' = "complete"
    /\ artifact' = text
    /\ log' = Append(log, Event("task_finalized", "none", "complete"))

Approve(c) ==
    /\ calls[c].op = "approve"
    /\ FinalizeTask(calls[c].artifact)
    /\ Finish(c)
    /\ UNCHANGED <<dispatches, outputs, aggregations, tool, refused, requests>>

\* The comment takes the lock.  If the task has meanwhile gone back to
\* dispatched, nothing is committed and the comment is rolled back; if it has
\* ended, update_task_status raises, with the same effect.
Refine(c) ==
    /\ calls[c].op = "refine"
    /\ \/ ChangeTaskStatus("dispatched", <<Comment>>)
       \/ status = "dispatched" /\ UNCHANGED <<status, log>>
       \/ StatusRefused("dispatched")
    /\ Finish(c)
    /\ UNCHANGED <<artifact, dispatches, outputs, aggregations, tool, refused,
                   requests>>

\* The reason takes the lock.
AbortWithReason(c) ==
    /\ calls[c].op = "abort_with_reason"
    /\ UpdateTaskStatus("aborted") \/ StatusRefused("aborted")
    /\ Finish(c)
    /\ UNCHANGED <<artifact, dispatches, outputs, aggregations, tool, refused,
                   requests>>

\* Without a reason, update_task_status reads before the lock is taken,
ValidateAbort(c) ==
    /\ calls[c].op = "abort"
    /\ ~ calls[c].validated
    /\ IF Allowed("aborted")
       THEN calls' = [calls EXCEPT ![c].validated = TRUE, ![c].seen = status]
       ELSE Finish(c)
    /\ UNCHANGED <<status, artifact, dispatches, outputs, aggregations, log,
                   tool, refused, requests>>

\* and writes whatever the status has become.
Abort(c) ==
    /\ calls[c].op = "abort"
    /\ calls[c].validated
    /\ status' = "aborted"
    /\ log' = Append(log, Changed(calls[c].seen, "aborted"))
    /\ Finish(c)
    /\ UNCHANGED <<artifact, dispatches, outputs, aggregations, tool, refused,
                   requests>>

------------------------------------------------------------------------------
\* A crash takes the handlers that had not committed.
Crash ==
    /\ tool # NoTool \/ \E c \in Calls : calls[c] # Idle
    /\ tool' = NoTool
    /\ calls' = [c \in Calls |-> Idle]
    /\ UNCHANGED <<status, artifact, dispatches, outputs, aggregations, log,
                   refused, requests>>

ToolStep ==
    \/ \E w \in Agents : BeginDispatch(w)
    \/ ReadTask
    \/ CreateDispatch
    \/ \E d \in DOMAIN dispatches : EmitOutput(d)
    \/ \E decision \in Decisions : Aggregate(decision)

OperatorStep(c) ==
    \/ \E text \in Artifacts : BeginApprove(c, text)
    \/ BeginRefine(c)
    \/ BeginAbort(c)
    \/ Approve(c)
    \/ Refine(c)
    \/ AbortWithReason(c)
    \/ ValidateAbort(c)
    \/ Abort(c)

Next ==
    \/ CreateTask
    \/ ToolStep
    \/ \E c \in Calls : OperatorStep(c)
    \/ Crash

Spec == Init /\ [][Next]_vars
=============================================================================
