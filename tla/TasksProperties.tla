--------------------------- MODULE TasksProperties ---------------------------
(***************************************************************************)
(* What the v3 tasks should guarantee.                                     *)
(***************************************************************************)
EXTENDS Tasks

(* The schema's CHECK constraints, the independence rule of                *)
(* create_dispatch, and one output at most for a dispatch, which is then   *)
(* done (DESIGN_v3.md 3: "one per dispatch"; as it is, no output is ever   *)
(* recorded).                                                              *)
TypeOK ==
    /\ status \in Statuses \cup {"none"}
    /\ artifact \in Artifacts \cup {NoArtifact}
    /\ dispatches \in Seq([worker : Agents \ {Orchestrator},
                           status : DispatchStatuses])
    /\ outputs \in Seq(DOMAIN dispatches)
    /\ \A i, j \in DOMAIN outputs : outputs[i] = outputs[j] => i = j
    /\ \A i \in DOMAIN outputs : dispatches[outputs[i]].status = "done"
    /\ aggregations \in Seq(Decisions)
    /\ tool.worker \in Agents
    /\ tool.stage \in {"idle", "begun", "read"}
    /\ tool.found \in Statuses \cup {"none"}
    /\ tool.seen \in Statuses \cup {"none"}
    /\ refused \subseteq DOMAIN dispatches
    /\ calls \in [Calls -> Call]
    /\ requests \in Nat

Committed(a) == \E i \in DOMAIN aggregations : aggregations[i] = a

(* A completed task was offered for approval: its orchestrator decided     *)
(* "done" before, and the operator's artifact is in place, however the     *)
(* approval raced with aborts, refinements and the orchestrator's own      *)
(* decisions.                                                              *)
CompletedAfterDone ==
    status = "complete" => Committed("done") /\ artifact \in Artifacts

\* A request that read the task before it ended makes its write.
Overtaken ==
    \E c \in Calls : /\ calls[c].op \in {"approve", "abort"}
                     /\ calls[c].seen \notin Terminal
                     /\ calls'[c] = Idle

\* A dispatch that the tool took up while the task was going on, and that does
\* not have to move the task to dispatched, is inserted.
DispatchedLate ==
    /\ tool.stage = "read"
    /\ tool.found \notin Terminal
    /\ tool.seen # "new"

ActsAfterEnd ==
    /\ status' \in Terminal
    /\ Overtaken \/ UNCHANGED <<status, artifact, log>>
    /\ DispatchedLate \/ UNCHANGED dispatches
    /\ UNCHANGED <<aggregations, outputs>>

(* Acting on a task that has ended is refused (DESIGN_v3.md 4:             *)
(* "Terminal-status guards") to everyone who looks at it after the end,    *)
(* and the end is for good.  Only a handler that read the task before it   *)
(* ended gets past the guards: the operator's approve and abort overwrite  *)
(* the outcome and are logged, and delphi_v3_dispatch, whose own read      *)
(* found the task going on, adds a dispatch - unless create_dispatch read  *)
(* it as new, and has to roll back.  No output is added, though            *)
(* emit_output does not look at the task: it is refused at all times (see  *)
(* WorkersAreHeard).                                                       *)
OnlyOvertakenActAfterEnd ==
    [][(status \in Terminal) => ActsAfterEnd]_vars

Telling == {i \in DOMAIN log : log[i].to # "none"}

(* The audit log tells the task's history: its last word is the status,    *)
(* every change starts from the status the one before it led to, except    *)
(* for an abort without a reason, which may name a status that was         *)
(* overtaken, and no comment of the operator stands in it that did not     *)
(* send the task back to work.                                             *)
AuditTellsHistory ==
    /\ status # "none" =>
          \E i \in Telling : /\ log[i].to = status
                             /\ \A j \in Telling : j <= i
    /\ \A i, j \in Telling :
          /\ i < j /\ \A k \in Telling : k <= i \/ j <= k
          /\ log[j].type = "task_status_changed" /\ log[j].to # "aborted"
          => log[j].from = log[i].to
    /\ \A i \in DOMAIN log :
          log[i] = Comment => /\ i + 1 \in DOMAIN log
                              /\ log[i + 1].to = "dispatched"

(* delphi_v3_emit_output: "Worker submits their response to a dispatch.    *)
(* The dispatch is marked done."  No worker is refused a dispatch that     *)
(* poll_dispatches offers it.                                              *)
WorkersAreHeard == \A w \in Agents : refused \cap Offered(w) = {}
=============================================================================
