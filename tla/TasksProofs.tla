----------------------------- MODULE TasksProofs -----------------------------
(***************************************************************************)
(* What is proved about the v3 tasks, for any agents, any number of        *)
(* operator requests side by side, and every bound.                        *)
(***************************************************************************)
EXTENDS TasksProperties, SequenceTheorems, TLAPS

(***************************************************************************)
(* The inductive invariant.                                                *)
(***************************************************************************)
\* An approval and its result stand on a decision "done".
Backed ==
    /\ status \in {"awaiting_approval", "complete"} => Committed("done")
    /\ status = "complete" => artifact \in Artifacts
    /\ \A c \in Calls : calls[c].op = "approve" =>
          Committed("done") /\ calls[c].artifact \in Artifacts

\* Whoever is about to write over the status, or to add a dispatch, found a
\* task that had not ended.
Checked ==
    /\ \A c \in Calls : calls[c].op \in {"approve", "abort"} =>
          calls[c].seen \notin Terminal
    /\ tool.stage # "idle" => tool.found \notin Terminal

\* Only tasks that exist are worked on.
Exists ==
    status = "none" => /\ tool.stage = "idle"
                       /\ \A c \in Calls : calls[c] = Idle

\* create_dispatch does not get past its second read for the orchestrator.
Independent == tool.stage = "read" => tool.worker # Orchestrator

\* No step takes up a dispatch, and no output is recorded.
Unstarted ==
    /\ \A d \in DOMAIN dispatches : dispatches[d].status = "pending"
    /\ outputs = <<>>

IInv == TypeOK /\ Backed /\ Checked /\ Exists /\ Independent /\ Unstarted

------------------------------------------------------------------------------
(* What the parts of an action do to the status and to the requests. *)

LEMMA UpdateKeepsType ==
    ASSUME NEW to \in Statuses, UpdateTaskStatus(to) \/ StatusRefused(to)
    PROVE  status' = status \/ status' = to
BY DEF UpdateTaskStatus, ChangeTaskStatus, StatusRefused

\* No status follows a terminal one.
LEMMA NothingFollowsTheEnd ==
    ASSUME status \in Terminal, NEW to \in Statuses \ Terminal
    PROVE  ~ UpdateTaskStatus(to)
<1>1. TaskTransitions[status] = {}
  BY DEF TaskTransitions, Statuses, Terminal
<1> QED
  BY <1>1 DEF UpdateTaskStatus, ChangeTaskStatus, Allowed

\* A decision once recorded stays recorded.
LEMMA CommittedStays ==
    ASSUME aggregations \in Seq(Decisions), NEW x, NEW decision \in Decisions,
           aggregations' = Append(aggregations, x) \/ UNCHANGED aggregations,
           Committed(decision)
    PROVE  Committed(decision)'
BY DEF Committed

LEMMA AppendExtends ==
    ASSUME NEW S, NEW s \in Seq(S), NEW x \in S
    PROVE  /\ Append(s, x) \in Seq(S)
           /\ DOMAIN s \subseteq DOMAIN Append(s, x)
           /\ \A d \in DOMAIN s : Append(s, x)[d] = s[d]
OBVIOUS

LEMMA AppendCommits ==
    ASSUME aggregations \in Seq(Decisions), NEW decision \in Decisions,
           aggregations' = Append(aggregations, decision)
    PROVE  Committed(decision)'
<1>1. Len(aggregations) + 1 \in DOMAIN aggregations'
  OBVIOUS
<1>2. aggregations'[Len(aggregations) + 1] = decision
  OBVIOUS
<1> QED
  BY <1>1, <1>2 DEF Committed

------------------------------------------------------------------------------
(* One lemma per action. *)

LEMMA InitHolds ==
    Init => IInv
<1> SUFFICES ASSUME Init PROVE IInv
  OBVIOUS
<1>1. /\ NoTool.worker \in Agents /\ NoTool.stage = "idle"
      /\ NoTool.found = "none" /\ NoTool.seen = "none"
  BY TasksAssumption DEF NoTool
<1>2. Idle \in Call /\ Idle.op = "none"
  BY DEF Idle, Call, Ops
<1>3. TypeOK
  BY <1>1, <1>2 DEF Init, TypeOK
<1> QED
  BY <1>1, <1>2, <1>3
     DEF Init, IInv, Backed, Checked, Exists, Independent, Unstarted

LEMMA CreateTaskKeeps ==
    IInv /\ CreateTask => IInv'
<1> SUFFICES ASSUME IInv, CreateTask PROVE IInv'
  OBVIOUS
<1> USE DEF IInv, CreateTask
<1>1. TypeOK'
  BY DEF TypeOK, Statuses
<1>2. Backed'
  BY DEF Backed, Committed
<1>3. Checked' /\ Exists' /\ Independent' /\ Unstarted'
  BY DEF Checked, Exists, Independent, Unstarted
<1> QED
  BY <1>1, <1>2, <1>3

\* The two reads of delphi_v3_dispatch change the tool's state alone.
LEMMA ToolReads ==
    IInv /\ ((\E w \in Agents : BeginDispatch(w)) \/ ReadTask) => IInv'
<1> SUFFICES ASSUME IInv, (\E w \in Agents : BeginDispatch(w)) \/ ReadTask
             PROVE  IInv'
  OBVIOUS
<1>1. UNCHANGED <<status, artifact, dispatches, outputs, aggregations, refused,
                  calls, requests>>
  BY DEF BeginDispatch, ReadTask
<1>2. status # "none"
  BY DEF IInv, Exists, BeginDispatch, ReadTask
<1>3. /\ tool'.worker \in Agents
      /\ tool'.stage \in {"idle", "begun", "read"}
      /\ tool'.found \in Statuses \cup {"none"}
      /\ tool'.seen \in Statuses \cup {"none"}
  <2>1. CASE \E w \in Agents : BeginDispatch(w)
    BY <2>1 DEF BeginDispatch, IInv, TypeOK
  <2>2. CASE ReadTask
    BY <2>2, TasksAssumption DEF ReadTask, NoTool, IInv, TypeOK
  <2> QED
    BY <2>1, <2>2
<1>4. TypeOK'
  BY <1>1, <1>3 DEF IInv, TypeOK
<1>5. Independent'
  <2>1. CASE \E w \in Agents : BeginDispatch(w)
    BY <2>1 DEF BeginDispatch, Independent
  <2>2. CASE ReadTask /\ tool.worker = Orchestrator
    BY <2>2 DEF ReadTask, NoTool, Independent
  <2>3. CASE ReadTask /\ tool.worker # Orchestrator
    <3>1. tool'.worker = tool.worker
      BY <2>3 DEF ReadTask
    <3> QED
      BY <2>3, <3>1 DEF Independent
  <2> QED
    BY <2>1, <2>2, <2>3
<1>6. tool'.stage # "idle" => tool'.found \notin Terminal
  <2>1. CASE \E w \in Agents : BeginDispatch(w)
    BY <2>1 DEF BeginDispatch
  <2>2. CASE ReadTask
    BY <2>2 DEF ReadTask, NoTool, IInv, Checked
  <2> QED
    BY <2>1, <2>2
<1> QED
  BY <1>1, <1>2, <1>4, <1>5, <1>6
     DEF IInv, Backed, Checked, Exists, Unstarted, Committed

LEMMA CreateDispatchKeeps ==
    IInv /\ CreateDispatch => IInv'
<1> SUFFICES ASSUME IInv, CreateDispatch PROVE IInv'
  OBVIOUS
<1>1. UNCHANGED <<artifact, outputs, aggregations, refused, calls, requests>>
  BY DEF CreateDispatch
<1>2. status' = status \/ status' = "dispatched"
  BY UpdateKeepsType DEF CreateDispatch, Statuses, UpdateTaskStatus,
                         ChangeTaskStatus, StatusRefused
<1>3. status # "none" /\ status' # "none"
  BY <1>2 DEF CreateDispatch, IInv, Exists
<1>4. tool' = NoTool
  BY DEF CreateDispatch
<1>5. \/ UNCHANGED dispatches
      \/ dispatches' = Append(dispatches, [worker |-> tool.worker,
                                           status |-> "pending"])
  BY DEF CreateDispatch
<1>6. [worker |-> tool.worker, status |-> "pending"] \in
          [worker : Agents \ {Orchestrator}, status : DispatchStatuses]
  BY DEF CreateDispatch, IInv, Independent, TypeOK, DispatchStatuses
<1>7. /\ dispatches' \in Seq([worker : Agents \ {Orchestrator},
                              status : DispatchStatuses])
      /\ DOMAIN dispatches \subseteq DOMAIN dispatches'
      /\ \A d \in DOMAIN dispatches : dispatches'[d] = dispatches[d]
  <2> DEFINE D == [worker : Agents \ {Orchestrator}, status : DispatchStatuses]
  <2>1. dispatches \in Seq(D)
    BY DEF IInv, TypeOK
  <2> HIDE DEF D
  <2>2. UNCHANGED dispatches \/ \E x \in D : dispatches' = Append(dispatches, x)
    BY <1>5, <1>6 DEF D
  <2>3. ASSUME NEW x \in D, dispatches' = Append(dispatches, x)
        PROVE  /\ dispatches' \in Seq(D)
               /\ DOMAIN dispatches \subseteq DOMAIN dispatches'
               /\ \A d \in DOMAIN dispatches : dispatches'[d] = dispatches[d]
    BY <2>1, <2>3, AppendExtends
  <2>4. /\ dispatches' \in Seq(D)
        /\ DOMAIN dispatches \subseteq DOMAIN dispatches'
        /\ \A d \in DOMAIN dispatches : dispatches'[d] = dispatches[d]
    BY <2>1, <2>2, <2>3
  <2> QED
    BY <2>4 DEF D
<1>8. TypeOK'
  <2>1. outputs' \in Seq(DOMAIN dispatches')
    BY <1>1, <1>7, SeqMonotonic DEF IInv, TypeOK
  <2>2. \A i \in DOMAIN outputs : outputs[i] \in DOMAIN dispatches
    BY DEF IInv, TypeOK
  <2>3. status' \in Statuses \cup {"none"}
    BY <1>2 DEF IInv, TypeOK, Statuses
  <2>4. /\ tool'.worker \in Agents
        /\ tool'.stage \in {"idle", "begun", "read"}
        /\ tool'.found \in Statuses \cup {"none"}
        /\ tool'.seen \in Statuses \cup {"none"}
    BY <1>4, TasksAssumption DEF NoTool
  <2> QED
    BY <1>1, <1>7, <2>1, <2>2, <2>3, <2>4 DEF IInv, TypeOK
<1>9. Backed'
  BY <1>1, <1>2 DEF IInv, Backed, Committed
<1>10. Unstarted'
  <2> DEFINE D == [worker : Agents \ {Orchestrator}, status : DispatchStatuses]
  <2>1. dispatches \in Seq(D)
    BY DEF IInv, TypeOK
  <2> HIDE DEF D
  <2> QED
    BY <1>1, <1>5, <2>1 DEF IInv, Unstarted
<1> QED
  BY <1>1, <1>3, <1>4, <1>8, <1>9, <1>10
     DEF IInv, Checked, Exists, Independent, Unstarted, NoTool

LEMMA EmitOutputKeeps ==
    IInv /\ (\E d \in DOMAIN dispatches : EmitOutput(d)) => IInv'
<1> SUFFICES ASSUME IInv, NEW d \in DOMAIN dispatches, EmitOutput(d)
             PROVE  IInv'
  OBVIOUS
<1>1. UNCHANGED <<status, artifact, aggregations, log, tool, calls, requests>>
  BY DEF EmitOutput
<1>2. Backed' /\ Checked' /\ Exists' /\ Independent'
  BY <1>1 DEF IInv, Backed, Checked, Exists, Independent, Committed
<1>3. ~ DispatchAccepts(d, "done")
  BY DEF IInv, Unstarted, DispatchAccepts, DispatchTransitions, DispatchStatuses
<1>4. UNCHANGED <<outputs, dispatches>> /\ refused' = refused \cup {d}
  BY <1>3 DEF EmitOutput, RecordWorkerOutput
<1>5. TypeOK' /\ Unstarted'
  BY <1>1, <1>4 DEF IInv, TypeOK, Unstarted
<1> QED
  BY <1>2, <1>5 DEF IInv

LEMMA AggregateKeeps ==
    IInv /\ (\E decision \in Decisions : Aggregate(decision)) => IInv'
<1> SUFFICES ASSUME IInv, NEW decision \in Decisions, Aggregate(decision)
             PROVE  IInv'
  OBVIOUS
<1>1. /\ UNCHANGED <<artifact, dispatches, outputs, tool, refused, calls, requests>>
      /\ aggregations' = Append(aggregations, decision)
      /\ status # "none"
      /\ UpdateTaskStatus(Outcome(decision))
  BY DEF Aggregate, CreateAggregation
<1>2. /\ Outcome(decision) \in {"awaiting_approval", "dispatched", "escalated"}
      /\ Outcome(decision) = "awaiting_approval" => decision = "done"
  BY DEF Outcome, Decisions
<1>3. status' = status \/ status' = Outcome(decision)
  BY <1>1, <1>2, UpdateKeepsType DEF Statuses
<1>4. aggregations \in Seq(Decisions) /\ aggregations' \in Seq(Decisions)
  BY <1>1 DEF IInv, TypeOK
<1>5. Committed("done") => Committed("done")'
  BY <1>1, <1>4, CommittedStays DEF Decisions
<1>6. decision = "done" => Committed("done")'
  BY <1>1, <1>4, AppendCommits
<1>7. TypeOK'
  BY <1>1, <1>2, <1>3, <1>4 DEF IInv, TypeOK, Statuses
<1>8. Backed'
  BY <1>1, <1>2, <1>3, <1>5, <1>6 DEF IInv, Backed
<1> QED
  BY <1>1, <1>2, <1>3, <1>7, <1>8 DEF IInv, Checked, Exists, Independent, Unstarted

\* A request is taken: what it notes is what it found.
LEMMA TakeKeeps ==
    ASSUME IInv, NEW c \in Calls, NEW call \in Call, Take(c, call),
           status # "none",
           call.op \in {"approve", "abort"} => call.seen \notin Terminal,
           call.op = "approve" => /\ status = "awaiting_approval"
                                  /\ call.artifact \in Artifacts
    PROVE  IInv'
<1>1. /\ UNCHANGED <<status, artifact, dispatches, outputs, aggregations, log,
                     tool, refused>>
      /\ requests' = requests + 1
      /\ calls' = [calls EXCEPT ![c] = call]
  BY DEF Take
<1>2. calls \in [Calls -> Call]
  BY DEF IInv, TypeOK
<1>3. /\ calls' \in [Calls -> Call]
      /\ calls'[c] = call
      /\ \A e \in Calls \ {c} : calls'[e] = calls[e]
  BY <1>1, <1>2
<1>4. TypeOK'
  BY <1>1, <1>3 DEF IInv, TypeOK
<1>5. Backed'
  BY <1>1, <1>3 DEF IInv, Backed, Committed
<1>6. Checked'
  BY <1>1, <1>3 DEF IInv, Checked
<1> QED
  BY <1>1, <1>4, <1>5, <1>6 DEF IInv, Exists, Independent, Unstarted

LEMMA BeginKeeps ==
    ASSUME IInv, NEW c \in Calls,
           \/ \E text \in Artifacts : BeginApprove(c, text)
           \/ BeginRefine(c)
           \/ BeginAbort(c)
    PROVE  IInv'
<1>1. CASE \E text \in Artifacts : BeginApprove(c, text)
  <2> PICK text \in Artifacts : BeginApprove(c, text)
    BY <1>1
  <2> DEFINE call == [op |-> "approve", validated |-> FALSE, seen |-> status,
                      artifact |-> text]
  <2>1. status = "awaiting_approval" /\ Take(c, call)
    BY DEF BeginApprove
  <2>2. call \in Call
    BY <2>1 DEF Call, Ops, Statuses
  <2> QED
    BY <2>1, <2>2, TakeKeeps DEF Terminal
<1>2. CASE BeginRefine(c)
  <2> DEFINE call == [op |-> "refine", validated |-> FALSE, seen |-> status,
                      artifact |-> NoArtifact]
  <2>1. status = "awaiting_approval" /\ Take(c, call)
    BY <1>2 DEF BeginRefine
  <2>2. call \in Call
    BY <2>1 DEF Call, Ops, Statuses
  <2> QED
    BY <2>1, <2>2, TakeKeeps
<1>3. CASE BeginAbort(c)
  <2> PICK op \in {"abort", "abort_with_reason"} :
            Take(c, [op |-> op, validated |-> FALSE, seen |-> status,
                     artifact |-> NoArtifact])
    BY <1>3 DEF BeginAbort
  <2> DEFINE call == [op |-> op, validated |-> FALSE, seen |-> status,
                      artifact |-> NoArtifact]
  <2>1. status \notin Terminal \cup {"none"}
    BY <1>3 DEF BeginAbort
  <2>2. call \in Call
    BY DEF Call, Ops, IInv, TypeOK
  <2> QED
    BY <2>1, <2>2, TakeKeeps
<1> QED
  BY <1>1, <1>2, <1>3

\* A request makes its write and is gone.
LEMMA FinishKeeps ==
    ASSUME IInv, NEW c \in Calls, Finish(c),
           UNCHANGED <<dispatches, outputs, aggregations, tool, refused, requests>>,
           status # "none", status' \in Statuses,
           artifact' \in Artifacts \cup {NoArtifact},
           status' \in {"awaiting_approval", "complete"} => Committed("done"),
           status' = "complete" => artifact' \in Artifacts
    PROVE  IInv'
<1>1. Idle \in Call /\ Idle.op = "none"
  BY DEF Idle, Call, Ops
<1>2. calls \in [Calls -> Call]
  BY DEF IInv, TypeOK
<1>3. /\ calls' \in [Calls -> Call]
      /\ calls'[c] = Idle
      /\ \A e \in Calls \ {c} : calls'[e] = calls[e]
  BY <1>1, <1>2 DEF Finish
<1>4. TypeOK'
  BY <1>3 DEF IInv, TypeOK
<1>5. Backed'
  BY <1>1, <1>3 DEF IInv, Backed, Committed
<1>6. Checked'
  BY <1>1, <1>3 DEF IInv, Checked
<1>7. status' # "none"
  BY DEF Statuses
<1> QED
  BY <1>4, <1>5, <1>6, <1>7 DEF IInv, Exists, Independent, Unstarted

LEMMA WritesKeep ==
    ASSUME IInv, NEW c \in Calls,
           Approve(c) \/ Refine(c) \/ AbortWithReason(c) \/ Abort(c)
    PROVE  IInv'
<1>1. /\ status # "none"
      /\ status \in Statuses
      /\ artifact \in Artifacts \cup {NoArtifact}
      /\ status \in {"awaiting_approval", "complete"} => Committed("done")
      /\ status = "complete" => artifact \in Artifacts
  BY DEF IInv, TypeOK, Backed, Exists, Idle, Approve, Refine, AbortWithReason,
         Abort
<1>2. CASE Approve(c)
  <2>1. Committed("done") /\ calls[c].artifact \in Artifacts
    BY <1>2 DEF Approve, IInv, Backed
  <2> QED
    BY <1>1, <1>2, <2>1, FinishKeeps DEF Approve, FinalizeTask, Statuses
<1>3. CASE Refine(c)
  <2>1. status' = status \/ status' = "dispatched"
    BY <1>3 DEF Refine, ChangeTaskStatus, StatusRefused
  <2> QED
    BY <1>1, <1>3, <2>1, FinishKeeps DEF Refine, Statuses
<1>4. CASE AbortWithReason(c)
  <2>1. status' = status \/ status' = "aborted"
    BY <1>4, UpdateKeepsType DEF AbortWithReason, Statuses
  <2> QED
    BY <1>1, <1>4, <2>1, FinishKeeps DEF AbortWithReason, Statuses
<1>5. CASE Abort(c)
  BY <1>1, <1>5, FinishKeeps DEF Abort, Statuses
<1> QED
  BY <1>2, <1>3, <1>4, <1>5

\* The second read of an abort finds a task that has not ended, or gives up.
LEMMA ValidateAbortKeeps ==
    ASSUME IInv, NEW c \in Calls, ValidateAbort(c)
    PROVE  IInv'
<1>1. /\ UNCHANGED <<status, artifact, dispatches, outputs, aggregations, log,
                     tool, refused, requests>>
      /\ calls[c].op = "abort"
  BY DEF ValidateAbort
<1>2. status # "none" /\ status \in Statuses
  BY <1>1 DEF IInv, TypeOK, Exists, Idle
<1>3. CASE Allowed("aborted")
  <2> DEFINE call == [calls[c] EXCEPT !.validated = TRUE, !.seen = status]
  <2>1. calls' = [calls EXCEPT ![c] = call]
    BY <1>3 DEF ValidateAbort
  <2>2. calls[c] \in Call
    BY DEF IInv, TypeOK
  <2>3. call \in Call /\ call.op = "abort" /\ call.seen = status
    BY <1>1, <1>2, <2>2 DEF Call
  <2>4. status \notin Terminal
    BY <1>2, <1>3 DEF Allowed, TaskTransitions, Terminal, Statuses
  <2> HIDE DEF call
  <2>5. /\ calls' \in [Calls -> Call]
        /\ calls'[c] = call
        /\ \A e \in Calls \ {c} : calls'[e] = calls[e]
    BY <2>1, <2>3 DEF IInv, TypeOK
  <2>6. TypeOK'
    BY <1>1, <2>5 DEF IInv, TypeOK
  <2>7. Backed' /\ Checked'
    BY <1>1, <2>3, <2>4, <2>5 DEF IInv, Backed, Checked, Committed
  <2> QED
    BY <1>1, <1>2, <2>6, <2>7 DEF IInv, Exists, Independent, Unstarted
<1>4. CASE ~ Allowed("aborted")
  BY <1>1, <1>2, <1>4, FinishKeeps DEF ValidateAbort, IInv, TypeOK, Backed
<1> QED
  BY <1>3, <1>4

LEMMA CrashKeeps ==
    ASSUME IInv, Crash
    PROVE  IInv'
<1>1. /\ NoTool.worker \in Agents /\ NoTool.stage = "idle"
      /\ NoTool.found = "none" /\ NoTool.seen = "none"
  BY TasksAssumption DEF NoTool
<1>2. Idle \in Call /\ Idle.op = "none"
  BY DEF Idle, Call, Ops
<1>3. /\ UNCHANGED <<status, artifact, dispatches, outputs, aggregations, log,
                     refused, requests>>
      /\ tool' = NoTool
      /\ calls' = [c \in Calls |-> Idle]
  BY DEF Crash
<1>4. TypeOK'
  BY <1>1, <1>2, <1>3 DEF IInv, TypeOK
<1>5. Backed' /\ Checked'
  BY <1>1, <1>2, <1>3 DEF IInv, Backed, Checked, Committed
<1> QED
  BY <1>1, <1>3, <1>4, <1>5 DEF IInv, Exists, Independent, Unstarted

LEMMA NextKeeps ==
    IInv /\ [Next]_vars => IInv'
<1> SUFFICES ASSUME IInv, [Next]_vars PROVE IInv'
  OBVIOUS
<1>1. CASE CreateTask
  BY <1>1, CreateTaskKeeps
<1>2. CASE ToolStep
  BY <1>2, ToolReads, CreateDispatchKeeps, EmitOutputKeeps, AggregateKeeps
     DEF ToolStep
<1>3. CASE \E c \in Calls : OperatorStep(c)
  BY <1>3, BeginKeeps, WritesKeep, ValidateAbortKeeps DEF OperatorStep
<1>4. CASE Crash
  BY <1>4, CrashKeeps
<1>5. CASE UNCHANGED vars
  BY <1>5 DEF vars, IInv, TypeOK, Backed, Checked, Exists, Independent, Unstarted,
             Committed
<1> QED
  BY <1>1, <1>2, <1>3, <1>4, <1>5 DEF Next

LEMMA InvariantHolds ==
    Spec => []IInv
BY InitHolds, NextKeeps, PTL DEF Spec

------------------------------------------------------------------------------
(* What follows. *)

(* The tables keep the types of the schema, no dispatch goes to the task's *)
(* own orchestrator (create_dispatch's independence rule), and a dispatch  *)
(* has one output at most.                                                 *)
THEOREM TypeCorrect ==
    Spec => []TypeOK
<1>1. IInv => TypeOK
  BY DEF IInv
<1> QED
  BY <1>1, InvariantHolds, PTL

(* No output is ever recorded, whatever the workers emit: emit_output      *)
(* demands a dispatch in progress (update_dispatch_status), and no         *)
(* operation of the broker puts one in progress.                           *)
THEOREM NothingIsRecorded ==
    Spec => [](outputs = <<>>)
<1>1. IInv => outputs = <<>>
  BY DEF IInv, Unstarted
<1> QED
  BY <1>1, InvariantHolds, PTL

(* Whatever requests race, a completed task had been decided done by its   *)
(* orchestrator, and carries an artifact (approve_task, finalize_task).    *)
THEOREM CompletionIsBacked ==
    Spec => []CompletedAfterDone
<1>1. IInv => CompletedAfterDone
  BY DEF IInv, Backed, CompletedAfterDone
<1> QED
  BY <1>1, InvariantHolds, PTL

(* A task that has ended stays ended, and is changed by nobody who looks   *)
(* at it after the end: only an approval or an abort that had looked       *)
(* before overwrites its outcome and adds to its log (approve_task,        *)
(* abort_task), and only a delphi_v3_dispatch whose own read found it      *)
(* going on adds a dispatch, unless create_dispatch read it as new.        *)
(* Aggregations and outputs stay as they are.                              *)
THEOREM TheEndIsGuarded ==
    Spec => OnlyOvertakenActAfterEnd
<1>1. IInv /\ [Next]_vars => [(status \in Terminal) => ActsAfterEnd]_vars
  <2> SUFFICES ASSUME IInv, Next, status \in Terminal
               PROVE  ActsAfterEnd
    OBVIOUS
  <2>1. status \in Statuses /\ status # "none"
    BY DEF Terminal, Statuses
  <2>2. CASE CreateTask
    BY <2>1, <2>2 DEF CreateTask
  <2>3. CASE ToolStep
    <3>1. CASE (\E w \in Agents : BeginDispatch(w)) \/ ReadTask
      BY <3>1 DEF BeginDispatch, ReadTask, ActsAfterEnd
    <3>2. CASE CreateDispatch
      <4>1. ~ UpdateTaskStatus("dispatched")
        BY NothingFollowsTheEnd DEF Statuses, Terminal
      <4>2. UNCHANGED <<status, artifact, log, aggregations, outputs>>
        BY <3>2, <4>1 DEF CreateDispatch, StatusRefused
      <4>3. tool.stage = "read" /\ tool.found \notin Terminal
        BY <3>2 DEF CreateDispatch, IInv, Checked
      <4>4. tool.seen = "new" => UNCHANGED dispatches
        BY <3>2, <4>1 DEF CreateDispatch
      <4> QED
        BY <4>2, <4>3, <4>4 DEF ActsAfterEnd, DispatchedLate
    <3>3. CASE \E d \in DOMAIN dispatches : EmitOutput(d)
      <4>1. PICK d \in DOMAIN dispatches : EmitOutput(d)
        BY <3>3
      <4>2. ~ DispatchAccepts(d, "done")
        BY DEF IInv, Unstarted, DispatchAccepts, DispatchTransitions,
               DispatchStatuses
      <4> QED
        BY <4>1, <4>2 DEF EmitOutput, RecordWorkerOutput, ActsAfterEnd
    <3>4. CASE \E decision \in Decisions : Aggregate(decision)
      <4>1. PICK decision \in Decisions : Aggregate(decision)
        BY <3>4
      <4>2. Outcome(decision) \in Statuses \ Terminal
        BY DEF Outcome, Decisions, Statuses, Terminal
      <4>3. UpdateTaskStatus(Outcome(decision))
        BY <4>1 DEF Aggregate, CreateAggregation
      <4> QED
        BY <4>2, <4>3, NothingFollowsTheEnd
    <3> QED
      BY <2>3, <3>1, <3>2, <3>3, <3>4 DEF ToolStep
  <2>4. CASE \E c \in Calls : OperatorStep(c)
    <3> PICK c \in Calls : OperatorStep(c)
      BY <2>4
    <3>1. CASE (\E text \in Artifacts : BeginApprove(c, text)) \/ BeginRefine(c)
               \/ BeginAbort(c)
      BY <3>1 DEF BeginApprove, BeginRefine, BeginAbort, Take, ActsAfterEnd
    <3>2. CASE Approve(c) \/ Abort(c)
      <4>1. calls'[c] = Idle
        BY <3>2 DEF Approve, Abort, Finish, IInv, TypeOK
      <4>2. Overtaken
        BY <3>2, <4>1 DEF Approve, Abort, Overtaken, IInv, Checked
      <4>3. status' \in Terminal
        BY <3>2 DEF Approve, FinalizeTask, Abort, Terminal
      <4> QED
        BY <3>2, <4>2, <4>3 DEF Approve, Abort, ActsAfterEnd
    <3>3. CASE Refine(c)
      BY <2>1, <3>3 DEF Refine, ChangeTaskStatus, StatusRefused, Allowed,
                        TaskTransitions, Terminal, ActsAfterEnd
    <3>4. CASE AbortWithReason(c)
      <4>1. UNCHANGED <<status, log>>
        BY <2>1, <3>4 DEF AbortWithReason, UpdateTaskStatus, ChangeTaskStatus,
                          StatusRefused, Allowed, TaskTransitions, Terminal
      <4> QED
        BY <3>4, <4>1 DEF AbortWithReason, ActsAfterEnd
    <3>5. CASE ValidateAbort(c)
      BY <3>5 DEF ValidateAbort, ActsAfterEnd
    <3> QED
      BY <3>1, <3>2, <3>3, <3>4, <3>5 DEF OperatorStep
  <2>5. CASE Crash
    BY <2>5 DEF Crash, ActsAfterEnd
  <2> QED
    BY <2>2, <2>3, <2>4, <2>5 DEF Next
<1> QED
  BY <1>1, InvariantHolds, PTL DEF Spec, OnlyOvertakenActAfterEnd

------------------------------------------------------------------------------
(* The audit log. *)

LogEvents ==
    [type : {"task_created", "task_status_changed", "task_finalized",
             "operator_refine_comment"},
     from : Statuses \cup {"none"}, to : Statuses \cup {"none"}]

Told == log \in Seq(LogEvents) /\ AuditTellsHistory

\* The log grows by the change of status, and by the comment before it if the
\* change sends the task back to work.
LEMMA ChangeIsTold ==
    ASSUME Told, NEW e \in LogEvents, NEW n \in Nat,
           log' \in Seq(LogEvents), Len(log') = n,
           \/ n = Len(log) + 1
           \/ n = Len(log) + 2 /\ log'[n - 1] = Comment /\ e.to = "dispatched",
           \A i \in 1..Len(log) : log'[i] = log[i],
           log'[n] = e, e.to = status', status' # "none",
           e.type = "task_status_changed" /\ e.to # "aborted" =>
              status # "none" /\ e.from = status
    PROVE  Told'
<1>1. /\ log \in Seq(LogEvents) /\ Len(log) \in Nat
      /\ DOMAIN log = 1..Len(log) /\ DOMAIN log' = 1..n
      /\ n \notin DOMAIN log /\ n \in DOMAIN log'
      /\ DOMAIN log \subseteq DOMAIN log'
  BY DEF Told
<1>2. Comment.to = "none" /\ e # Comment
  BY DEF Comment, Event
<1>3. Telling' = Telling \cup {n}
  <2>1. \A i \in DOMAIN log' : i \in DOMAIN log \/ i = n \/ log'[i] = Comment
    BY <1>1
  <2> QED
    BY <1>1, <1>2, <2>1 DEF Telling
<1>4. Telling \subseteq 1..Len(log)
  BY <1>1 DEF Telling
<1>5. \E i \in Telling' : log'[i].to = status' /\ \A j \in Telling' : j <= i
  <2>1. n \in Telling' /\ log'[n].to = status' /\ \A j \in Telling' : j <= n
    BY <1>1, <1>3, <1>4
  <2> QED
    BY <2>1
<1>6. ASSUME NEW i \in Telling', NEW j \in Telling',
             i < j, \A k \in Telling' : k <= i \/ j <= k,
             log'[j].type = "task_status_changed", log'[j].to # "aborted"
      PROVE  log'[j].from = log'[i].to
  <2>1. i \in Telling /\ log'[i] = log[i]
    BY <1>1, <1>3, <1>4, <1>6
  <2>2. CASE j \in Telling
    <3>1. log'[j] = log[j] /\ \A k \in Telling : k <= i \/ j <= k
      BY <1>3, <1>4, <1>6, <2>2
    <3> QED
      BY <1>6, <2>1, <2>2, <3>1 DEF Told, AuditTellsHistory
  <2>3. CASE j = n
    <3>1. status # "none" /\ log'[j].from = status
      BY <1>6, <2>3
    <3>2. PICK l \in Telling : log[l].to = status /\ \A k \in Telling : k <= l
      BY <3>1 DEF Told, AuditTellsHistory
    <3>3. l = i
      BY <1>1, <1>3, <1>4, <1>6, <2>1, <2>3, <3>2
    <3> QED
      BY <2>1, <3>1, <3>2, <3>3
  <2> QED
    BY <1>3, <2>2, <2>3
<1>7. ASSUME NEW i \in DOMAIN log', log'[i] = Comment
      PROVE  i + 1 \in DOMAIN log' /\ log'[i + 1].to = "dispatched"
  <2>1. CASE i \in DOMAIN log
    <3>1. i + 1 \in DOMAIN log /\ log[i + 1].to = "dispatched"
      BY <1>1, <1>7, <2>1 DEF Told, AuditTellsHistory
    <3> QED
      BY <1>1, <3>1
  <2>2. CASE i \notin DOMAIN log
    BY <1>1, <1>2, <1>7, <2>2
  <2> QED
    BY <2>1, <2>2
<1> QED
  BY <1>5, <1>6, <1>7 DEF Told, AuditTellsHistory

LEMMA NothingIsTold ==
    ASSUME Told, UNCHANGED <<status, log>>
    PROVE  Told'
BY DEF Told, AuditTellsHistory, Telling

LEMMA EventTold ==
    ASSUME Told, NEW e \in LogEvents, log' = Append(log, e),
           e.to = status', status' # "none",
           e.type = "task_status_changed" /\ e.to # "aborted" =>
              status # "none" /\ e.from = status
    PROVE  Told'
<1>1. log \in Seq(LogEvents)
  BY DEF Told
<1>2. /\ log' \in Seq(LogEvents)
      /\ Len(log') = Len(log) + 1
      /\ \A i \in 1..Len(log) : log'[i] = log[i]
      /\ log'[Len(log) + 1] = e
  BY <1>1
<1>3. Len(log) + 1 \in Nat
  BY <1>1
<1> QED
  BY <1>2, <1>3, ChangeIsTold

LEMMA UpdateIsTold ==
    ASSUME Told, status \in Statuses, NEW to \in Statuses,
           UpdateTaskStatus(to) \/ StatusRefused(to)
    PROVE  Told'
<1>1. CASE UNCHANGED <<status, log>>
  BY <1>1, NothingIsTold
<1>2. CASE ChangeTaskStatus(to, <<>>)
  <2> DEFINE e == Changed(status, to)
  <2>1. e \in LogEvents /\ e.to = to /\ e.from = status
    BY DEF Changed, Event, LogEvents
  <2>2. log' = Append(log, e) /\ status' = to
    BY <1>2 DEF ChangeTaskStatus, Told
  <2>3. status # "none" /\ to # "none"
    BY DEF Statuses
  <2> HIDE DEF e
  <2> QED
    BY <2>1, <2>2, <2>3, EventTold
<1> QED
  BY <1>1, <1>2 DEF UpdateTaskStatus, StatusRefused

LEMMA RefineIsTold ==
    ASSUME Told, status \in Statuses, ChangeTaskStatus("dispatched", <<Comment>>)
    PROVE  Told'
<1> DEFINE e == Changed(status, "dispatched")
<1>1. e \in LogEvents /\ e.to = "dispatched" /\ e.from = status
  BY DEF Changed, Event, LogEvents, Statuses
<1>2. Comment \in LogEvents
  BY DEF Comment, Event, LogEvents
<1>3. log \in Seq(LogEvents)
  BY DEF Told
<1>4. log' = log \o <<Comment>> \o <<e>> /\ status' = "dispatched"
  BY DEF ChangeTaskStatus
<1> HIDE DEF e
<1>5. /\ log' \in Seq(LogEvents)
      /\ Len(log') = Len(log) + 2
      /\ \A i \in 1..Len(log) : log'[i] = log[i]
      /\ log'[Len(log) + 1] = Comment
      /\ log'[Len(log) + 2] = e
  BY <1>1, <1>2, <1>3, <1>4
<1>6. Len(log) + 2 \in Nat /\ Len(log) + 2 - 1 = Len(log) + 1 /\ status # "none"
  BY <1>3 DEF Statuses
<1> QED
  BY <1>1, <1>4, <1>5, <1>6, ChangeIsTold

LEMMA StepsTell ==
    ASSUME IInv, Told, [Next]_vars
    PROVE  Told'
<1>1. ASSUME status # "none" PROVE status \in Statuses
  BY <1>1 DEF IInv, TypeOK
<1>2. CASE CreateTask
  <2> DEFINE e == Event("task_created", "none", "new")
  <2>1. e \in LogEvents /\ e.to = "new" /\ e.type = "task_created"
    BY DEF Event, LogEvents, Statuses
  <2>2. log' = Append(log, e) /\ status' = "new"
    BY <1>2 DEF CreateTask
  <2> HIDE DEF e
  <2> QED
    BY <2>1, <2>2, EventTold
<1>3. CASE ToolStep
  <2>1. CASE \/ \E w \in Agents : BeginDispatch(w)
             \/ ReadTask
             \/ \E d \in DOMAIN dispatches : EmitOutput(d)
    BY <2>1, NothingIsTold DEF BeginDispatch, ReadTask, EmitOutput
  <2>2. CASE CreateDispatch
    <3>1. status \in Statuses
      BY <1>1, <2>2 DEF CreateDispatch, IInv, Exists
    <3> QED
      BY <2>2, <3>1, UpdateIsTold, NothingIsTold DEF CreateDispatch, Statuses
  <2>3. ASSUME NEW decision \in Decisions, Aggregate(decision)
        PROVE  Told'
    <3>1. status # "none" /\ UpdateTaskStatus(Outcome(decision))
      BY <2>3 DEF Aggregate, CreateAggregation
    <3>2. Outcome(decision) \in Statuses
      BY DEF Outcome, Decisions, Statuses
    <3> QED
      BY <1>1, <3>1, <3>2, UpdateIsTold
  <2> QED
    BY <1>3, <2>1, <2>2, <2>3 DEF ToolStep
<1>4. ASSUME NEW c \in Calls, OperatorStep(c)
      PROVE  Told'
  <2>1. CASE \/ \E text \in Artifacts : BeginApprove(c, text)
             \/ BeginRefine(c) \/ BeginAbort(c) \/ ValidateAbort(c)
    BY <2>1, NothingIsTold DEF BeginApprove, BeginRefine, BeginAbort, Take, ValidateAbort
  <2>2. ASSUME Approve(c) \/ Refine(c) \/ AbortWithReason(c) \/ Abort(c)
        PROVE  status \in Statuses
    <3>1. calls[c] # Idle
      BY <2>2 DEF Approve, Refine, AbortWithReason, Abort, Idle
    <3> QED
      BY <1>1, <3>1 DEF IInv, Exists
  <2>3. CASE Approve(c)
    <3> DEFINE e == Event("task_finalized", "none", "complete")
    <3>1. e \in LogEvents /\ e.to = "complete" /\ e.type = "task_finalized"
      BY DEF Event, LogEvents, Statuses
    <3>2. log' = Append(log, e) /\ status' = "complete"
      BY <2>3 DEF Approve, FinalizeTask
    <3> HIDE DEF e
    <3> QED
      BY <3>1, <3>2, EventTold
  <2>4. CASE Refine(c)
    BY <2>2, <2>4, RefineIsTold, NothingIsTold DEF Refine, StatusRefused
  <2>5. CASE AbortWithReason(c)
    BY <2>2, <2>5, UpdateIsTold DEF AbortWithReason, Statuses
  <2>6. CASE Abort(c)
    <3> DEFINE e == Changed(calls[c].seen, "aborted")
    <3>1. calls[c] \in Call
      BY DEF IInv, TypeOK
    <3>2. calls[c].seen \in Statuses \cup {"none"}
      BY <3>1 DEF Call
    <3>3. e \in LogEvents /\ e.to = "aborted"
      BY <3>2 DEF Changed, Event, LogEvents, Statuses
    <3>4. log' = Append(log, e) /\ status' = "aborted"
      BY <2>6 DEF Abort
    <3> HIDE DEF e
    <3> QED
      BY <3>3, <3>4, EventTold
  <2> QED
    BY <1>4, <2>1, <2>3, <2>4, <2>5, <2>6 DEF OperatorStep
<1>5. CASE Crash \/ UNCHANGED vars
  BY <1>5, NothingIsTold DEF Crash, vars
<1> QED
  BY <1>2, <1>3, <1>4, <1>5 DEF Next

(* Whatever handlers overlap, the audit log's last word is the task's      *)
(* status, each change is told from the status the one before it led to    *)
(* (but for an abort without a reason), and each comment of the operator   *)
(* sent the task back to work (update_task_status, refine_task).           *)
THEOREM TheLogTellsHistory ==
    Spec => []AuditTellsHistory
<1>1. Init => Told
  <2> SUFFICES ASSUME Init PROVE Told
    OBVIOUS
  <2>1. log = <<>> /\ status = "none"
    BY DEF Init
  <2> QED
    BY <2>1 DEF Told, AuditTellsHistory, Telling
<1>2. IInv /\ Told /\ [Next]_vars => Told'
  BY StepsTell
<1>3. Told => AuditTellsHistory
  BY DEF Told
<1> QED
  BY <1>1, <1>2, <1>3, InvariantHolds, PTL DEF Spec
=============================================================================
