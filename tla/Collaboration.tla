---------------------------- MODULE Collaboration ----------------------------
(***************************************************************************)
(* Operator-mediated messages between governed agents                      *)
(* (collaboration/collab_service.py over collaboration/collab_store.py).   *)
(*                                                                         *)
(* Agents call MCP tools, which run one at a time on the broker's event    *)
(* loop: propose, poll, ack and get_thread are single steps.  Operators    *)
(* call HTTP handlers, which run on a thread pool with a connection each:  *)
(* decide and send_operator_message first read (no transaction is open),   *)
(* then write in one BEGIN IMMEDIATE transaction.  Between the two, any    *)
(* other step may happen, and the store's UNIQUE constraints are all that  *)
(* tells the second of two racing requests that it lost.                   *)
(*                                                                         *)
(* A draft is named by its position in `drafts`, a thread by the draft     *)
(* that opened it, a deliverable by its draft (both columns are UNIQUE).   *)
(* Recipient lists are sets: their order only matters to a retry.          *)
(***************************************************************************)
EXTENDS Naturals, Sequences, FiniteSets

CONSTANTS Agents,        \* participants with collaboration_governed
          Operator,      \* the decision authority, which is not governed
          Contents,      \* content_text and payload_json of a message
          NoContent,     \* the NULL final content of a rejection
          Correlations,  \* correlation ids clients choose
          Calls,         \* operator requests the thread pool runs at once
          PollLimit,     \* the `limit` of collab_poll
          Submitted,     \* bound: contents that are submitted (edits are free)
          MaxDrafts,     \* bound: no request adds a draft beyond these
          MaxRequests    \* bound: operator requests in a behaviour

ASSUME CollaborationAssumption ==
    /\ Operator \notin Agents
    /\ NoContent \notin Contents
    /\ Submitted \subseteq Contents
    /\ PollLimit \in Nat \ {0}
    /\ MaxDrafts \in Nat
    /\ MaxRequests \in Nat

VARIABLES drafts,     \* collab_drafts with collab_draft_recipients
          decisions,  \* collab_operator_decisions, for each draft
          delivered,  \* receipts <<draft, agent>> whose delivered_ts is set
          acked,      \* receipts <<draft, agent>> whose acked_ts is set
          known,      \* agent -> what the broker's answers have shown it
          calls,      \* operator requests: running, or answered
          clock       \* orders the timestamps operator requests take

vars == <<drafts, decisions, delivered, acked, known, calls, clock>>

------------------------------------------------------------------------------
(* Rows. *)

Participants == Agents \cup {Operator}
Audiences    == SUBSET Agents \ {{}}

Approvals == {"approve", "edit_and_approve", "redirect_and_approve",
              "operator_initiated"}

Draft == [thread  : Nat \ {0},
          from    : Participants,
          to      : Audiences,
          content : Contents,
          corr    : Correlations]

Decision == [type    : Approvals \cup {"reject", "pending"},
             content : Contents \cup {NoContent},
             to      : SUBSET Agents,
             at      : Nat]

\* A draft that has no row in collab_operator_decisions.
Pending == [type |-> "pending", content |-> NoContent, to |-> {}, at |-> 0]

Statuses == {"idle", "running", "recorded", "existing", "conflict", "failed"}

\* An operator request: a decision on `draft`, or, when `draft` is 0, a
\* message for `thread` (0: a new one).
Call == [status   : Statuses,
         draft    : Nat,
         thread   : Nat,
         corr     : Correlations \cup {NoContent},
         decision : Decision]

Idle == [status |-> "idle", draft |-> 0, thread |-> 0, corr |-> NoContent,
         decision |-> Pending]

Drafts  == DOMAIN drafts
Threads == {d \in Drafts : drafts[d].thread = d}

\* The receipts of the deliverables: the recipients of approving decisions.
Receipts == {r \in Drafts \X Agents : r[2] \in decisions[r[1]].to}

Written(from, corr) ==
    {d \in Drafts : drafts[d].from = from /\ drafts[d].corr = corr}

SameForm(x, y) == /\ x.type = y.type
                  /\ x.content = y.content
                  /\ x.to = y.to

------------------------------------------------------------------------------
(* Who may read and who may write in a thread. *)

InThread(t) == {d \in Drafts : drafts[d].thread = t}

CanRead(a, t) ==
    \E d \in InThread(t) :
        \/ drafts[d].from = a
        \/ a \in drafts[d].to /\ decisions[d].type = "pending"
        \/ a \in decisions[d].to

CanProposeIfAddressed(a, t) == CanRead(a, t)

CanPropose(a, t) ==
    \E d \in InThread(t) : drafts[d].from = a \/ a \in decisions[d].to

Shown(d, content) == [draft |-> d, content |-> content]

VisibleToNamed(a, t) ==
    {Shown(d, drafts[d].content) :
        d \in {e \in InThread(t) : drafts[e].from = a \/ a \in drafts[e].to}}
    \cup
    {Shown(d, decisions[d].content) :
        d \in {e \in InThread(t) : /\ drafts[e].from = a \/ a \in decisions[e].to
                                   /\ decisions[e].type \in Approvals}}

\* The entries of get_thread: drafts and decisions to their author,
\* deliverables to their author and their recipients.
Visible(a, t) ==
    {Shown(d, drafts[d].content) :
        d \in {e \in InThread(t) : drafts[e].from = a}}
    \cup
    {Shown(d, decisions[d].content) :
        d \in {e \in InThread(t) : /\ drafts[e].from = a \/ a \in decisions[e].to
                                   /\ decisions[e].type \in Approvals}}

------------------------------------------------------------------------------
(* Agents: the MCP tools. *)

Init ==
    /\ drafts = <<>>
    /\ decisions = <<>>
    /\ delivered = {}
    /\ acked = {}
    /\ known = [a \in Agents |-> {}]
    /\ calls = [c \in Calls |-> Idle]
    /\ clock = 0

\* A new draft, with its decision, in thread t or, for t = 0, its own thread.
CreateDraft(from, t, to, content, corr, decision) ==
    /\ drafts' = Append(drafts,
                        [thread  |-> IF t = 0 THEN Len(drafts) + 1 ELSE t,
                         from    |-> from,
                         to      |-> to,
                         content |-> content,
                         corr    |-> corr])
    /\ decisions' = Append(decisions, decision)

\* propose: a retry (same sender and correlation id) writes nothing.
Propose(a, t, to, content, corr) ==
    /\ Len(drafts) < MaxDrafts
    /\ a \notin to
    /\ Written(a, corr) = {}
    /\ t # 0 => t \in Threads /\ CanPropose(a, t)
    /\ CreateDraft(a, t, to, content, corr, Pending)
    /\ UNCHANGED <<delivered, acked, known, calls, clock>>

UnackedOnceDelivered(a) ==
    {d \in Drafts : <<d, a>> \in Receipts \ delivered}

Unacked(a) == {d \in Drafts : <<d, a>> \in Receipts \ acked}

Older(d, e) == decisions[d].at < decisions[e].at

\* The n oldest deliverables a has not acknowledged.
Oldest(a, n) ==
    {d \in Unacked(a) : Cardinality({e \in Unacked(a) : Older(e, d)}) < n}

MarkDelivered(a, D) == delivered' = delivered \cup (D \X {a})

\* poll: the whole batch is marked delivered and the answer reaches the agent.
Poll(a) ==
    LET batch == Oldest(a, PollLimit)
    IN  /\ batch # {}
        /\ MarkDelivered(a, batch)
        /\ known' = [known EXCEPT ![a] =
                @ \cup {Shown(d, decisions[d].content) : d \in batch}]
        /\ UNCHANGED <<drafts, decisions, acked, calls, clock>>

\* Everything the operators' running requests held is gone with the process.
DropCalls ==
    calls' = [c \in Calls |->
                IF calls[c].status = "running" THEN Idle ELSE calls[c]]

\* poll marks its deliverables in one transaction each: the answer is lost,
\* or the broker dies, after the first n of them.
PollUnanswered(a, n) ==
    /\ Oldest(a, n) # {}
    /\ MarkDelivered(a, Oldest(a, n))
    /\ \/ n = PollLimit /\ UNCHANGED calls
       \/ DropCalls
    /\ UNCHANGED <<drafts, decisions, acked, known, clock>>

MarkAckedUndelivered(a, d) == acked' = acked \cup {<<d, a>>}

MarkAcked(a, d) ==
    /\ <<d, a>> \in delivered
    /\ acked' = acked \cup {<<d, a>>}

\* ack: of a deliverable the agent has heard of, once its receipt says
\* delivered (get_thread shows a deliverable before any poll).
Ack(a, d) ==
    /\ \E s \in known[a] : s.draft = d
    /\ <<d, a>> \in Receipts
    /\ MarkAcked(a, d)
    /\ UNCHANGED <<drafts, decisions, delivered, known, calls, clock>>

\* get_thread: pending recipients may read the thread, and find nothing in it.
GetThread(a, t) ==
    /\ t \in Threads
    /\ CanRead(a, t)
    /\ known' = [known EXCEPT ![a] = @ \cup Visible(a, t)]
    /\ UNCHANGED <<drafts, decisions, delivered, acked, calls, clock>>

------------------------------------------------------------------------------
(* Operators: the HTTP handlers. *)

\* _normalize_decision: what each kind of decision turns draft d into.
Rulings(d) ==
    LET ruling(type, content, to) ==
            [type |-> type, content |-> content, to |-> to, at |-> 0]
    IN  {ruling("approve", drafts[d].content, drafts[d].to),
         ruling("reject", NoContent, {})}
        \cup {ruling("edit_and_approve", content, drafts[d].to) :
                content \in Contents}
        \cup {ruling("redirect_and_approve", drafts[d].content, to) :
                to \in Audiences}

\* What the caller still has of a request once it is answered.
Reply(status, d, decision) ==
    [Idle EXCEPT !.status = status, !.draft = d, !.decision = decision]

Answer(c, status, d) ==
    calls' = [calls EXCEPT ![c] = Reply(status, d, @.decision)]

\* A request enters slot c: it is on its way to the store, or answered.  A slot
\* keeps the answer; the slots are alike, so the first idle one is taken.
Take(c, call) ==
    /\ calls[c].status = "idle"
    /\ c = CHOOSE b \in Calls : calls[b].status = "idle"
    /\ clock < MaxRequests
    /\ clock' = clock + 1
    /\ calls' = [calls EXCEPT ![c] = call]

\* decide, up to the write: an earlier decision answers the request.
BeginDecide(c, d, ruling) ==
    /\ \/ /\ decisions[d].type = "pending"
          /\ Take(c, [status |-> "running", draft |-> d, thread |-> 0,
                      corr |-> NoContent,
                      decision |-> [ruling EXCEPT !.at = clock + 1]])
       \/ /\ decisions[d].type # "pending"
          /\ Take(c, IF SameForm(decisions[d], ruling)
                     THEN Reply("existing", d, ruling)
                     ELSE Reply("conflict", d, Pending))
    /\ UNCHANGED <<drafts, decisions, delivered, acked, known>>

RecordDecisionUnchecked(d, decision) ==
    decisions' = [decisions EXCEPT ![d] = decision]

\* UNIQUE(draft_id): the insert of a second decision fails.
RecordDecision(d, decision) ==
    /\ decisions[d].type = "pending"
    /\ decisions' = [decisions EXCEPT ![d] = decision]

\* decide, the write: it is rolled back, and the request fails, if another
\* request has decided in the meantime.
CommitDecide(c) ==
    LET d == calls[c].draft
    IN  /\ calls[c].status = "running"
        /\ d # 0
        /\ \/ /\ RecordDecision(d, calls[c].decision)
              /\ Answer(c, "recorded", d)
           \/ /\ decisions[d].type # "pending"
              /\ Answer(c, "failed", d)
              /\ UNCHANGED decisions
        /\ UNCHANGED <<drafts, delivered, acked, known, clock>>

\* _operator_message_matches_request.  All new threads get one subject, so a
\* request without a thread matches whatever thread the earlier one went to.
Matches(d, t, to, content) ==
    /\ t # 0 => drafts[d].thread = t
    /\ drafts[d].content = content
    /\ drafts[d].to = to

\* send_operator_message, up to the write.  The operator may address any
\* thread.
BeginMessage(c, t, to, content, corr) ==
    LET decision == [type |-> "operator_initiated", content |-> content,
                     to |-> to, at |-> clock + 1]
    IN  /\ t # 0 => t \in Threads
        /\ \/ /\ Written(Operator, corr) = {}
              /\ Len(drafts) < MaxDrafts
              /\ Take(c, [status |-> "running", draft |-> 0, thread |-> t,
                          corr |-> corr, decision |-> decision])
           \/ \E d \in Written(Operator, corr) :
                 Take(c, IF Matches(d, t, to, content)
                         THEN Reply("existing", d, decision)
                         ELSE Reply("conflict", d, Pending))
        /\ UNCHANGED <<drafts, decisions, delivered, acked, known>>

RecordMessageUnchecked(call) ==
    CreateDraft(Operator, call.thread, call.decision.to,
                call.decision.content, call.corr, call.decision)

\* Draft, decision, deliverable and receipts in one transaction.
\* UNIQUE(from_participant, correlation_id): a second draft fails.
RecordMessage(call) ==
    /\ Written(Operator, call.corr) = {}
    /\ CreateDraft(Operator, call.thread, call.decision.to,
                   call.decision.content, call.corr, call.decision)

\* send_operator_message, the write.
CommitMessage(c) ==
    /\ calls[c].status = "running"
    /\ calls[c].draft = 0
    /\ \/ /\ RecordMessage(calls[c])
          /\ Answer(c, "recorded", Len(drafts) + 1)
       \/ /\ Written(Operator, calls[c].corr) # {}
          /\ Answer(c, "failed", 0)
          /\ UNCHANGED <<drafts, decisions>>
    /\ UNCHANGED <<delivered, acked, known, clock>>

Crash ==
    /\ \E c \in Calls : calls[c].status = "running"
    /\ DropCalls
    /\ UNCHANGED <<drafts, decisions, delivered, acked, known, clock>>

------------------------------------------------------------------------------
AgentStep(a) ==
    \/ \E t \in {0} \cup Threads, to \in Audiences, content \in Submitted,
          corr \in Correlations : Propose(a, t, to, content, corr)
    \/ Poll(a)
    \/ \E n \in 1..PollLimit : PollUnanswered(a, n)
    \/ \E d \in Drafts : Ack(a, d)
    \/ \E t \in Threads : GetThread(a, t)

OperatorStep(c) ==
    \/ \E d \in Drafts : \E ruling \in Rulings(d) : BeginDecide(c, d, ruling)
    \/ CommitDecide(c)
    \/ \E t \in {0} \cup Threads, to \in Audiences, content \in Submitted,
          corr \in Correlations : BeginMessage(c, t, to, content, corr)
    \/ CommitMessage(c)

Next ==
    \/ \E a \in Agents : AgentStep(a)
    \/ \E c \in Calls : OperatorStep(c)
    \/ Crash

Spec == Init /\ [][Next]_vars

\* Agents keep polling and acknowledge what they are given; not every answer
\* is lost.  Operators need never act.
FairSpec ==
    /\ Spec
    /\ \A a \in Agents : WF_vars(Poll(a))
    /\ \A a \in Agents : WF_vars(\E d \in Drafts : Ack(a, d))
=============================================================================
