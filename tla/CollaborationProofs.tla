------------------------- MODULE CollaborationProofs -------------------------
(***************************************************************************)
(* What is proved about operator-mediated collaboration, for any agents,   *)
(* any number of operator requests side by side, and every bound.          *)
(***************************************************************************)
EXTENDS CollaborationProperties, SequenceTheorems, TLAPS

(***************************************************************************)
(* The inductive invariant: the store, the agents' books, the requests.    *)
(***************************************************************************)
\* Nobody is a recipient but by an approval, and an approval has a form.
WellFormed(r) ==
    /\ r.type \notin Approvals => r.to = {}
    /\ r.type \in Approvals => r.content \in Contents /\ r.to \in Audiences

\* What the operator writes is decided as it is written.
OwnDecision(d) ==
    drafts[d].from = Operator =>
        /\ decisions[d].type = "operator_initiated"
        /\ decisions[d].content = drafts[d].content
        /\ decisions[d].to = drafts[d].to

StoreTyped ==
    /\ drafts \in Seq(Draft)
    /\ decisions \in Seq(Decision)
    /\ Len(decisions) = Len(drafts)
    /\ \A d \in Drafts : drafts[d].thread \in 1..d

StoreInv ==
    /\ StoreTyped
    /\ \A d \in Drafts : WellFormed(decisions[d]) /\ OwnDecision(d)
    /\ AuthorsWereInvited
    /\ CorrelationsAreUnique

BooksInv ==
    /\ delivered \subseteq Receipts
    /\ acked \subseteq delivered
    /\ known \in [Agents -> SUBSET [draft : Nat, content : Contents]]
    /\ DisclosedOnlyAsDecided

\* What a running request will write is fit to be written.
Fit(k) ==
    k.status = "running" =>
        /\ WellFormed(k.decision)
        /\ k.decision.type # "pending"
        /\ k.draft # 0 => k.draft \in Drafts
        /\ k.draft = 0 => /\ k.thread \in {0} \cup Threads
                          /\ k.corr \in Correlations
                          /\ k.decision.type = "operator_initiated"

Truthful(k) ==
    k.status \in {"recorded", "existing"} =>
        /\ k.draft \in Drafts
        /\ k.decision.type # "pending"
        /\ SameForm(decisions[k.draft], k.decision)

CallsInv ==
    /\ calls \in [Calls -> Call]
    /\ clock \in Nat
    /\ \A c \in Calls : Fit(calls[c]) /\ Truthful(calls[c])

IInv == StoreInv /\ BooksInv /\ CallsInv

(***************************************************************************)
(* A step keeps the store: rows are only added, decisions only taken.      *)
(***************************************************************************)
Kept ==
    /\ Drafts \subseteq Drafts'
    /\ \A d \in Drafts : drafts'[d] = drafts[d]
    /\ \A d \in Drafts : decisions[d].type # "pending"
                            => decisions'[d] = decisions[d]

LEMMA UnchangedKeeps ==
    ASSUME UNCHANGED <<drafts, decisions>>
    PROVE  Kept
BY DEF Kept, Drafts

\* Who was a recipient, still is.
LEMMA KeptReceipts ==
    ASSUME StoreInv, Kept
    PROVE  Receipts \subseteq Receipts'
<1> SUFFICES ASSUME NEW d \in Drafts, NEW a \in Agents, a \in decisions[d].to
             PROVE  <<d, a>> \in Receipts'
  BY DEF Receipts
<1>1. decisions[d].type # "pending"
  BY DEF StoreInv, WellFormed, Approvals
<1>2. d \in Drafts' /\ decisions'[d] = decisions[d]
  BY <1>1 DEF Kept
<1> QED
  BY <1>2 DEF Receipts

LEMMA KeptThreads ==
    ASSUME Kept
    PROVE  Threads \subseteq Threads'
BY DEF Kept, Threads

\* What the agents know is as decided as before.
LEMMA KeptBooks ==
    ASSUME StoreInv, BooksInv, Kept, UNCHANGED <<delivered, acked, known>>
    PROVE  BooksInv'
<1>1. (delivered \subseteq Receipts)'
  BY KeptReceipts DEF BooksInv
<1>2. DisclosedOnlyAsDecided'
  <2> SUFFICES ASSUME NEW a \in Agents, NEW s \in known[a]
               PROVE  /\ s.draft \in Drafts'
                      /\ \/ drafts'[s.draft].from = a
                         \/ /\ decisions'[s.draft].type \in Approvals
                            /\ decisions'[s.draft].content = s.content
                            /\ a \in decisions'[s.draft].to
    BY DEF DisclosedOnlyAsDecided
  <2>1. /\ s.draft \in Drafts
        /\ \/ drafts[s.draft].from = a
           \/ /\ decisions[s.draft].type \in Approvals
              /\ decisions[s.draft].content = s.content
              /\ a \in decisions[s.draft].to
    BY DEF BooksInv, DisclosedOnlyAsDecided
  <2> QED
    BY <2>1 DEF Kept, Approvals
<1> QED
  BY <1>1, <1>2 DEF BooksInv

\* A request that is not touched stays fit and truthful.
LEMMA KeptCall ==
    ASSUME StoreInv, CallsInv, Kept, NEW c \in Calls, calls'[c] = calls[c]
    PROVE  Fit(calls[c])' /\ Truthful(calls[c])'
<1>1. Fit(calls[c]) /\ Truthful(calls[c])
  BY DEF CallsInv
<1>2. Fit(calls[c])'
  BY <1>1, KeptThreads DEF Fit, Kept, WellFormed
<1>3. Truthful(calls[c])'
  BY <1>1 DEF Truthful, Kept, SameForm
<1> QED
  BY <1>2, <1>3

\* Nor does it matter which requests are dropped.
LEMMA IdleIsFine ==
    ASSUME NEW c \in Calls, calls'[c] = Idle
    PROVE  Idle \in Call /\ Fit(calls[c])' /\ Truthful(calls[c])'
<1>1. Idle \in Call
  BY DEF Idle, Call, Statuses, Pending, Decision
<1>2. Idle.status = "idle"
  BY DEF Idle
<1> QED
  BY <1>1, <1>2 DEF Fit, Truthful

\* One request changes, the others are as they were.
LEMMA OneCallChanges ==
    ASSUME StoreInv, CallsInv, Kept, NEW c \in Calls,
           calls' \in [Calls -> Call],
           \A e \in Calls \ {c} : calls'[e] = calls[e],
           clock' \in Nat,
           Fit(calls[c])', Truthful(calls[c])'
    PROVE  CallsInv'
<1>1. \A e \in Calls : Fit(calls[e])' /\ Truthful(calls[e])'
  <2> SUFFICES ASSUME NEW e \in Calls
               PROVE  Fit(calls[e])' /\ Truthful(calls[e])'
    OBVIOUS
  <2>1. CASE e = c
    BY <2>1
  <2>2. CASE e # c
    BY <2>2, KeptCall
  <2> QED
    BY <2>1, <2>2
<1> QED
  BY <1>1 DEF CallsInv

LEMMA CallsUnchanged ==
    ASSUME StoreInv, CallsInv, Kept, UNCHANGED <<calls, clock>>
    PROVE  CallsInv'
<1>1. \A c \in Calls : Fit(calls[c])' /\ Truthful(calls[c])'
  BY KeptCall
<1> QED
  BY <1>1 DEF CallsInv

LEMMA DroppedCalls ==
    ASSUME StoreInv, CallsInv, Kept, DropCalls, UNCHANGED clock
    PROVE  CallsInv'
<1>1. \A c \in Calls : calls'[c] = Idle \/ calls'[c] = calls[c]
  BY DEF DropCalls
<1>2. \A c \in Calls : Fit(calls[c])' /\ Truthful(calls[c])'
  BY <1>1, KeptCall, IdleIsFine
<1>3. calls' \in [Calls -> Call]
  <2>1. \A c \in Calls : Idle \in Call /\ calls[c] \in Call
    BY DEF CallsInv, Idle, Call, Statuses, Pending, Decision
  <2> QED
    BY <2>1 DEF DropCalls
<1> QED
  BY <1>2, <1>3 DEF CallsInv

(***************************************************************************)
(* The two ways the store changes.                                         *)
(***************************************************************************)
\* A decision is recorded for a draft that has none.
LEMMA DecisionKeepsStore ==
    ASSUME StoreInv, NEW d \in Drafts, NEW r \in Decision,
           WellFormed(r), r.type # "pending",
           RecordDecision(d, r), UNCHANGED drafts
    PROVE  StoreInv' /\ Kept /\ decisions'[d] = r
<1>1. decisions \in Seq(Decision) /\ DOMAIN decisions = Drafts
  BY DEF StoreInv, StoreTyped, Drafts
<1>2. /\ decisions' \in Seq(Decision)
      /\ Len(decisions') = Len(decisions)
      /\ decisions'[d] = r
      /\ \A e \in Drafts \ {d} : decisions'[e] = decisions[e]
  BY <1>1 DEF RecordDecision
<1>3. decisions[d].type = "pending"
  BY DEF RecordDecision
<1>4. Kept
  BY <1>2, <1>3 DEF Kept, Drafts
<1>5. StoreTyped'
  BY <1>2 DEF StoreInv, StoreTyped, Drafts
<1>6. \A e \in Drafts : WellFormed(decisions[e])' /\ OwnDecision(e)'
  <2>1. drafts[d].from # Operator
    BY <1>3 DEF StoreInv, OwnDecision
  <2> QED
    BY <1>2, <2>1 DEF StoreInv, WellFormed, OwnDecision
<1>7. AuthorsWereInvited'
  <2>1. decisions[d].to = {}
    BY <1>3 DEF StoreInv, WellFormed, Approvals
  <2>2. \A e \in Drafts : decisions[e].to \subseteq decisions'[e].to
    BY <1>2, <2>1
  <2>3. \A x \in Drafts : \A e \in 1..(x - 1) : e \in Drafts
    BY <1>1 DEF Drafts, StoreInv, StoreTyped
  <2>4. Drafts' = Drafts /\ AuthorsWereInvited
    BY DEF Drafts, StoreInv
  <2> QED
    BY <2>2, <2>3, <2>4 DEF AuthorsWereInvited
<1>8. CorrelationsAreUnique'
  BY DEF StoreInv, CorrelationsAreUnique, Drafts
<1> QED
  BY <1>2, <1>4, <1>5, <1>6, <1>7, <1>8 DEF StoreInv, Drafts

\* A draft is added with its decision.
LEMMA DraftKeepsStore ==
    ASSUME StoreInv, NEW from \in Participants, NEW t \in {0} \cup Threads,
           NEW to \in Audiences, NEW content \in Contents,
           NEW corr \in Correlations, NEW r \in Decision,
           WellFormed(r),
           from = Operator => /\ r.type = "operator_initiated"
                              /\ r.content = content
                              /\ r.to = to,
           Written(from, corr) = {},
           from \in Agents /\ t # 0 => CanPropose(from, t),
           CreateDraft(from, t, to, content, corr, r)
    PROVE  /\ StoreInv' /\ Kept
           /\ Len(drafts) + 1 \in Drafts'
           /\ decisions'[Len(drafts) + 1] = r
<1> DEFINE n == Len(drafts) + 1
           row == [thread  |-> IF t = 0 THEN n ELSE t,
                   from    |-> from,
                   to      |-> to,
                   content |-> content,
                   corr    |-> corr]
<1>1. /\ drafts \in Seq(Draft) /\ decisions \in Seq(Decision)
      /\ Len(decisions) = Len(drafts)
      /\ n \in Nat \ {0}
      /\ Drafts = 1..(n - 1)
  BY DEF StoreInv, StoreTyped, Drafts
<1>2. t # 0 => t \in 1..(n - 1)
  BY <1>1 DEF Threads
<1>3. row \in Draft /\ row.thread \in 1..n
  BY <1>1, <1>2 DEF Draft
<1>4. drafts' = Append(drafts, row) /\ decisions' = Append(decisions, r)
  BY DEF CreateDraft
<1>5. row.from = from /\ row.corr = corr /\ row.content = content /\ row.to = to
      /\ row.thread = IF t = 0 THEN n ELSE t
  OBVIOUS
<1> HIDE DEF row
<1>6. /\ drafts' \in Seq(Draft)
      /\ Len(drafts') = n
      /\ drafts'[n] = row
      /\ \A d \in 1..(n - 1) : drafts'[d] = drafts[d]
  BY <1>1, <1>3, <1>4
<1>7. /\ decisions' \in Seq(Decision)
      /\ Len(decisions') = n
      /\ decisions'[n] = r
      /\ \A d \in 1..(n - 1) : decisions'[d] = decisions[d]
  BY <1>1, <1>4
<1> HIDE DEF n
<1>8. Drafts' = 1..n
  BY <1>6 DEF Drafts
<1>9. Kept
  <2>1. Drafts \subseteq Drafts'
    BY <1>1, <1>8
  <2>2. \A d \in Drafts : drafts'[d] = drafts[d] /\ decisions'[d] = decisions[d]
    BY <1>1, <1>6, <1>7
  <2> QED
    BY <2>1, <2>2 DEF Kept
<1>10. StoreTyped'
  <2>1. \A d \in 1..(n - 1) : drafts[d].thread \in 1..d
    BY <1>1 DEF StoreInv, StoreTyped
  <2>2. \A d \in 1..n : d \in 1..(n - 1) \/ d = n
    BY <1>1
  <2>3. \A d \in 1..n : drafts'[d].thread \in 1..d
    BY <1>3, <1>6, <2>1, <2>2
  <2> QED
    BY <1>6, <1>7, <1>8, <2>3 DEF StoreTyped
<1>11. \A d \in 1..n : WellFormed(decisions[d])' /\ OwnDecision(d)'
  <2> SUFFICES ASSUME NEW d \in 1..n
               PROVE  WellFormed(decisions[d])' /\ OwnDecision(d)'
    OBVIOUS
  <2>1. CASE d \in 1..(n - 1)
    <3>1. WellFormed(decisions[d]) /\ OwnDecision(d)
      BY <1>1, <2>1 DEF StoreInv
    <3> QED
      BY <1>6, <1>7, <2>1, <3>1 DEF WellFormed, OwnDecision
  <2>2. CASE d = n
    BY <1>5, <1>6, <1>7, <2>2 DEF WellFormed, OwnDecision
  <2> QED
    BY <1>1, <2>1, <2>2
<1>12. AuthorsWereInvited'
  <2> SUFFICES ASSUME NEW d \in 1..n,
                      drafts'[d].from \in Agents,
                      drafts'[drafts'[d].thread].from # drafts'[d].from
               PROVE  \E e \in 1..(d - 1) :
                         /\ drafts'[e].thread = drafts'[d].thread
                         /\ drafts'[d].from \in decisions'[e].to
    BY <1>8 DEF AuthorsWereInvited
  <2>1. ASSUME NEW x \in 1..(n - 1), drafts[x].from \in Agents,
               drafts[drafts[x].thread].from # drafts[x].from
        PROVE  \E e \in 1..(x - 1) : /\ drafts[e].thread = drafts[x].thread
                                      /\ drafts[x].from \in decisions[e].to
    BY <1>1, <2>1 DEF StoreInv, AuthorsWereInvited
  <2>2. CASE d \in 1..(n - 1)
    <3>1. drafts[d].thread \in 1..(n - 1)
      BY <1>1, <2>2 DEF StoreInv, StoreTyped
    <3>2. PICK e \in 1..(d - 1) : /\ drafts[e].thread = drafts[d].thread
                                  /\ drafts[d].from \in decisions[e].to
      BY <1>6, <2>1, <2>2, <3>1
    <3>3. e \in 1..(n - 1)
      BY <1>1, <2>2
    <3> QED
      BY <1>6, <1>7, <2>2, <3>2, <3>3
  <2>3. CASE d = n
    <3>1. t # 0 /\ row.thread = t /\ from \in Agents
      BY <1>5, <1>6, <2>3
    <3>2. t \in 1..(n - 1) /\ drafts[t].from # from
      BY <1>2, <1>5, <1>6, <2>3, <3>1
    <3>3. PICK e \in InThread(t) : drafts[e].from = from \/ from \in decisions[e].to
      BY <3>1 DEF CanPropose
    <3>4. e \in 1..(n - 1) /\ drafts[e].thread = t
      BY <1>1 DEF InThread
    <3>5. \E x \in 1..(n - 1) : drafts[x].thread = t /\ from \in decisions[x].to
      <4>1. CASE from \in decisions[e].to
        BY <3>4, <4>1
      <4>2. CASE drafts[e].from = from
        <5>1. PICK x \in 1..(e - 1) : drafts[x].thread = t /\ from \in decisions[x].to
          BY <2>1, <3>1, <3>2, <3>4, <4>2
        <5>2. x \in 1..(n - 1)
          BY <1>1, <3>4
        <5> QED
          BY <5>1, <5>2
      <4> QED
        BY <3>3, <4>1, <4>2
    <3>6. PICK x \in 1..(n - 1) : drafts[x].thread = t /\ from \in decisions[x].to
      BY <3>5
    <3>7. drafts'[x].thread = row.thread /\ row.from \in decisions'[x].to
      BY <1>5, <1>6, <1>7, <3>1, <3>6
    <3> QED
      BY <1>6, <2>3, <3>7
  <2> QED
    BY <1>1, <2>2, <2>3
<1>13. CorrelationsAreUnique'
  <2>1. \A d \in 1..(n - 1) : ~(drafts[d].from = from /\ drafts[d].corr = corr)
    BY <1>1 DEF Written
  <2>2. \A d, e \in 1..(n - 1) :
           drafts[d].from = drafts[e].from /\ drafts[d].corr = drafts[e].corr
              => d = e
    BY <1>1 DEF StoreInv, CorrelationsAreUnique
  <2>3. \A d \in 1..n : d \in 1..(n - 1) \/ d = n
    BY <1>1
  <2> QED
    BY <1>5, <1>6, <1>8, <2>1, <2>2, <2>3 DEF CorrelationsAreUnique
<1>14. StoreInv'
  BY <1>8, <1>10, <1>11, <1>12, <1>13 DEF StoreInv
<1> QED
  BY <1>1, <1>7, <1>8, <1>9, <1>14 DEF n

(***************************************************************************)
(* The agents' actions.                                                    *)
(***************************************************************************)
LEMMA InitHolds ==
    Init => IInv
<1> SUFFICES ASSUME Init PROVE IInv
  OBVIOUS
<1>1. Drafts = {} /\ Len(drafts) = 0 /\ Len(decisions) = 0
  BY DEF Init, Drafts
<1>2. StoreInv
  BY <1>1 DEF Init, StoreInv, StoreTyped, AuthorsWereInvited,
              CorrelationsAreUnique
<1>3. BooksInv
  BY DEF Init, BooksInv, DisclosedOnlyAsDecided
<1>4. Idle \in Call /\ Idle.status = "idle"
  BY DEF Idle, Call, Statuses, Pending, Decision
<1>5. CallsInv
  BY <1>4 DEF Init, CallsInv, Fit, Truthful
<1> QED
  BY <1>2, <1>3, <1>5 DEF IInv

LEMMA PendingIsADecision ==
    Pending \in Decision /\ WellFormed(Pending) /\ Pending.type = "pending"
BY DEF Pending, Decision, WellFormed, Approvals

LEMMA ProposeKeeps ==
    ASSUME IInv, NEW a \in Agents, NEW t \in {0} \cup Threads,
           NEW to \in Audiences, NEW content \in Contents,
           NEW corr \in Correlations, Propose(a, t, to, content, corr)
    PROVE  IInv' /\ Kept
<1>1. /\ CreateDraft(a, t, to, content, corr, Pending)
      /\ Written(a, corr) = {}
      /\ t # 0 => CanPropose(a, t)
      /\ UNCHANGED <<delivered, acked, known, calls, clock>>
  BY DEF Propose
<1>2. a \in Participants /\ a # Operator
  BY CollaborationAssumption DEF Participants
<1>3. StoreInv' /\ Kept
  BY <1>1, <1>2, PendingIsADecision, DraftKeepsStore DEF IInv
<1> QED
  BY <1>1, <1>3, KeptBooks, CallsUnchanged DEF IInv

\* Whatever is learned is one's own, or released to oneself.
LEMMA Learning ==
    ASSUME StoreInv, BooksInv, UNCHANGED <<drafts, decisions>>,
           NEW a \in Agents, NEW K,
           known' = [known EXCEPT ![a] = @ \cup K],
           \A s \in K : /\ s \in [draft : Nat, content : Contents]
                        /\ s.draft \in Drafts
                        /\ \/ drafts[s.draft].from = a
                           \/ /\ decisions[s.draft].type \in Approvals
                              /\ decisions[s.draft].content = s.content
                              /\ a \in decisions[s.draft].to
    PROVE  /\ known' \in [Agents -> SUBSET [draft : Nat, content : Contents]]
           /\ DisclosedOnlyAsDecided'
<1>1. known \in [Agents -> SUBSET [draft : Nat, content : Contents]]
  BY DEF BooksInv
<1>2. \A b \in Agents : known'[b] = IF b = a THEN known[a] \cup K ELSE known[b]
  BY <1>1
<1>3. Drafts' = Drafts
  BY DEF Drafts
<1>4. DisclosedOnlyAsDecided'
  BY <1>2, <1>3 DEF BooksInv, DisclosedOnlyAsDecided
<1>5. known' \in [Agents -> SUBSET [draft : Nat, content : Contents]]
  BY <1>1
<1> QED
  BY <1>4, <1>5

\* A recipient of a decision may be shown its form.
LEMMA ReleasedToRecipients ==
    ASSUME StoreInv, NEW d \in Drafts, NEW a \in decisions[d].to
    PROVE  decisions[d].type \in Approvals
BY DEF StoreInv, WellFormed

LEMMA ApprovalsHaveForms ==
    ASSUME StoreInv, NEW d \in Drafts, decisions[d].type \in Approvals
    PROVE  d \in Nat /\ decisions[d].content \in Contents
BY DEF StoreInv, StoreTyped, WellFormed, Drafts

LEMMA StoreUnchanged ==
    ASSUME StoreInv, UNCHANGED <<drafts, decisions>>
    PROVE  StoreInv' /\ Kept /\ Receipts' = Receipts /\ Drafts' = Drafts
BY UnchangedKeeps DEF StoreInv, StoreTyped, WellFormed, OwnDecision,
   AuthorsWereInvited, CorrelationsAreUnique, Receipts, Drafts

LEMMA PollKeeps ==
    ASSUME IInv, NEW a \in Agents, Poll(a)
    PROVE  IInv' /\ Kept
<1> DEFINE batch == Oldest(a, PollLimit)
           K == {Shown(d, decisions[d].content) : d \in batch}
<1>1. /\ delivered' = delivered \cup (batch \X {a})
      /\ known' = [known EXCEPT ![a] = @ \cup K]
      /\ UNCHANGED <<drafts, decisions, acked, calls, clock>>
  BY DEF Poll, MarkDelivered
<1>2. StoreInv' /\ Kept /\ Receipts' = Receipts /\ Drafts' = Drafts
  BY <1>1, StoreUnchanged DEF IInv
<1>3. \A d \in batch : d \in Drafts /\ <<d, a>> \in Receipts
  BY DEF Oldest, Unacked
<1>4. delivered' \subseteq Receipts /\ acked' \subseteq delivered'
  BY <1>1, <1>3 DEF IInv, BooksInv
<1>5. \A d \in batch : d \in Drafts /\ a \in decisions[d].to
  BY <1>3 DEF Receipts
<1>6. \A s \in K : /\ s \in [draft : Nat, content : Contents]
                   /\ s.draft \in Drafts
                   /\ decisions[s.draft].type \in Approvals
                   /\ decisions[s.draft].content = s.content
                   /\ a \in decisions[s.draft].to
  <2> SUFFICES ASSUME NEW d \in batch
               PROVE  LET s == Shown(d, decisions[d].content)
                      IN  /\ s \in [draft : Nat, content : Contents]
                          /\ s.draft \in Drafts
                          /\ decisions[s.draft].type \in Approvals
                          /\ decisions[s.draft].content = s.content
                          /\ a \in decisions[s.draft].to
    OBVIOUS
  <2>1. decisions[d].type \in Approvals
    BY <1>5, ReleasedToRecipients DEF IInv
  <2>2. d \in Nat /\ decisions[d].content \in Contents
    BY <1>5, <2>1, ApprovalsHaveForms DEF IInv
  <2> QED
    BY <1>5, <2>1, <2>2 DEF Shown
<1> HIDE DEF K, batch
<1>7. /\ known' \in [Agents -> SUBSET [draft : Nat, content : Contents]]
      /\ DisclosedOnlyAsDecided'
  BY <1>1, <1>6, Learning DEF IInv
<1> QED
  BY <1>1, <1>2, <1>4, <1>7, CallsUnchanged DEF IInv, BooksInv

LEMMA PollUnansweredKeeps ==
    ASSUME IInv, NEW a \in Agents, NEW n \in 1..PollLimit, PollUnanswered(a, n)
    PROVE  IInv' /\ Kept
<1>1. /\ delivered' = delivered \cup (Oldest(a, n) \X {a})
      /\ UNCHANGED <<drafts, decisions, acked, known, clock>>
      /\ UNCHANGED calls \/ DropCalls
  BY DEF PollUnanswered, MarkDelivered
<1>2. StoreInv' /\ Kept /\ Receipts' = Receipts /\ Drafts' = Drafts
  BY <1>1, StoreUnchanged DEF IInv
<1>3. \A d \in Oldest(a, n) : <<d, a>> \in Receipts
  BY DEF Oldest, Unacked
<1>4. BooksInv'
  BY <1>1, <1>2, <1>3 DEF IInv, BooksInv, DisclosedOnlyAsDecided
<1>5. CallsInv'
  BY <1>1, <1>2, CallsUnchanged, DroppedCalls DEF IInv
<1> QED
  BY <1>2, <1>4, <1>5 DEF IInv

LEMMA AckKeeps ==
    ASSUME IInv, NEW a \in Agents, NEW d \in Drafts, Ack(a, d)
    PROVE  IInv' /\ Kept
<1>1. /\ <<d, a>> \in delivered
      /\ acked' = acked \cup {<<d, a>>}
      /\ UNCHANGED <<drafts, decisions, delivered, known, calls, clock>>
  BY DEF Ack, MarkAcked
<1>2. StoreInv' /\ Kept /\ Receipts' = Receipts /\ Drafts' = Drafts
  BY <1>1, StoreUnchanged DEF IInv
<1>3. BooksInv'
  BY <1>1, <1>2 DEF IInv, BooksInv, DisclosedOnlyAsDecided
<1> QED
  BY <1>1, <1>2, <1>3, CallsUnchanged DEF IInv

LEMMA GetThreadKeeps ==
    ASSUME IInv, NEW a \in Agents, NEW t \in Threads, GetThread(a, t)
    PROVE  IInv' /\ Kept
<1> DEFINE K == Visible(a, t)
<1>1. /\ known' = [known EXCEPT ![a] = @ \cup K]
      /\ UNCHANGED <<drafts, decisions, delivered, acked, calls, clock>>
  BY DEF GetThread
<1>2. StoreInv' /\ Kept /\ Receipts' = Receipts /\ Drafts' = Drafts
  BY <1>1, StoreUnchanged DEF IInv
<1>3. ASSUME NEW d \in Drafts, drafts[d].from = a
      PROVE  Shown(d, drafts[d].content) \in [draft : Nat, content : Contents]
  <2>1. drafts[d] \in Draft /\ d \in Nat
    BY DEF IInv, StoreInv, StoreTyped, Drafts
  <2> QED
    BY <2>1 DEF Shown, Draft
<1>4. ASSUME NEW d \in Drafts, decisions[d].type \in Approvals
      PROVE  Shown(d, decisions[d].content) \in [draft : Nat, content : Contents]
  BY <1>4, ApprovalsHaveForms DEF IInv, Shown
<1>5. \A s \in K : /\ s \in [draft : Nat, content : Contents]
                   /\ s.draft \in Drafts
                   /\ \/ drafts[s.draft].from = a
                      \/ /\ decisions[s.draft].type \in Approvals
                         /\ decisions[s.draft].content = s.content
                         /\ a \in decisions[s.draft].to
  <2> SUFFICES ASSUME NEW s \in K
               PROVE  /\ s \in [draft : Nat, content : Contents]
                      /\ s.draft \in Drafts
                      /\ \/ drafts[s.draft].from = a
                         \/ /\ decisions[s.draft].type \in Approvals
                            /\ decisions[s.draft].content = s.content
                            /\ a \in decisions[s.draft].to
    OBVIOUS
  <2>1. CASE \E d \in Drafts : /\ drafts[d].from = a
                               /\ s = Shown(d, drafts[d].content)
    BY <1>3, <2>1 DEF Shown
  <2>2. CASE \E d \in Drafts : /\ drafts[d].from = a \/ a \in decisions[d].to
                               /\ decisions[d].type \in Approvals
                               /\ s = Shown(d, decisions[d].content)
    BY <1>4, <2>2 DEF Shown
  <2> QED
    BY <2>1, <2>2 DEF Visible, InThread
<1> HIDE DEF K
<1>6. /\ known' \in [Agents -> SUBSET [draft : Nat, content : Contents]]
      /\ DisclosedOnlyAsDecided'
  BY <1>1, <1>5, Learning DEF IInv
<1> QED
  BY <1>1, <1>2, <1>6, CallsUnchanged DEF IInv, BooksInv

(***************************************************************************)
(* The operators' actions.                                                 *)
(***************************************************************************)
\* Every kind of decision normalises to one that is fit to be recorded.
LEMMA RulingsAreFit ==
    ASSUME StoreInv, NEW d \in Drafts, NEW ruling \in Rulings(d)
    PROVE  /\ ruling \in Decision
           /\ WellFormed(ruling)
           /\ ruling.type # "pending"
<1>1. drafts[d].content \in Contents /\ drafts[d].to \in Audiences
  <2>1. drafts[d] \in Draft
    BY DEF StoreInv, StoreTyped, Drafts
  <2> QED
    BY <2>1 DEF Draft
<1>2. \A to \in Audiences : to \subseteq Agents
  BY DEF Audiences
<1>3. PICK type \in Approvals \cup {"reject"}, content \in Contents \cup {NoContent},
           to \in SUBSET Agents :
        /\ ruling = [type |-> type, content |-> content, to |-> to, at |-> 0]
        /\ type # "reject" => content \in Contents /\ to \in Audiences
        /\ type = "reject" => to = {}
  BY <1>1, <1>2 DEF Rulings, Approvals
<1> QED
  BY <1>3 DEF Decision, WellFormed, Approvals

\* A request enters a slot.
LEMMA TakeKeeps ==
    ASSUME StoreInv, CallsInv, UNCHANGED <<drafts, decisions>>,
           NEW c \in Calls, NEW call \in Call, Take(c, call),
           Fit(call), Truthful(call)
    PROVE  CallsInv'
<1>1. /\ clock' = clock + 1
      /\ calls' = [calls EXCEPT ![c] = call]
      /\ calls \in [Calls -> Call]
      /\ clock \in Nat
  BY DEF Take, CallsInv
<1>2. /\ calls' \in [Calls -> Call]
      /\ calls'[c] = call
      /\ \A e \in Calls \ {c} : calls'[e] = calls[e]
      /\ clock' \in Nat
  BY <1>1
<1>3. Kept /\ Drafts' = Drafts /\ Threads' = Threads
  BY StoreUnchanged DEF Threads, Drafts
<1>4. Fit(calls[c])' /\ Truthful(calls[c])'
  BY <1>2, <1>3 DEF Fit, Truthful, WellFormed, SameForm
<1> QED
  BY <1>2, <1>3, <1>4, OneCallChanges

\* An answer is a request the caller still has; it claims what it was for
\* only when the store holds it.
LEMMA RepliesAreCalls ==
    ASSUME NEW status \in Statuses \ {"running"}, NEW d \in Nat,
           NEW r \in Decision
    PROVE  /\ Reply(status, d, r) \in Call
           /\ Reply(status, d, r).status = status
           /\ Reply(status, d, r).draft = d
           /\ Reply(status, d, r).decision = r
           /\ Fit(Reply(status, d, r))
BY PendingIsADecision DEF Reply, Idle, Call, Fit

LEMMA BeginDecideKeeps ==
    ASSUME IInv, NEW c \in Calls, NEW d \in Drafts, NEW ruling \in Rulings(d),
           BeginDecide(c, d, ruling)
    PROVE  IInv' /\ Kept
<1>1. UNCHANGED <<drafts, decisions, delivered, acked, known>>
  BY DEF BeginDecide
<1>2. /\ ruling \in Decision
      /\ WellFormed(ruling)
      /\ ruling.type # "pending"
  BY RulingsAreFit DEF IInv
<1>3. d \in Nat \ {0} /\ clock \in Nat
  BY DEF IInv, StoreInv, StoreTyped, Drafts, CallsInv
<1>4. CallsInv'
  <2>1. ASSUME Take(c, [status |-> "running", draft |-> d, thread |-> 0,
                        corr |-> NoContent,
                        decision |-> [ruling EXCEPT !.at = clock + 1]])
        PROVE  CallsInv'
    <3> DEFINE call == [status |-> "running", draft |-> d, thread |-> 0,
                        corr |-> NoContent,
                        decision |-> [ruling EXCEPT !.at = clock + 1]]
    <3>1. call \in Call
      BY <1>2, <1>3 DEF Call, Decision, Statuses
    <3>2. Fit(call) /\ Truthful(call)
      BY <1>2, <1>3 DEF Fit, Truthful, WellFormed, Decision
    <3> HIDE DEF call
    <3>3. Take(c, call)
      BY <2>1 DEF call
    <3> QED
      BY <1>1, <3>1, <3>2, <3>3, TakeKeeps DEF IInv
  <2>2. ASSUME SameForm(decisions[d], ruling), Take(c, Reply("existing", d, ruling))
        PROVE  CallsInv'
    <3>1. /\ Reply("existing", d, ruling) \in Call
          /\ Fit(Reply("existing", d, ruling))
          /\ Truthful(Reply("existing", d, ruling))
      BY <1>2, <1>3, <2>2, RepliesAreCalls DEF Truthful, Statuses
    <3> QED
      BY <1>1, <2>2, <3>1, TakeKeeps DEF IInv
  <2>3. ASSUME Take(c, Reply("conflict", d, Pending))
        PROVE  CallsInv'
    <3>1. /\ Reply("conflict", d, Pending) \in Call
          /\ Fit(Reply("conflict", d, Pending))
          /\ Truthful(Reply("conflict", d, Pending))
      BY <1>3, PendingIsADecision, RepliesAreCalls DEF Truthful, Statuses
    <3> QED
      BY <1>1, <2>3, <3>1, TakeKeeps DEF IInv
  <2> QED
    BY <2>1, <2>2, <2>3 DEF BeginDecide
<1> QED
  BY <1>1, <1>4, StoreUnchanged, KeptBooks DEF IInv

\* A running request is answered.
LEMMA AnswerKeeps ==
    ASSUME StoreInv, CallsInv, Kept, NEW c \in Calls,
           NEW status \in Statuses \ {"running"}, NEW d \in Nat,
           Answer(c, status, d), UNCHANGED clock,
           status \in {"recorded", "existing"} =>
               /\ d \in Drafts'
               /\ calls[c].decision.type # "pending"
               /\ decisions'[d] = calls[c].decision
    PROVE  CallsInv'
<1>1. calls \in [Calls -> Call] /\ calls[c].decision \in Decision
  BY DEF CallsInv, Call
<1>2. calls' = [calls EXCEPT ![c] = Reply(status, d, calls[c].decision)]
  BY <1>1 DEF Answer
<1> DEFINE r == Reply(status, d, calls[c].decision)
<1>3. /\ r \in Call /\ r.status = status
      /\ r.draft = d /\ r.decision = calls[c].decision
  BY <1>1, RepliesAreCalls
<1> HIDE DEF r
<1>4. /\ calls' \in [Calls -> Call]
      /\ calls'[c] = r
      /\ \A e \in Calls \ {c} : calls'[e] = calls[e]
      /\ clock' \in Nat
  BY <1>1, <1>2, <1>3 DEF r, CallsInv
<1>5. Fit(calls[c])' /\ Truthful(calls[c])'
  BY <1>3, <1>4 DEF Fit, Truthful, SameForm
<1> QED
  BY <1>4, <1>5, OneCallChanges

LEMMA CommitDecideKeeps ==
    ASSUME IInv, NEW c \in Calls, CommitDecide(c)
    PROVE  IInv' /\ Kept
<1> DEFINE d == calls[c].draft
           r == calls[c].decision
<1>1. /\ d \in Drafts /\ d \in Nat
      /\ r \in Decision
      /\ WellFormed(r) /\ r.type # "pending"
      /\ UNCHANGED <<drafts, delivered, acked, known, clock>>
  <2>1. calls[c] \in Call /\ Fit(calls[c])
    BY DEF IInv, CallsInv
  <2> QED
    BY <2>1 DEF CommitDecide, Fit, Call
<1>2. CASE RecordDecision(d, r) /\ Answer(c, "recorded", d)
  <2>1. StoreInv' /\ Kept /\ decisions'[d] = r /\ Drafts' = Drafts
    BY <1>1, <1>2, DecisionKeepsStore DEF IInv, Drafts
  <2>2. CallsInv'
    BY <1>1, <1>2, <2>1, AnswerKeeps DEF IInv, Statuses
  <2> QED
    BY <1>1, <2>1, <2>2, KeptBooks DEF IInv
<1>3. CASE Answer(c, "failed", d) /\ UNCHANGED decisions
  <2>1. StoreInv' /\ Kept
    BY <1>1, <1>3, StoreUnchanged DEF IInv
  <2>2. CallsInv'
    BY <1>1, <1>3, <2>1, AnswerKeeps DEF IInv, Statuses
  <2> QED
    BY <1>1, <2>1, <2>2, KeptBooks DEF IInv
<1> QED
  BY <1>2, <1>3 DEF CommitDecide

LEMMA BeginMessageKeeps ==
    ASSUME IInv, NEW c \in Calls, NEW t \in {0} \cup Threads,
           NEW to \in Audiences, NEW content \in Contents,
           NEW corr \in Correlations, BeginMessage(c, t, to, content, corr)
    PROVE  IInv' /\ Kept
<1> DEFINE r == [type |-> "operator_initiated", content |-> content,
                 to |-> to, at |-> clock + 1]
<1>1. UNCHANGED <<drafts, decisions, delivered, acked, known>>
  BY DEF BeginMessage
<1>2. clock \in Nat /\ t \in Nat
  BY DEF IInv, StoreInv, StoreTyped, Drafts, CallsInv, Threads
<1>3. /\ r \in Decision /\ WellFormed(r)
      /\ r.type = "operator_initiated"
      /\ r.content = content /\ r.to = to
  BY <1>2 DEF Decision, WellFormed, Approvals, Audiences
<1>4. \A d \in Drafts : decisions[d] \in Decision /\ d \in Nat
  BY DEF IInv, StoreInv, StoreTyped, Drafts
<1>5. CASE Take(c, [status |-> "running", draft |-> 0, thread |-> t,
                    corr |-> corr, decision |-> r])
  <2> DEFINE call == [status |-> "running", draft |-> 0, thread |-> t,
                      corr |-> corr, decision |-> r]
  <2>1. call \in Call
    BY <1>2, <1>3 DEF Call, Statuses
  <2>2. Fit(call) /\ Truthful(call)
    BY <1>3 DEF Fit, Truthful
  <2> HIDE DEF call
  <2>3. Take(c, call)
    BY <1>5 DEF call
  <2> QED
    BY <1>1, <2>1, <2>2, <2>3, TakeKeeps, StoreUnchanged, KeptBooks DEF IInv
<1>6. ASSUME NEW d \in Written(Operator, corr), Matches(d, t, to, content),
             Take(c, Reply("existing", d, r))
      PROVE  CallsInv'
  <2>1. d \in Drafts /\ drafts[d].from = Operator
    BY DEF Written
  <2>2. SameForm(decisions[d], r)
    BY <1>3, <1>6, <2>1 DEF IInv, StoreInv, OwnDecision, Matches, SameForm
  <2>3. /\ Reply("existing", d, r) \in Call
        /\ Fit(Reply("existing", d, r))
        /\ Truthful(Reply("existing", d, r))
    BY <1>3, <1>4, <2>1, <2>2, RepliesAreCalls DEF Truthful, Statuses
  <2> QED
    BY <1>1, <1>6, <2>3, TakeKeeps DEF IInv
<1>7. ASSUME NEW d \in Written(Operator, corr),
             Take(c, Reply("conflict", d, Pending))
      PROVE  CallsInv'
  <2>1. d \in Nat
    BY <1>4 DEF Written
  <2>2. /\ Reply("conflict", d, Pending) \in Call
        /\ Fit(Reply("conflict", d, Pending))
        /\ Truthful(Reply("conflict", d, Pending))
    BY <2>1, PendingIsADecision, RepliesAreCalls DEF Truthful, Statuses
  <2> QED
    BY <1>1, <1>7, <2>2, TakeKeeps DEF IInv
<1> HIDE DEF r
<1>8. \/ Take(c, [status |-> "running", draft |-> 0, thread |-> t,
                  corr |-> corr, decision |-> r])
      \/ CallsInv'
  BY <1>6, <1>7 DEF BeginMessage, r
<1> QED
  BY <1>1, <1>5, <1>8, StoreUnchanged, KeptBooks DEF IInv

LEMMA CommitMessageKeeps ==
    ASSUME IInv, NEW c \in Calls, CommitMessage(c)
    PROVE  IInv' /\ Kept
<1> DEFINE r == calls[c].decision
           t == calls[c].thread
           n == Len(drafts) + 1
<1>1. /\ r \in Decision
      /\ WellFormed(r) /\ r.type = "operator_initiated"
      /\ r.content \in Contents /\ r.to \in Audiences
      /\ t \in {0} \cup Threads /\ calls[c].corr \in Correlations
      /\ UNCHANGED <<delivered, acked, known, clock>>
  <2>1. calls[c] \in Call /\ Fit(calls[c])
    BY DEF IInv, CallsInv
  <2> QED
    BY <2>1 DEF CommitMessage, Fit, Call, WellFormed, Approvals
<1>2. CASE RecordMessage(calls[c]) /\ Answer(c, "recorded", n)
  <2>1. Operator \in Participants /\ Operator \notin Agents
    BY CollaborationAssumption DEF Participants
  <2>2. /\ Written(Operator, calls[c].corr) = {}
        /\ CreateDraft(Operator, t, r.to, r.content, calls[c].corr, r)
    BY <1>2 DEF RecordMessage
  <2>3. StoreInv' /\ Kept /\ n \in Drafts' /\ decisions'[n] = r
    <3>1. StoreInv /\ (r.content = r.content /\ r.to = r.to)
      BY DEF IInv
    <3> HIDE DEF r, t
    <3> QED
      BY <1>1, <2>1, <2>2, <3>1, DraftKeepsStore
  <2>4. n \in Nat
    BY DEF IInv, StoreInv, StoreTyped
  <2>5. CallsInv'
    BY <1>1, <1>2, <2>3, <2>4, AnswerKeeps DEF IInv, Statuses
  <2> QED
    BY <1>1, <2>3, <2>5, KeptBooks DEF IInv
<1>3. CASE Answer(c, "failed", 0) /\ UNCHANGED <<drafts, decisions>>
  <2>1. StoreInv' /\ Kept
    BY <1>3, StoreUnchanged DEF IInv
  <2>2. CallsInv'
    BY <1>1, <1>3, <2>1, AnswerKeeps DEF IInv, Statuses
  <2> QED
    BY <1>1, <2>1, <2>2, KeptBooks DEF IInv
<1> QED
  BY <1>2, <1>3 DEF CommitMessage

LEMMA CrashKeeps ==
    ASSUME IInv, Crash
    PROVE  IInv' /\ Kept
<1>1. DropCalls /\ UNCHANGED <<drafts, decisions, delivered, acked, known, clock>>
  BY DEF Crash
<1>2. StoreInv' /\ Kept
  BY <1>1, StoreUnchanged DEF IInv
<1> QED
  BY <1>1, <1>2, KeptBooks, DroppedCalls DEF IInv

LEMMA StutterKeeps ==
    ASSUME IInv, UNCHANGED vars
    PROVE  IInv' /\ Kept
<1>1. StoreInv' /\ Kept
  BY StoreUnchanged DEF IInv, vars
<1> QED
  BY <1>1, KeptBooks, CallsUnchanged DEF IInv, vars

(***************************************************************************)
(* The theorems.                                                           *)
(***************************************************************************)
LEMMA NextKeeps ==
    ASSUME IInv, [Next]_vars
    PROVE  IInv' /\ Kept
<1>1. ASSUME NEW a \in Agents, AgentStep(a)
      PROVE  IInv' /\ Kept
  BY <1>1, ProposeKeeps, PollKeeps, PollUnansweredKeeps, AckKeeps, GetThreadKeeps,
     CollaborationAssumption DEF AgentStep
<1>2. ASSUME NEW c \in Calls, OperatorStep(c)
      PROVE  IInv' /\ Kept
  BY <1>2, CollaborationAssumption, BeginDecideKeeps, CommitDecideKeeps, BeginMessageKeeps,
     CommitMessageKeeps DEF OperatorStep
<1>3. CASE Crash
  BY <1>3, CrashKeeps
<1>4. CASE UNCHANGED vars
  BY <1>4, StutterKeeps
<1> QED
  BY <1>1, <1>2, <1>3, <1>4 DEF Next

LEMMA InvariantHolds ==
    Spec => []IInv
<1>1. IInv /\ [Next]_vars => IInv'
  BY NextKeeps
<1> QED
  BY <1>1, InitHolds, PTL DEF Spec

(* Every table and every request keeps its shape: a receipt is acked only  *)
(* after it was delivered, and only recipients have receipts.              *)
THEOREM TypeCorrect ==
    Spec => []TypeOK
<1>1. IInv => TypeOK
  BY DEF IInv, StoreInv, StoreTyped, BooksInv, CallsInv, TypeOK
<1> QED
  BY <1>1, InvariantHolds, PTL

(* Recipient visibility is approval-gated (poll, get_thread): an agent is  *)
(* shown its own writing and what was released to it, nothing else, for    *)
(* any number of agents and of operator requests racing each other.        *)
THEOREM DisclosureIsDecided ==
    Spec => []DisclosedOnlyAsDecided
<1>1. IInv => DisclosedOnlyAsDecided
  BY DEF IInv, BooksInv
<1> QED
  BY <1>1, InvariantHolds, PTL

(* _require_thread_access: nobody writes in a thread it was not brought    *)
(* into by an earlier approval.                                            *)
THEOREM AuthorsAreInvited ==
    Spec => []AuthorsWereInvited
<1>1. IInv => AuthorsWereInvited
  BY DEF IInv, StoreInv
<1> QED
  BY <1>1, InvariantHolds, PTL

(* UNIQUE(from_participant, correlation_id) makes a retry, and a race of   *)
(* retries, write one draft.                                               *)
THEOREM CorrelationsStayUnique ==
    Spec => []CorrelationsAreUnique
<1>1. IInv => CorrelationsAreUnique
  BY DEF IInv, StoreInv
<1> QED
  BY <1>1, InvariantHolds, PTL

(* An operator who is told "recorded" or "existing" finds that decision in *)
(* the store, whatever the other operators' requests do meanwhile.         *)
THEOREM OperatorsAreToldTheTruth ==
    Spec => []RepliesAreTruthful
<1>1. IInv => RepliesAreTruthful
  BY DEF IInv, CallsInv, Truthful, RepliesAreTruthful
<1> QED
  BY <1>1, InvariantHolds, PTL

(* No step of the broker changes a draft, or a decision once it is made.   *)
THEOREM RulingsStand ==
    Spec => RulingsAreFinal
<1>1. IInv /\ [Next]_vars =>
        [/\ \A d \in Drafts : d \in Drafts' /\ drafts'[d] = drafts[d]
         /\ \A d \in Drafts : decisions[d].type # "pending"
                                 => decisions'[d] = decisions[d]]_vars
  BY NextKeeps DEF Kept
<1> QED
  BY <1>1, InvariantHolds, PTL DEF Spec, RulingsAreFinal

(***************************************************************************)
(* The refinement: every step is one of Gate, or none.                     *)
(***************************************************************************)
TheRulings == [d \in Drafts |-> Ruling(decisions[d])]

LEMMA RulingOf ==
    ASSUME NEW r \in Decision, WellFormed(r)
    PROVE  /\ r.type = "pending" => Ruling(r) = TheGate!Unruled
           /\ r.type = "reject" => Ruling(r) = TheGate!Held
           /\ r.type \in Approvals => /\ Ruling(r) \in TheGate!Released
                                      /\ Ruling(r).audience = r.to
<1>1. r.to \in SUBSET Agents
  BY DEF Decision
<1>2. CASE r.type = "pending"
  BY <1>2 DEF Ruling, TheGate!Unruled, Approvals
<1>3. CASE r.type = "reject"
  BY <1>3 DEF Ruling, TheGate!Held, Approvals
<1>4. CASE r.type \in Approvals
  <2>1. Ruling(r) = [verdict |-> "released", form |-> r.content, audience |-> r.to]
    BY <1>4 DEF Ruling, Approvals
  <2>2. r.content \in Contents
    BY <1>4 DEF WellFormed
  <2> QED
    BY <1>1, <1>4, <2>1, <2>2 DEF TheGate!Released, Approvals
<1> QED
  BY <1>2, <1>3, <1>4 DEF Decision

\* A recipient of a decision is addressed by its ruling.
LEMMA RecipientsAreAddressed ==
    ASSUME StoreInv, NEW d \in Drafts, NEW a \in Agents, <<d, a>> \in Receipts
    PROVE  d \in TheGate!Addressed(a)
<1>1. a \in decisions[d].to
  BY DEF Receipts
<1>2. decisions[d].type \in Approvals
  BY <1>1, ReleasedToRecipients
<1>3. decisions[d] \in Decision /\ WellFormed(decisions[d])
  BY DEF StoreInv, StoreTyped, Drafts
<1> QED
  BY <1>1, <1>2, <1>3, RulingOf DEF TheGate!Addressed

\* A row added to the store appends its ruling.
LEMMA AppendRules ==
    ASSUME StoreInv, NEW from, NEW t, NEW to, NEW content, NEW corr,
           NEW r \in Decision, CreateDraft(from, t, to, content, corr, r)
    PROVE  TheRulings' = Append(TheRulings, Ruling(r))
<1> DEFINE n == Len(drafts)
           R == {Ruling(x) : x \in Decision}
<1>1. /\ Len(decisions) = n /\ n \in Nat
      /\ decisions \in Seq(Decision)
      /\ Drafts = 1..n
  BY DEF StoreInv, StoreTyped, Drafts
<1>2. Drafts' = 1..(n + 1)
  BY DEF StoreInv, StoreTyped, CreateDraft, Drafts
<1>3. /\ decisions'[n + 1] = r
      /\ \A d \in 1..n : decisions'[d] = decisions[d]
  BY <1>1 DEF CreateDraft
<1>4. TheRulings \in Seq(R) /\ Len(TheRulings) = n
  BY <1>1 DEF TheRulings
<1>5. Ruling(r) \in R
  OBVIOUS
<1> HIDE DEF n, R
<1>6. /\ Append(TheRulings, Ruling(r)) \in Seq(R)
      /\ Len(Append(TheRulings, Ruling(r))) = n + 1
      /\ Append(TheRulings, Ruling(r))[n + 1] = Ruling(r)
      /\ \A d \in 1..n : Append(TheRulings, Ruling(r))[d] = TheRulings[d]
  BY <1>4, <1>5
<1>7. \A d \in 1..(n + 1) :
         Append(TheRulings, Ruling(r))[d] = Ruling(decisions'[d])
  BY <1>1, <1>3, <1>6 DEF TheRulings
<1>8. TheRulings' = [d \in 1..(n + 1) |-> Ruling(decisions'[d])]
  BY <1>2 DEF TheRulings
<1>9. /\ TheRulings' \in Seq(R)
      /\ Len(TheRulings') = n + 1
  <2>1. \A d \in 1..(n + 1) : Ruling(decisions'[d]) \in R
    BY <1>1, <1>3, <1>5 DEF R
  <2>2. n + 1 \in Nat
    BY <1>1
  <2> QED
    BY <1>8, <2>1, <2>2
<1>10. \A d \in 1..(n + 1) :
          TheRulings'[d] = Append(TheRulings, Ruling(r))[d]
  BY <1>7, <1>8
<1> QED
  BY <1>6, <1>9, <1>10, SeqEqual

LEMMA StoreStutters ==
    ASSUME UNCHANGED <<drafts, decisions>>
    PROVE  UNCHANGED TheRulings
BY DEF TheRulings, Drafts

LEMMA ProposeSubmits ==
    ASSUME IInv, NEW a \in Agents, NEW t, NEW to, NEW content, NEW corr,
           Propose(a, t, to, content, corr)
    PROVE  TheGate!Submit
<1>1. /\ CreateDraft(a, t, to, content, corr, Pending)
      /\ UNCHANGED <<delivered, acked>>
  BY DEF Propose
<1>2. Ruling(Pending) = TheGate!Unruled
  BY PendingIsADecision, RulingOf
<1>3. TheRulings' = Append(TheRulings, TheGate!Unruled)
  BY <1>1, <1>2, PendingIsADecision, AppendRules DEF IInv
<1> QED
  BY <1>1, <1>3 DEF TheGate!Submit, TheRulings

\* Any batch of deliverables that is marked is a hand-over.
LEMMA MarkingHandsOver ==
    ASSUME IInv, NEW a \in Agents, NEW n, MarkDelivered(a, Oldest(a, n)),
           UNCHANGED <<drafts, decisions, acked>>
    PROVE  TheGate!HandOver(a)
<1>1. Oldest(a, n) \in SUBSET TheGate!Addressed(a)
  BY RecipientsAreAddressed DEF IInv, Oldest, Unacked
<1>2. delivered' = delivered \cup (Oldest(a, n) \X {a})
  BY DEF MarkDelivered
<1>3. UNCHANGED TheRulings
  BY StoreStutters
<1> QED
  BY <1>1, <1>2, <1>3 DEF TheGate!HandOver, TheRulings

LEMMA AckSettles ==
    ASSUME NEW a \in Agents, NEW d \in Drafts, Ack(a, d)
    PROVE  TheGate!Settle(d, a)
<1>1. UNCHANGED TheRulings
  BY StoreStutters DEF Ack
<1> QED
  BY <1>1 DEF Ack, MarkAcked, TheGate!Settle, TheRulings

LEMMA CommitDecideRules ==
    ASSUME IInv, NEW c \in Calls, CommitDecide(c)
    PROVE  \/ \E d \in Drafts : TheGate!Rule(d)
           \/ UNCHANGED <<TheRulings, delivered, acked>>
<1> DEFINE d == calls[c].draft
           r == calls[c].decision
<1>1. /\ d \in Drafts
      /\ r \in Decision
      /\ WellFormed(r) /\ r.type # "pending"
      /\ UNCHANGED <<drafts, delivered, acked>>
  <2>1. calls[c] \in Call /\ Fit(calls[c])
    BY DEF IInv, CallsInv
  <2> QED
    BY <2>1 DEF CommitDecide, Fit, Call
<1>2. CASE RecordDecision(d, r)
  <2>1. decisions[d].type = "pending" /\ decisions' = [decisions EXCEPT ![d] = r]
    BY <1>2 DEF RecordDecision
  <2>2. /\ decisions[d] \in Decision /\ WellFormed(decisions[d])
        /\ DOMAIN decisions = Drafts
    BY <1>1 DEF IInv, StoreInv, StoreTyped, Drafts
  <2>3. Ruling(decisions[d]) = TheGate!Unruled
    BY <2>1, <2>2, RulingOf
  <2>4. Ruling(r) \in {TheGate!Held} \cup TheGate!Released
    BY <1>1, RulingOf DEF Decision
  <2> HIDE DEF d, r
  <2>5. Drafts' = Drafts
    BY <1>1 DEF Drafts
  <2>6. TheRulings' = [TheRulings EXCEPT ![d] = Ruling(r)]
    <3>1. \A e \in Drafts : Ruling(decisions'[e])
             = IF e = d THEN Ruling(r) ELSE Ruling(decisions[e])
      BY <1>1, <2>1, <2>2
    <3> QED
      BY <1>1, <2>5, <3>1 DEF TheRulings
  <2> QED
    BY <1>1, <2>3, <2>4, <2>6 DEF TheGate!Rule, TheRulings
<1>3. CASE UNCHANGED decisions
  BY <1>1, <1>3, StoreStutters
<1> QED
  BY <1>2, <1>3 DEF CommitDecide

LEMMA CommitMessagePublishes ==
    ASSUME IInv, NEW c \in Calls, CommitMessage(c)
    PROVE  TheGate!Publish \/ UNCHANGED <<TheRulings, delivered, acked>>
<1> DEFINE r == calls[c].decision
<1>1. /\ r \in Decision
      /\ WellFormed(r) /\ r.type \in Approvals
      /\ UNCHANGED <<delivered, acked>>
  <2>1. calls[c] \in Call /\ Fit(calls[c])
    BY DEF IInv, CallsInv
  <2> QED
    BY <2>1 DEF CommitMessage, Fit, Call, Approvals
<1>2. CASE RecordMessage(calls[c])
  <2>1. Ruling(r) \in TheGate!Released
    BY <1>1, RulingOf
  <2>2. TheRulings' = Append(TheRulings, Ruling(r))
    BY <1>1, <1>2, AppendRules DEF RecordMessage, IInv
  <2> QED
    BY <1>1, <2>1, <2>2 DEF TheGate!Publish, TheRulings
<1>3. CASE UNCHANGED <<drafts, decisions>>
  BY <1>1, <1>3, StoreStutters
<1> QED
  BY <1>2, <1>3 DEF CommitMessage

LEMMA StepsOfTheGate ==
    ASSUME IInv, [Next]_vars
    PROVE  TheGate!Next \/ UNCHANGED <<TheRulings, delivered, acked>>
<1>1. ASSUME NEW a \in Agents, AgentStep(a)
      PROVE  TheGate!Next \/ UNCHANGED <<TheRulings, delivered, acked>>
  <2>1. CASE \E t \in {0} \cup Threads, to \in Audiences, content \in Submitted,
                corr \in Correlations : Propose(a, t, to, content, corr)
    BY <2>1, ProposeSubmits DEF TheGate!Next
  <2>2. CASE \/ Poll(a)
             \/ \E n \in 1..PollLimit : PollUnanswered(a, n)
    <3>1. TheGate!HandOver(a)
      BY <2>2, MarkingHandsOver DEF Poll, PollUnanswered
    <3> QED
      BY <3>1 DEF TheGate!Next
  <2>3. ASSUME NEW d \in Drafts, Ack(a, d)
        PROVE  TheGate!Next
    BY <2>3, AckSettles DEF TheGate!Next, TheRulings
  <2>4. CASE \E t \in Threads : GetThread(a, t)
    BY <2>4, StoreStutters DEF GetThread
  <2> QED
    BY <1>1, <2>1, <2>2, <2>3, <2>4 DEF AgentStep
<1>2. ASSUME NEW c \in Calls, OperatorStep(c)
      PROVE  TheGate!Next \/ UNCHANGED <<TheRulings, delivered, acked>>
  <2>1. CASE CommitDecide(c)
    BY <2>1, CommitDecideRules DEF TheGate!Next, TheRulings
  <2>2. CASE CommitMessage(c)
    BY <2>2, CommitMessagePublishes DEF TheGate!Next
  <2>3. CASE \/ \E d \in Drafts : \E ruling \in Rulings(d) :
                   BeginDecide(c, d, ruling)
             \/ \E t \in {0} \cup Threads, to \in Audiences, content \in Submitted,
                   corr \in Correlations : BeginMessage(c, t, to, content, corr)
    <3>1. UNCHANGED <<drafts, decisions, delivered, acked>>
      BY <2>3 DEF BeginDecide, BeginMessage
    <3> QED
      BY <3>1, StoreStutters
  <2> QED
    BY <1>2, <2>1, <2>2, <2>3 DEF OperatorStep
<1>3. CASE Crash \/ UNCHANGED vars
  BY <1>3, StoreStutters DEF Crash, vars
<1> QED
  BY <1>1, <1>2, <1>3 DEF Next

(* Operator-mediated collaboration keeps the promise of Gate: a message is *)
(* ruled on once, and only what a ruling releases is handed to the people  *)
(* it is released to, and settled by them.                                 *)
THEOREM GateIsImplemented ==
    Spec => ImplementsGate
<1>1. Init => TheGate!Init
  <2> SUFFICES ASSUME Init PROVE TheGate!Init
    OBVIOUS
  <2>1. drafts = <<>> /\ delivered = {} /\ acked = {}
    BY DEF Init
  <2>2. [d \in Drafts |-> Ruling(decisions[d])] = <<>>
    BY <2>1 DEF Drafts
  <2> QED
    BY <2>1, <2>2 DEF TheGate!Init
<1>2. IInv /\ [Next]_vars => [TheGate!Next]_(TheGate!gateVars)
  BY StepsOfTheGate DEF TheRulings, TheGate!gateVars
<1> QED
  BY <1>1, <1>2, InvariantHolds, PTL DEF Spec, ImplementsGate, TheGate!Spec
=============================================================================
