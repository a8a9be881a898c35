----------------------- MODULE BrokerStepsCalmProofs ------------------------
(***************************************************************************)
(* That the Delphi workflow is sound however its statements interleave and *)
(* wherever a crash cuts its handlers off, as long as none overtakes       *)
(* another and the operator requests nothing but nudges: for every         *)
(* registry, every set of threads, any number of nudges and crashes.       *)
(***************************************************************************)
EXTENDS BrokerStepsProofs

-----------------------------------------------------------------------------
(***************************************************************************)
(* The tables.  rs and t are the rounds and the iterations, ok the review  *)
(* rounds that everybody expected approved.                                *)
(***************************************************************************)
IsPair(rs, r) == rs[r].type = "same_host_pair"
IsArbitration(rs, r) == rs[r].type = "cross_host_arbitration"
IsReview(rs, r) == rs[r].type = "multi_agent_review"
IsExecution(rs, r) == rs[r].type = "execute"

\* The round has an outcome the next stage builds on.  An execution is the last stage.
Closed(rs, r) ==
    \/ IsPair(rs, r) /\ rs[r].status = "converged"
    \/ (IsArbitration(rs, r) \/ IsReview(rs, r)) /\ rs[r].status = "complete"
AllClosed(rs) == \A q \in DOMAIN rs : Closed(rs, q)
PairOrClosed(rs) == \A q \in DOMAIN rs : IsPair(rs, q) \/ Closed(rs, q)

Approved ==
    {r \in RoundsOfType(rounds, "multi_agent_review") :
        /\ ExpectedReviewers \subseteq ReviewersOf(reviews, r)
        /\ RejectersOf(reviews, r) = {}}

\* A stage opens when the one before it is closed.
InOrder(rs) ==
    \A q, r \in DOMAIN rs : q < r => Closed(rs, q) \/ (IsPair(rs, q) /\ IsPair(rs, r))

\* An answer is there when the request is complete, and a round is closed on
\* its last answer; a review is closed on the reviews.
AnswersTell(rs, t) ==
    \A i \in DOMAIN t :
        /\ t[i].output # None <=> t[i].status = "complete"
        /\ Closed(rs, t[i].round) /\ ~IsReview(rs, t[i].round) => t[i].status = "complete"

OneArbiter(rs, t) ==
    \A i, j \in DOMAIN t : t[i].round = t[j].round /\ IsArbitration(rs, t[i].round) => i = j

LastIsOpen(rs, t) ==
    \A i, j \in DOMAIN t :
        i # j /\ t[i].round = t[j].round /\ IsPair(rs, t[i].round) /\ t[i].status # "complete"
        => t[j].status = "complete" /\ t[j].num < t[i].num

\* x hands on what y answered.
HandsOn(x, y) == x.src = y.dst /\ x.dst # y.dst /\ x.input = Draft(y.output)

Relayed(rs, t) ==
    \A i, j \in DOMAIN t :
        t[i].round = t[j].round /\ IsPair(rs, t[i].round) /\ t[j].num = t[i].num + 1
        => /\ t[i].status = "complete" /\ HandsOn(t[j], t[i])
           /\ t[j].num <= MAX_ITERS_PER_ROUND_1

\* Reviewers and executor have the synthesis before them, until another is asked for.
Shown(rs, t) ==
    \A i \in DOMAIN t :
        /\ IsReview(rs, t[i].round) \/ IsExecution(rs, t[i].round)
        /\ \A q \in DOMAIN rs : IsArbitration(rs, q) => q < t[i].round
        => t[i].input = Draft(Round2Outcome(rs))

ExecutesApproved(rs, ok) == \A e \in DOMAIN rs : IsExecution(rs, e) => e - 1 \in ok

CalmTables(rs, t, ok) ==
    /\ InOrder(rs)
    /\ AnswersTell(rs, t)
    /\ OneArbiter(rs, t)
    /\ LastIsOpen(rs, t)
    /\ Relayed(rs, t)
    /\ Shown(rs, t)
    /\ ExecutesApproved(rs, ok)

-----------------------------------------------------------------------------
(***************************************************************************)
(* The threads.  What a thread has left to do is one of a few forms.       *)
(***************************************************************************)
\* Sweeps, nudges and the reports of the executor.
Harmless(s, rs, t) ==
    \/ s.op \in {"check", "release", "finalize"}
    \/ s.op = "set_session" /\ s.status # "none"
    \/ s.op = "set_round" /\ s.round \in DOMAIN rs /\ IsExecution(rs, s.round)
    \/ s.op = "record" /\ s.request \in DOMAIN t /\ IsExecution(rs, t[s.request].round)
ChoresOnly(p, rs, t) == \A k \in 1..Len(p) : Harmless(p[k], rs, t)
Releases(p) == \A k \in 1..Len(p) : p[k].op = "release"

AllAnswered(t, r) ==
    /\ IterationsOf(t, r) # {}
    /\ \A j \in IterationsOf(t, r) : t[j].status = "complete"

\* The request that s is about to number, or to insert, hands on the last answer.
NumbersOn(s, t, r) ==
    \A j \in IterationsOf(t, r) :
        (\A i \in IterationsOf(t, r) : t[i].num <= t[j].num)
        => HandsOn(s, t[j]) /\ t[j].num < MAX_ITERS_PER_ROUND_1
InsertsOn(s, t, r) ==
    \A j \in IterationsOf(t, r) :
        /\ t[j].num < s.num
        /\ t[j].num + 1 = s.num => HandsOn(s, t[j]) /\ s.num <= MAX_ITERS_PER_ROUND_1

Assessments == {"converged", "more_work_needed"}

\* The answer of a worker and what _advance_round_1 makes of it.
RelaysIn(p, r, t) ==
    \/ \E i \in IterationsOf(t, r), o \in Texts, a \in Assessments :
           p = <<RecordStmt(i, o, a), ReadStmt("advance", r)>>
    \/ /\ AllAnswered(t, r)
       /\ \/ p = <<ReadStmt("advance", r)>>
          \/ p = <<SetRoundStmt(r, "escalated", None), SetSessionStmt("escalated")>>
          \/ \E o \in Texts :
                 p = <<SetRoundStmt(r, "converged", o), ReadStmt("maybe_advance", None)>>
          \/ Len(p) = 1 /\ p[1].op = "number" /\ p[1].round = r /\ NumbersOn(p[1], t, r)
          \/ Len(p) = 1 /\ p[1].op = "insert" /\ p[1].round = r /\ InsertsOn(p[1], t, r)
Relays(p, rs, t) ==
    \E r \in DOMAIN rs : IsPair(rs, r) /\ ~Closed(rs, r) /\ RelaysIn(p, r, t)

Judges(p, rs) ==
    \/ PairOrClosed(rs) /\ p = <<ReadStmt("maybe_advance", None)>>
    \/ AllClosed(rs) /\ p = <<ReadStmt("reconcile", None)>>

\* The synthesis and what on_iteration_completed makes of it.
ArbitratesIn(p, r, t) ==
    \E o \in Texts :
        \/ \E i \in IterationsOf(t, r), a \in Assessments :
               p = <<RecordStmt(i, o, a), SetRoundStmt(r, "complete", o),
                     ReadStmt("ask_reviewers", o)>>
        \/ /\ AllAnswered(t, r)
           /\ p = <<SetRoundStmt(r, "complete", o), ReadStmt("ask_reviewers", o)>>
Arbitrates(p, rs, t) ==
    \/ \E r \in DOMAIN rs : IsArbitration(rs, r) /\ ~Closed(rs, r) /\ ArbitratesIn(p, r, t)
    \/ AllClosed(rs) /\ p = <<ReadStmt("ask_reviewers", Round2Outcome(rs))>>

\* A review and what on_review_emitted makes of it.
ReviewsIn(p, r, ok) ==
    \/ p = <<ReadStmt("tally", r)>>
    \/ r \in ok /\ p = <<SetRoundStmt(r, "complete", None), ReadStmt("execute", None)>>
    \/ \E R \in SUBSET Agents :
           p = <<SetRoundStmt(r, "complete", None), ReadStmt("weigh", R)>>
Reviews(p, rs, ok) ==
    \/ \E r \in DOMAIN rs : IsReview(rs, r) /\ ~Closed(rs, r) /\ ReviewsIn(p, r, ok)
    \/ /\ AllClosed(rs)
       /\ \/ Len(rs) \in ok /\ p = <<ReadStmt("execute", None)>>
          \/ \E op \in {"weigh", "mediate"}, R \in SUBSET Agents : p = <<ReadStmt(op, R)>>

\* What opens rounds of a type, puts requests in them and announces them.
AnswersOnce == {"same_host_pair", "cross_host_arbitration"}
StageStmt(p, k, type, rs) ==
    LET s == p[k]
    IN  \/ s.op = "open_round" /\ s.type = type /\ (type # "same_host_pair" => k = 1)
        \/ s.op = "set_round" /\ s.round = New /\ s.status = "in_progress" /\ s.outcome = None
        \/ /\ s.op \in {"number", "insert"} /\ s.round = New
           /\ IF type \in AnswersOnce THEN k > 1 => p[k - 1].op = "set_round"
              ELSE s.input = Draft(Round2Outcome(rs))
        \/ s.op = "set_session" /\ s.status # "none"
Opens(p) == \E k \in 1..Len(p) : p[k].op = "open_round"
Fills(w) == w.todo # <<>> /\ w.todo[1].op \in RoundStmts /\ w.todo[1].round = New

Builds(w, type, rs, t, ok) ==
    /\ \A k \in 1..Len(w.todo) : StageStmt(w.todo, k, type, rs)
    /\ Opens(w.todo) =>
           /\ IF type = "same_host_pair" THEN PairOrClosed(rs) ELSE AllClosed(rs)
           /\ type = "execute" => Len(rs) \in ok
    /\ Fills(w) =>
           /\ w.made \in DOMAIN rs /\ rs[w.made].type = type /\ ~Closed(rs, w.made)
           /\ type \in AnswersOnce => IterationsOf(t, w.made) = {}

LoopCalm(w, rs, t, ok) ==
    \/ ChoresOnly(w.todo, rs, t)
    \/ Relays(w.todo, rs, t)
    \/ Judges(w.todo, rs)
    \/ Arbitrates(w.todo, rs, t)
    \/ Reviews(w.todo, rs, ok)
    \/ \E type \in RoundTypes : Builds(w, type, rs, t, ok)
DeskCalm(w, rs, t, ok) == Releases(w.todo) \/ Builds(w, "same_host_pair", rs, t, ok)
IsCalm(h, w, rs, t, ok) ==
    IF h = Loop THEN LoopCalm(w, rs, t, ok) ELSE DeskCalm(w, rs, t, ok)

\* A stage has been decided and is not yet open: one thread at a time.
Spawners == {"open_round", "reconcile", "ask_reviewers", "execute", "weigh", "mediate"}
Spawns(p) == \E k \in 1..Len(p) : p[k].op \in Spawners

CalmThreads ==
    /\ \A h \in Threads : IsCalm(h, work[h], rounds, iters, Approved)
    /\ \A g, h \in Threads : g # h =>
           /\ ~(Spawns(work[g].todo) /\ Spawns(work[h].todo))
           /\ Fills(work[g]) /\ Fills(work[h]) => work[g].made # work[h].made
    /\ session = "none" => rounds = <<>> /\ Busy = {}

Calm == CalmTables(rounds, iters, Approved) /\ CalmThreads
CalmInv == overrides = 0 /\ overtaken = {} => Calm

-----------------------------------------------------------------------------
(***************************************************************************)
(* The tables stay calm.                                                   *)
(***************************************************************************)
\* A round that is neither a pair nor closed is the last one, and the others are closed.
LEMMA OpenIsLast ==
    ASSUME NEW rs \in Seq(Round), InOrder(rs), NEW r \in DOMAIN rs,
           ~IsPair(rs, r), ~Closed(rs, r)
    PROVE  /\ r = Len(rs)
           /\ \A q \in DOMAIN rs : q # r => Closed(rs, q)
<1>1. Len(rs) \in Nat /\ DOMAIN rs = 1..Len(rs)
  OBVIOUS
<1>2. \A q \in DOMAIN rs : q < r => Closed(rs, q)
  BY DEF InOrder
<1>3. \A q \in DOMAIN rs : ~(r < q)
  BY DEF InOrder
<1>4. r \in Nat /\ 1 <= r /\ r <= Len(rs) /\ Len(rs) \in DOMAIN rs
  BY <1>1
<1>5. r = Len(rs)
  BY <1>3, <1>4
<1>6. ASSUME NEW q \in DOMAIN rs, q # r
      PROVE  Closed(rs, q)
  <2>1. q < r
    BY <1>1, <1>5, <1>6
  <2> QED
    BY <1>2, <2>1
<1> QED
  BY <1>5, <1>6

\* The synthesis only changes with an arbitration.
LEMMA SameSynthesis ==
    ASSUME NEW rs \in Seq(Round), NEW rs2,
           RoundsOfType(rs2, "cross_host_arbitration") = RoundsOfType(rs, "cross_host_arbitration"),
           \A r \in RoundsOfType(rs, "cross_host_arbitration") : rs2[r].outcome = rs[r].outcome
    PROVE  Round2Outcome(rs2) = Round2Outcome(rs)
<1> DEFINE S == RoundsOfType(rs, "cross_host_arbitration")
<1>1. CASE S = {}
  BY <1>1 DEF Round2Outcome
<1>2. CASE S # {}
  <2>1. Len(rs) \in Nat /\ S \in SUBSET (1..Len(rs))
    BY DEF RoundsOfType
  <2>2. Latest(S) \in S
    BY <1>2, <2>1, LatestIsMember
  <2>3. rs2[Latest(S)].outcome = rs[Latest(S)].outcome
    BY <2>2
  <2> QED
    BY <1>2, <2>3 DEF Round2Outcome
<1> QED
  BY <1>1, <1>2

\* A round is opened behind what has been decided.
LEMMA OpenedTables ==
    ASSUME NEW rs, NEW t, NEW ok, NEW ok2, Tables(rs, t), CalmTables(rs, t, ok),
           NEW rd \in Round, rd.status = "pending", ok \subseteq ok2,
           IF rd.type = "same_host_pair" THEN PairOrClosed(rs) ELSE AllClosed(rs),
           rd.type = "execute" => Len(rs) \in ok
    PROVE  CalmTables(Append(rs, rd), t, ok2)
<1> DEFINE rs2 == Append(rs, rd)
           n == Len(rs)
<1>1. /\ rs \in Seq(Round) /\ n \in Nat /\ DOMAIN rs = 1..n
      /\ \A i \in DOMAIN t : t[i].round \in DOMAIN rs
  BY DEF Tables
<1>2. /\ rs2 \in Seq(Round) /\ rs2[n + 1] = rd /\ DOMAIN rs2 = 1..(n + 1)
      /\ \A r \in DOMAIN rs : rs2[r] = rs[r] /\ r \in DOMAIN rs2
      /\ \A r \in DOMAIN rs2 : r \in DOMAIN rs \/ r = n + 1
  BY <1>1
<1> HIDE DEF rs2, n
<1>3. \A r \in DOMAIN rs :
          /\ IsPair(rs2, r) <=> IsPair(rs, r)
          /\ IsArbitration(rs2, r) <=> IsArbitration(rs, r)
          /\ IsReview(rs2, r) <=> IsReview(rs, r)
          /\ IsExecution(rs2, r) <=> IsExecution(rs, r)
          /\ Closed(rs2, r) <=> Closed(rs, r)
  BY <1>2 DEF IsPair, IsArbitration, IsReview, IsExecution, Closed
<1>4. InOrder(rs2)
  <2> SUFFICES ASSUME NEW q \in DOMAIN rs2, NEW r \in DOMAIN rs2, q < r
               PROVE  Closed(rs2, q) \/ (IsPair(rs2, q) /\ IsPair(rs2, r))
    BY DEF InOrder
  <2>1. q \in DOMAIN rs
    BY <1>1, <1>2
  <2>2. CASE r \in DOMAIN rs
    BY <1>3, <2>1, <2>2 DEF CalmTables, InOrder
  <2>3. CASE r = n + 1
    <3>1. CASE rd.type = "same_host_pair"
      BY <1>2, <1>3, <2>1, <2>3, <3>1 DEF PairOrClosed, IsPair
    <3>2. CASE rd.type # "same_host_pair"
      BY <1>3, <2>1, <3>2 DEF AllClosed
    <3> QED
      BY <3>1, <3>2
  <2> QED
    BY <1>2, <2>2, <2>3
<1>5. AnswersTell(rs2, t) /\ OneArbiter(rs2, t) /\ LastIsOpen(rs2, t) /\ Relayed(rs2, t)
  BY <1>1, <1>3, Zenon DEF CalmTables, AnswersTell, OneArbiter, LastIsOpen, Relayed
<1>6. Shown(rs2, t)
  <2> SUFFICES ASSUME NEW i \in DOMAIN t,
                      IsReview(rs2, t[i].round) \/ IsExecution(rs2, t[i].round),
                      \A q \in DOMAIN rs2 : IsArbitration(rs2, q) => q < t[i].round
               PROVE  t[i].input = Draft(Round2Outcome(rs2))
    BY Zenon DEF Shown
  <2>1. t[i].round \in DOMAIN rs /\ ~(n + 1 < t[i].round) /\ n + 1 \in DOMAIN rs2
    BY <1>1, <1>2
  <2>2. ~IsArbitration(rs2, n + 1)
    BY <2>1
  <2>3. RoundsOfType(rs2, "cross_host_arbitration") = RoundsOfType(rs, "cross_host_arbitration")
    BY <1>2, <2>2 DEF RoundsOfType, IsArbitration
  <2>4. \A r \in RoundsOfType(rs, "cross_host_arbitration") : rs2[r].outcome = rs[r].outcome
    BY <1>2 DEF RoundsOfType
  <2>5. Round2Outcome(rs2) = Round2Outcome(rs)
    BY <1>1, <2>3, <2>4, SameSynthesis
  <2>6. \A q \in DOMAIN rs : IsArbitration(rs, q) => q < t[i].round
    BY <1>2, <1>3
  <2> QED
    BY <1>3, <2>1, <2>5, <2>6 DEF CalmTables, Shown
<1>7. ExecutesApproved(rs2, ok2)
  <2> SUFFICES ASSUME NEW e \in DOMAIN rs2, IsExecution(rs2, e)
               PROVE  e - 1 \in ok2
    BY DEF ExecutesApproved
  <2>1. CASE e \in DOMAIN rs
    BY <1>3, <2>1 DEF CalmTables, ExecutesApproved
  <2>2. CASE e = n + 1
    <3>1. e - 1 = n
      BY <1>1, <2>2
    <3>2. n \in ok
      BY <1>2, <2>2 DEF IsExecution, n
    <3> QED
      BY <3>1, <3>2
  <2> QED
    BY <1>2, <2>1, <2>2
<1> QED
  BY <1>4, <1>5, <1>6, <1>7 DEF CalmTables, rs2

\* A round that is not closed is set; it closes on complete requests.
LEMMA SetTables ==
    ASSUME NEW rs, NEW t, NEW ok, NEW ok2, Tables(rs, t), CalmTables(rs, t, ok),
           NEW r \in DOMAIN rs, ~Closed(rs, r), NEW status, NEW outcome,
           Closed(UpdateRound(rs, r, status, outcome), r) /\ ~IsReview(rs, r) =>
               \A i \in IterationsOf(t, r) : t[i].status = "complete",
           ok \subseteq ok2
    PROVE  CalmTables(UpdateRound(rs, r, status, outcome), t, ok2)
<1> DEFINE rs2 == UpdateRound(rs, r, status, outcome)
<1>1. /\ rs \in Seq(Round) /\ Len(rs) \in Nat /\ DOMAIN rs = 1..Len(rs)
      /\ \A i \in DOMAIN t : t[i].round \in DOMAIN rs
  BY DEF Tables
<1>2. /\ DOMAIN rs2 = DOMAIN rs
      /\ \A q \in DOMAIN rs : rs2[q].type = rs[q].type
      /\ \A q \in DOMAIN rs : q # r => rs2[q] = rs[q]
  <2>1. \A q \in DOMAIN rs : rs[q] \in Round
    BY <1>1
  <2> QED
    BY <2>1 DEF UpdateRound, Round
<1>3. Closed(rs2, r) /\ ~IsReview(rs, r) => \A i \in IterationsOf(t, r) : t[i].status = "complete"
  OBVIOUS
<1> HIDE DEF rs2
<1>4. \A q \in DOMAIN rs :
          /\ IsPair(rs2, q) <=> IsPair(rs, q)
          /\ IsArbitration(rs2, q) <=> IsArbitration(rs, q)
          /\ IsReview(rs2, q) <=> IsReview(rs, q)
          /\ IsExecution(rs2, q) <=> IsExecution(rs, q)
          /\ q # r => (Closed(rs2, q) <=> Closed(rs, q))
  BY <1>2 DEF IsPair, IsArbitration, IsReview, IsExecution, Closed
<1>5. InOrder(rs2)
  BY <1>2, <1>4 DEF CalmTables, InOrder
<1>6. AnswersTell(rs2, t)
  <2> SUFFICES ASSUME NEW i \in DOMAIN t
               PROVE  /\ t[i].output # None <=> t[i].status = "complete"
                      /\ Closed(rs2, t[i].round) /\ ~IsReview(rs2, t[i].round) =>
                             t[i].status = "complete"
    BY DEF AnswersTell
  <2>1. t[i].output # None <=> t[i].status = "complete"
    BY DEF CalmTables, AnswersTell
  <2>2. CASE t[i].round = r
    <3>1. i \in IterationsOf(t, r)
      BY <2>2 DEF IterationsOf
    <3> QED
      BY <1>3, <1>4, <2>1, <2>2, <3>1
  <2>3. CASE t[i].round # r
    BY <1>1, <1>4, <2>1, <2>3 DEF CalmTables, AnswersTell
  <2> QED
    BY <2>2, <2>3
<1>7. OneArbiter(rs2, t) /\ LastIsOpen(rs2, t) /\ Relayed(rs2, t)
  BY <1>1, <1>4, Zenon DEF CalmTables, OneArbiter, LastIsOpen, Relayed
<1>8. Shown(rs2, t)
  <2> SUFFICES ASSUME NEW i \in DOMAIN t,
                      IsReview(rs2, t[i].round) \/ IsExecution(rs2, t[i].round),
                      \A q \in DOMAIN rs2 : IsArbitration(rs2, q) => q < t[i].round
               PROVE  t[i].input = Draft(Round2Outcome(rs2))
    BY Zenon DEF Shown
  <2>1. t[i].round \in DOMAIN rs
    BY <1>1
  <2>2. ~IsArbitration(rs, r)
    <3> SUFFICES ASSUME IsArbitration(rs, r)
                 PROVE  FALSE
      OBVIOUS
    <3>1. ~IsPair(rs, r)
      BY DEF IsPair, IsArbitration
    <3>2. r = Len(rs)
      BY <1>1, <3>1, OpenIsLast DEF CalmTables
    <3>3. r < t[i].round
      BY <1>2, <1>4
    <3> QED
      BY <1>1, <2>1, <3>2, <3>3
  <2>3. RoundsOfType(rs2, "cross_host_arbitration") = RoundsOfType(rs, "cross_host_arbitration")
    BY <1>2 DEF RoundsOfType
  <2>4. \A q \in RoundsOfType(rs, "cross_host_arbitration") : rs2[q].outcome = rs[q].outcome
    BY <1>2, <2>2 DEF RoundsOfType, IsArbitration
  <2>5. Round2Outcome(rs2) = Round2Outcome(rs)
    BY <1>1, <2>3, <2>4, SameSynthesis
  <2>6. \A q \in DOMAIN rs : IsArbitration(rs, q) => q < t[i].round
    BY <1>2, <1>4
  <2> QED
    BY <1>4, <2>1, <2>5, <2>6 DEF CalmTables, Shown
<1>9. ExecutesApproved(rs2, ok2)
  BY <1>2, <1>4 DEF CalmTables, ExecutesApproved
<1> QED
  BY <1>5, <1>6, <1>7, <1>8, <1>9 DEF CalmTables, rs2

\* A request is put in a round that is not closed.
LEMMA AskedTables ==
    ASSUME NEW rs, NEW t, NEW ok, NEW ok2, Tables(rs, t), CalmTables(rs, t, ok), ok \subseteq ok2,
           NEW it \in Iteration, it.round \in DOMAIN rs, ~Closed(rs, it.round),
           it.output = None, it.status = "awaiting_nudge",
           IsArbitration(rs, it.round) => IterationsOf(t, it.round) = {},
           IsPair(rs, it.round) =>
               /\ \A j \in IterationsOf(t, it.round) : t[j].status = "complete"
               /\ InsertsOn(it, t, it.round),
           IsReview(rs, it.round) \/ IsExecution(rs, it.round) =>
               it.input = Draft(Round2Outcome(rs))
    PROVE  CalmTables(rs, Append(t, it), ok2)
<1> DEFINE t2 == Append(t, it)
           n == Len(t)
<1>1. /\ t \in Seq(Iteration) /\ n \in Nat /\ DOMAIN t = 1..n
      /\ \A i \in DOMAIN t : t[i].round \in DOMAIN rs /\ t[i].num \in Nat
  <2>1. t \in Seq(Iteration) /\ \A i \in DOMAIN t : t[i].round \in DOMAIN rs
    BY DEF Tables
  <2>2. \A i \in DOMAIN t : t[i] \in Iteration
    BY <2>1
  <2>3. \A i \in DOMAIN t : t[i].num \in Nat
    BY <2>2 DEF Iteration
  <2> QED
    BY <2>1, <2>3
<1>2. /\ t2 \in Seq(Iteration) /\ t2[n + 1] = it
      /\ n + 1 \in DOMAIN t2 /\ n + 1 \notin DOMAIN t
      /\ \A i \in DOMAIN t : t2[i] = t[i] /\ i \in DOMAIN t2
      /\ \A i \in DOMAIN t2 : i \in DOMAIN t \/ i = n + 1
      /\ it.num \in Nat
  BY <1>1 DEF Iteration
<1> HIDE DEF t2, n
<1>3. AnswersTell(rs, t2)
  BY <1>1, <1>2 DEF CalmTables, AnswersTell
<1>4. OneArbiter(rs, t2)
  <2>1. \A i \in DOMAIN t : t[i].round = it.round => i \in IterationsOf(t, it.round)
    BY DEF IterationsOf
  <2> QED
    BY <1>1, <1>2, <2>1 DEF CalmTables, OneArbiter
<1>5. ASSUME NEW j \in DOMAIN t, t[j].round = it.round, IsPair(rs, it.round)
      PROVE  /\ t[j].status = "complete" /\ t[j].num < it.num
             /\ t[j].num + 1 = it.num => HandsOn(it, t[j]) /\ it.num <= MAX_ITERS_PER_ROUND_1
  <2>1. j \in IterationsOf(t, it.round)
    BY <1>5 DEF IterationsOf
  <2> QED
    BY <1>5, <2>1 DEF InsertsOn
<1>6. LastIsOpen(rs, t2)
  <2> SUFFICES ASSUME NEW i \in DOMAIN t2, NEW j \in DOMAIN t2, i # j,
                      t2[i].round = t2[j].round, IsPair(rs, t2[i].round),
                      t2[i].status # "complete"
               PROVE  t2[j].status = "complete" /\ t2[j].num < t2[i].num
    BY DEF LastIsOpen
  <2>1. CASE i \in DOMAIN t /\ j \in DOMAIN t
    BY <1>2, <2>1 DEF CalmTables, LastIsOpen
  <2>2. CASE i \in DOMAIN t /\ j = n + 1
    BY <1>2, <1>5, <2>2
  <2>3. CASE i = n + 1 /\ j \in DOMAIN t
    BY <1>2, <1>5, <2>3
  <2> QED
    BY <1>2, <2>1, <2>2, <2>3
<1>7. Relayed(rs, t2)
  <2> SUFFICES ASSUME NEW i \in DOMAIN t2, NEW j \in DOMAIN t2,
                      t2[i].round = t2[j].round, IsPair(rs, t2[i].round),
                      t2[j].num = t2[i].num + 1
               PROVE  /\ t2[i].status = "complete" /\ HandsOn(t2[j], t2[i])
                      /\ t2[j].num <= MAX_ITERS_PER_ROUND_1
    BY DEF Relayed
  <2>1. CASE i \in DOMAIN t /\ j \in DOMAIN t
    BY <1>2, <2>1 DEF CalmTables, Relayed
  <2>2. CASE i \in DOMAIN t /\ j = n + 1
    BY <1>2, <1>5, <2>2
  <2>3. CASE i = n + 1
    <3>1. t2[i].num = it.num /\ it.num \in Nat
      BY <1>2, <2>3
    <3>2. j # n + 1
      BY <1>2, <3>1
    <3>3. t2[j].num < it.num /\ t2[j].num \in Nat
      BY <1>1, <1>2, <1>5, <2>3, <3>2
    <3> QED
      BY <3>1, <3>3
  <2> QED
    BY <1>2, <2>1, <2>2, <2>3
<1>8. Shown(rs, t2)
  BY <1>2 DEF CalmTables, Shown
<1>9. ExecutesApproved(rs, ok2)
  BY DEF CalmTables, ExecutesApproved
<1> QED
  BY <1>3, <1>4, <1>6, <1>7, <1>8, <1>9 DEF CalmTables, t2

\* Requests are released or answered.
LEMMA RewrittenTables ==
    ASSUME NEW rs, NEW t, NEW ok, NEW ok2, Tables(rs, t), CalmTables(rs, t, ok), ok \subseteq ok2,
           NEW t2, DOMAIN t2 = DOMAIN t,
           \A i \in DOMAIN t :
               /\ t2[i].round = t[i].round /\ t2[i].num = t[i].num /\ t2[i].src = t[i].src
               /\ t2[i].dst = t[i].dst /\ t2[i].input = t[i].input
               /\ t[i].status = "complete" => t2[i] = t[i]
               /\ t2[i].output # None <=> t2[i].status = "complete"
    PROVE  CalmTables(rs, t2, ok2)
<1>1. AnswersTell(rs, t2)
  BY DEF CalmTables, AnswersTell
<1>2. OneArbiter(rs, t2)
  BY DEF CalmTables, OneArbiter
<1>3. LastIsOpen(rs, t2)
  <2> SUFFICES ASSUME NEW i \in DOMAIN t, NEW j \in DOMAIN t, i # j,
                      t2[i].round = t2[j].round, IsPair(rs, t2[i].round),
                      t2[i].status # "complete"
               PROVE  t2[j].status = "complete" /\ t2[j].num < t2[i].num
    BY DEF LastIsOpen
  <2>1. t[i].status # "complete"
    OBVIOUS
  <2>2. t[j].status = "complete" /\ t[j].num < t[i].num
    BY <2>1 DEF CalmTables, LastIsOpen
  <2> QED
    BY <2>2
<1>4. Relayed(rs, t2)
  <2> SUFFICES ASSUME NEW i \in DOMAIN t, NEW j \in DOMAIN t,
                      t2[i].round = t2[j].round, IsPair(rs, t2[i].round),
                      t2[j].num = t2[i].num + 1
               PROVE  /\ t2[i].status = "complete" /\ HandsOn(t2[j], t2[i])
                      /\ t2[j].num <= MAX_ITERS_PER_ROUND_1
    BY DEF Relayed
  <2>1. /\ t[i].status = "complete" /\ HandsOn(t[j], t[i])
        /\ t[j].num <= MAX_ITERS_PER_ROUND_1
    BY DEF CalmTables, Relayed
  <2> QED
    BY <2>1 DEF HandsOn
<1>5. Shown(rs, t2) /\ ExecutesApproved(rs, ok2)
  BY DEF CalmTables, Shown, ExecutesApproved
<1> QED
  BY <1>1, <1>2, <1>3, <1>4, <1>5 DEF CalmTables

-----------------------------------------------------------------------------
(***************************************************************************)
(* What the others see of a step.                                          *)
(***************************************************************************)
Setting ==
    /\ StepsInv
    /\ overtaken = {}
    /\ Calm
    /\ Grown(rounds, iters, rounds', iters')

\* Nobody else writes to a pair round before there is a request in it.
Mine(h, r) ==
    \/ ~IsPair(rounds, r)
    \/ IterationsOf(iters, r) # {}
    \/ Fills(work[h]) /\ r = work[h].made

Touches(h) ==
    /\ Len(rounds') # Len(rounds) => Opens(work[h].todo)
    /\ \A r \in DOMAIN rounds :
           rounds'[r] # rounds[r] => ~Closed(rounds, r) /\ Mine(h, r)
    /\ \A i \in DOMAIN iters' \ DOMAIN iters : Mine(h, iters'[i].round)

\* A desk writes to the pair rounds that it has made, before there is a request in them.
Outside(h) ==
    /\ \A r \in DOMAIN rounds :
           rounds'[r] # rounds[r] => Fills(work[h]) /\ r = work[h].made
    /\ \A r \in DOMAIN rounds' \ DOMAIN rounds : IsPair(rounds', r)
    /\ \A i \in DOMAIN iters : iters[i].status = "complete" => iters'[i] = iters[i]
    /\ \A i \in DOMAIN iters' \ DOMAIN iters :
           Fills(work[h]) /\ iters'[i].round = work[h].made
    /\ Approved \subseteq Approved'

\* The tables are sequences of rows that only get longer.
LEMMA SettingTables ==
    ASSUME Setting
    PROVE  /\ rounds \in Seq(Round) /\ Len(rounds) \in Nat /\ DOMAIN rounds = 1..Len(rounds)
           /\ rounds' \in Seq(Round) /\ Len(rounds') \in Nat /\ DOMAIN rounds' = 1..Len(rounds')
           /\ iters \in Seq(Iteration) /\ Len(iters) \in Nat /\ DOMAIN iters = 1..Len(iters)
           /\ iters' \in Seq(Iteration) /\ Len(iters') \in Nat /\ DOMAIN iters' = 1..Len(iters')
           /\ Len(rounds) <= Len(rounds') /\ Len(iters) <= Len(iters')
           /\ DOMAIN rounds \subseteq DOMAIN rounds' /\ DOMAIN iters \subseteq DOMAIN iters'
           /\ Tables(rounds, iters) /\ Tables(rounds', iters')
           /\ \A i \in DOMAIN iters : iters[i].round \in DOMAIN rounds
           /\ \A i \in DOMAIN iters' : iters'[i].round \in DOMAIN rounds'
<1>1. Tables(rounds, iters) /\ Tables(rounds', iters') /\ Len(rounds) <= Len(rounds') /\ Len(iters) <= Len(iters')
  BY DEF Setting, Grown
<1>2. /\ rounds \in Seq(Round) /\ rounds' \in Seq(Round)
      /\ iters \in Seq(Iteration) /\ iters' \in Seq(Iteration)
      /\ \A i \in DOMAIN iters : iters[i].round \in DOMAIN rounds
      /\ \A i \in DOMAIN iters' : iters'[i].round \in DOMAIN rounds'
  BY <1>1 DEF Tables
<1> QED
  BY <1>1, <1>2

\* Types stay, whatever happens.
LEMMA SettingTypes ==
    ASSUME Setting, NEW r \in DOMAIN rounds
    PROVE  /\ IsPair(rounds', r) <=> IsPair(rounds, r)
           /\ IsArbitration(rounds', r) <=> IsArbitration(rounds, r)
           /\ IsReview(rounds', r) <=> IsReview(rounds, r)
           /\ IsExecution(rounds', r) <=> IsExecution(rounds, r)
           /\ rounds'[r] = rounds[r] => (Closed(rounds', r) <=> Closed(rounds, r))
<1>1. rounds'[r].type = rounds[r].type
  BY DEF Setting, Grown
<1> QED
  BY <1>1 DEF IsPair, IsArbitration, IsReview, IsExecution, Closed

\* The thread that opens rounds is the only one that does.
LEMMA OthersDoNotOpen ==
    ASSUME Setting, NEW g \in Threads, NEW h \in Threads, g # h, Spawns(work[g].todo), Touches(h)
    PROVE  Len(rounds') = Len(rounds) /\ DOMAIN rounds' = DOMAIN rounds
<1>1. ~Spawns(work[h].todo)
  BY DEF Setting, Calm, CalmThreads
<1>2. ~Opens(work[h].todo)
  BY <1>1 DEF Opens, Spawns, Spawners
<1> QED
  BY <1>2, SettingTables DEF Touches

\* A desk's list stays calm under the steps of the others.
LEMMA DeskStays ==
    ASSUME Setting, NEW h \in Threads, NEW g \in Desk, g # h, Touches(h)
    PROVE  DeskCalm(work[g], rounds', iters', Approved')
<1> DEFINE w == work[g]
<1>1. g \in Threads /\ g # Loop
  BY ThreadAssumption DEF Threads
<1>2. DeskCalm(w, rounds, iters, Approved)
  BY <1>1 DEF Setting, Calm, CalmThreads, IsCalm
<1>3. CASE Releases(w.todo)
  BY <1>3 DEF DeskCalm
<1>4. CASE Builds(w, "same_host_pair", rounds, iters, Approved)
  <2>1. \A k \in 1..Len(w.todo) : StageStmt(w.todo, k, "same_host_pair", rounds')
    BY <1>4 DEF Builds, StageStmt, AnswersOnce
  <2>2. ASSUME Opens(w.todo)
        PROVE  PairOrClosed(rounds')
    <3>1. Spawns(w.todo)
      BY <2>2 DEF Opens, Spawns, Spawners
    <3>2. DOMAIN rounds' = DOMAIN rounds
      BY <1>1, <3>1, OthersDoNotOpen
    <3>3. PairOrClosed(rounds)
      BY <1>4, <2>2 DEF Builds
    <3>4. ASSUME NEW q \in DOMAIN rounds
          PROVE  IsPair(rounds', q) \/ Closed(rounds', q)
      BY <3>3, <3>4, SettingTypes DEF PairOrClosed, Touches
    <3> QED
      BY <3>2, <3>4 DEF PairOrClosed
  <2>3. ASSUME Fills(w)
        PROVE  /\ w.made \in DOMAIN rounds' /\ rounds'[w.made].type = "same_host_pair"
               /\ ~Closed(rounds', w.made) /\ IterationsOf(iters', w.made) = {}
    <3>1. /\ w.made \in DOMAIN rounds /\ rounds[w.made].type = "same_host_pair"
          /\ ~Closed(rounds, w.made) /\ IterationsOf(iters, w.made) = {}
      BY <1>4, <2>3 DEF Builds, AnswersOnce
    <3>2. ~(Fills(work[h]) /\ w.made = work[h].made)
      BY <1>1, <2>3 DEF Setting, Calm, CalmThreads
    <3>3. ~Mine(h, w.made)
      BY <3>1, <3>2 DEF Mine, IsPair
    <3>4. rounds'[w.made] = rounds[w.made]
      BY <3>1, <3>3 DEF Touches
    <3>5. IterationsOf(iters', w.made) = {}
      <4> SUFFICES ASSUME NEW i \in DOMAIN iters', iters'[i].round = w.made
                   PROVE  FALSE
        BY DEF IterationsOf
      <4>1. i \notin DOMAIN iters
        BY <3>1 DEF Setting, Grown, IterationsOf
      <4> QED
        BY <3>3, <4>1 DEF Touches
    <3> QED
      BY <3>1, <3>4, <3>5, SettingTables, SettingTypes
  <2>4. Builds(w, "same_host_pair", rounds', iters', Approved')
    BY <2>1, <2>2, <2>3 DEF Builds
  <2> QED
    BY <2>4 DEF DeskCalm
<1> QED
  BY <1>2, <1>3, <1>4 DEF DeskCalm

\* What a desk is filling is a pair round without a request.
LEMMA DeskFills ==
    ASSUME Setting, NEW h \in Desk, Fills(work[h])
    PROVE  /\ work[h].made \in DOMAIN rounds /\ IsPair(rounds, work[h].made)
           /\ ~Closed(rounds, work[h].made) /\ IterationsOf(iters, work[h].made) = {}
<1> DEFINE w == work[h]
<1>1. h \in Threads /\ h # Loop
  BY ThreadAssumption DEF Threads
<1>2. DeskCalm(w, rounds, iters, Approved)
  BY <1>1 DEF Setting, Calm, CalmThreads, IsCalm
<1>3. w.todo \in Seq(Statement)
  BY <1>1, InvTables DEF Setting
<1>4. ~Releases(w.todo)
  <2>1. 1 \in 1..Len(w.todo) /\ w.todo[1].op # "release"
    BY <1>3 DEF Fills, RoundStmts
  <2> QED
    BY <2>1 DEF Releases
<1> QED
  BY <1>2, <1>4 DEF DeskCalm, Builds, AnswersOnce, IsPair

\* A round that no desk is filling is left alone by the desks.
Elsewhere(h, r) == r \in DOMAIN rounds /\ ~(Fills(work[h]) /\ r = work[h].made)

\* A desk leaves the rounds that it is not filling as they are.
LEMMA ElsewhereStays ==
    ASSUME Setting, NEW h, Outside(h), NEW r, Elsewhere(h, r)
    PROVE  /\ r \in DOMAIN rounds' /\ rounds'[r] = rounds[r]
           /\ Closed(rounds', r) <=> Closed(rounds, r)
           /\ IterationsOf(iters', r) = IterationsOf(iters, r)
           /\ AllAnswered(iters, r) =>
                  AllAnswered(iters', r) /\ \A j \in IterationsOf(iters, r) : iters'[j] = iters[j]
<1>1. rounds'[r] = rounds[r] /\ r \in DOMAIN rounds' /\ r \in DOMAIN rounds
  BY SettingTables DEF Outside, Elsewhere
<1>2. IterationsOf(iters', r) = IterationsOf(iters, r)
  <2>1. \A i \in DOMAIN iters : i \in DOMAIN iters' /\ iters'[i].round = iters[i].round
    BY SettingTables DEF Setting, Grown
  <2>2. \A i \in DOMAIN iters' : iters'[i].round = r => i \in DOMAIN iters
    BY DEF Outside, Elsewhere
  <2> QED
    BY <2>1, <2>2 DEF IterationsOf
<1>3. ASSUME AllAnswered(iters, r)
      PROVE  AllAnswered(iters', r) /\ \A j \in IterationsOf(iters, r) : iters'[j] = iters[j]
  <2>1. \A j \in IterationsOf(iters, r) : iters'[j] = iters[j]
    BY <1>3 DEF AllAnswered, Outside, IterationsOf
  <2> QED
    BY <1>2, <1>3, <2>1 DEF AllAnswered
<1>4. Closed(rounds', r) <=> Closed(rounds, r)
  BY <1>1, SettingTypes
<1> QED
  BY <1>1, <1>2, <1>3, <1>4

\* The operator's threads write no synthesis.
LEMMA DesksKeepSynthesis ==
    ASSUME Setting, NEW h \in Desk, Outside(h)
    PROVE  Round2Outcome(rounds') = Round2Outcome(rounds)
<1>1. ASSUME NEW r \in DOMAIN rounds, IsArbitration(rounds, r)
      PROVE  rounds'[r] = rounds[r]
  <2>1. Elsewhere(h, r)
    BY <1>1, DeskFills DEF Elsewhere, IsPair, IsArbitration
  <2> QED
    BY <2>1, ElsewhereStays
<1>2. RoundsOfType(rounds', "cross_host_arbitration") = RoundsOfType(rounds, "cross_host_arbitration")
  <2>1. \A r \in DOMAIN rounds : r \in DOMAIN rounds' /\ rounds'[r].type = rounds[r].type
    BY SettingTables DEF Setting, Grown
  <2>2. \A r \in DOMAIN rounds' : rounds'[r].type = "cross_host_arbitration" => r \in DOMAIN rounds
    BY DEF Outside, IsPair
  <2> QED
    BY <2>1, <2>2 DEF RoundsOfType
<1>3. \A r \in RoundsOfType(rounds, "cross_host_arbitration") : rounds'[r].outcome = rounds[r].outcome
  BY <1>1 DEF RoundsOfType, IsArbitration
<1>4. rounds \in Seq(Round)
  BY SettingTables
<1> QED
  BY <1>2, <1>3, <1>4, SameSynthesis

\* The operator's threads neither close a round nor reopen one.
LEMMA DesksKeepClosed ==
    ASSUME Setting, NEW h \in Desk, Outside(h)
    PROVE  /\ PairOrClosed(rounds) => PairOrClosed(rounds')
           /\ AllClosed(rounds) /\ Len(rounds') = Len(rounds) => AllClosed(rounds')
<1>1. ASSUME NEW r \in DOMAIN rounds, ~IsPair(rounds, r) \/ Closed(rounds, r)
      PROVE  Closed(rounds', r) <=> Closed(rounds, r)
  <2>1. Elsewhere(h, r)
    BY <1>1, DeskFills DEF Elsewhere
  <2> QED
    BY <2>1, ElsewhereStays
<1>2. ASSUME PairOrClosed(rounds), NEW q \in DOMAIN rounds'
      PROVE  IsPair(rounds', q) \/ Closed(rounds', q)
  <2>1. CASE q \in DOMAIN rounds
    BY <1>1, <1>2, <2>1, SettingTypes DEF PairOrClosed
  <2>2. CASE q \notin DOMAIN rounds
    BY <2>2 DEF Outside
  <2> QED
    BY <2>1, <2>2
<1>3. ASSUME AllClosed(rounds), Len(rounds') = Len(rounds)
      PROVE  AllClosed(rounds')
  <2>1. DOMAIN rounds' = DOMAIN rounds
    BY <1>3, SettingTables
  <2> QED
    BY <1>1, <1>3, <2>1 DEF AllClosed
<1> QED
  BY <1>2, <1>3 DEF PairOrClosed

\* Rows stay what they are about.
LEMMA ChoresStay ==
    ASSUME Setting, NEW p, ChoresOnly(p, rounds, iters)
    PROVE  ChoresOnly(p, rounds', iters')
<1> SUFFICES ASSUME NEW k \in 1..Len(p)
             PROVE  Harmless(p[k], rounds', iters')
  BY DEF ChoresOnly
<1>1. Harmless(p[k], rounds, iters)
  BY DEF ChoresOnly
<1>2. \A i \in DOMAIN iters :
          i \in DOMAIN iters' /\ iters'[i].round = iters[i].round /\ iters[i].round \in DOMAIN rounds
  BY SettingTables DEF Setting, Grown
<1> QED
  BY <1>1, <1>2, SettingTables, SettingTypes DEF Harmless

\* What the event loop has left to do stays calm under the steps of the desks.
LEMMA LoopStays ==
    ASSUME Setting, NEW h \in Desk, Touches(h), Outside(h)
    PROVE  LoopCalm(work[Loop], rounds', iters', Approved')
<1> DEFINE w == work[Loop]
           p == w.todo
<1>1. Loop \in Threads /\ h \in Threads /\ h # Loop
  BY ThreadAssumption DEF Threads
<1>2. LoopCalm(w, rounds, iters, Approved)
  BY <1>1 DEF Setting, Calm, CalmThreads, IsCalm
<1>3. Spawns(p) => Len(rounds') = Len(rounds)
  BY <1>1, OthersDoNotOpen
<1>4. ASSUME NEW r \in DOMAIN rounds, ~IsPair(rounds, r) \/ IterationsOf(iters, r) # {}
      PROVE  Elsewhere(h, r)
  BY <1>4, DeskFills DEF Elsewhere
<1>5. Approved \subseteq Approved'
  BY DEF Outside
<1>6. CASE ChoresOnly(p, rounds, iters)
  BY <1>6, ChoresStay DEF LoopCalm
<1>7. CASE Relays(p, rounds, iters)
  <2>1. PICK r \in DOMAIN rounds : IsPair(rounds, r) /\ ~Closed(rounds, r) /\ RelaysIn(p, r, iters)
    BY <1>7 DEF Relays
  <2>2. IterationsOf(iters, r) # {}
    BY <2>1 DEF RelaysIn, AllAnswered
  <2>3. Elsewhere(h, r)
    BY <1>4, <2>2
  <2>4. /\ r \in DOMAIN rounds' /\ IsPair(rounds', r) /\ ~Closed(rounds', r)
        /\ IterationsOf(iters', r) = IterationsOf(iters, r)
        /\ AllAnswered(iters, r) =>
               AllAnswered(iters', r) /\ \A j \in IterationsOf(iters, r) : iters'[j] = iters[j]
    BY <2>1, <2>3, ElsewhereStays, SettingTypes
  <2>5. ASSUME AllAnswered(iters, r), NEW s
        PROVE  /\ NumbersOn(s, iters, r) => NumbersOn(s, iters', r)
               /\ InsertsOn(s, iters, r) => InsertsOn(s, iters', r)
    BY <2>4, <2>5 DEF NumbersOn, InsertsOn
  <2>6. RelaysIn(p, r, iters')
    BY <2>1, <2>4, <2>5 DEF RelaysIn
  <2> QED
    BY <2>4, <2>6 DEF LoopCalm, Relays
<1>8. CASE Judges(p, rounds)
  <2>1. p = <<ReadStmt("reconcile", None)>> => Spawns(p)
    BY DEF Spawns, Spawners, ReadStmt
  <2>2. Judges(p, rounds')
    BY <1>3, <1>8, <2>1, DesksKeepClosed DEF Judges
  <2> QED
    BY <2>2 DEF LoopCalm
<1>9. CASE Arbitrates(p, rounds, iters)
  <2>1. ASSUME NEW r \in DOMAIN rounds, IsArbitration(rounds, r), ~Closed(rounds, r),
               ArbitratesIn(p, r, iters)
        PROVE  Arbitrates(p, rounds', iters')
    <3>1. Elsewhere(h, r)
      BY <1>4, <2>1 DEF IsPair, IsArbitration
    <3>2. /\ r \in DOMAIN rounds' /\ IsArbitration(rounds', r) /\ ~Closed(rounds', r)
          /\ IterationsOf(iters', r) = IterationsOf(iters, r)
          /\ AllAnswered(iters, r) => AllAnswered(iters', r)
      BY <2>1, <3>1, ElsewhereStays, SettingTypes
    <3>3. ArbitratesIn(p, r, iters')
      BY <2>1, <3>2 DEF ArbitratesIn
    <3> QED
      BY <3>2, <3>3 DEF Arbitrates
  <2>2. ASSUME AllClosed(rounds), p = <<ReadStmt("ask_reviewers", Round2Outcome(rounds))>>
        PROVE  Arbitrates(p, rounds', iters')
    <3>1. Spawns(p)
      BY <2>2 DEF Spawns, Spawners, ReadStmt
    <3> QED
      BY <1>3, <2>2, <3>1, DesksKeepClosed, DesksKeepSynthesis DEF Arbitrates
  <2> QED
    BY <1>9, <2>1, <2>2 DEF LoopCalm, Arbitrates
<1>10. CASE Reviews(p, rounds, Approved)
  <2>1. ASSUME NEW r \in DOMAIN rounds, IsReview(rounds, r), ~Closed(rounds, r),
               ReviewsIn(p, r, Approved)
        PROVE  Reviews(p, rounds', Approved')
    <3>1. Elsewhere(h, r)
      BY <1>4, <2>1 DEF IsPair, IsReview
    <3>2. r \in DOMAIN rounds' /\ IsReview(rounds', r) /\ ~Closed(rounds', r)
      BY <2>1, <3>1, ElsewhereStays, SettingTypes
    <3>3. ReviewsIn(p, r, Approved')
      BY <1>5, <2>1 DEF ReviewsIn
    <3> QED
      BY <3>2, <3>3 DEF Reviews
  <2>2. ASSUME AllClosed(rounds),
               \/ Len(rounds) \in Approved /\ p = <<ReadStmt("execute", None)>>
               \/ \E op \in {"weigh", "mediate"}, R \in SUBSET Agents : p = <<ReadStmt(op, R)>>
        PROVE  Reviews(p, rounds', Approved')
    <3>1. Spawns(p)
      <4>1. \E op \in Spawners : \E x : p = <<ReadStmt(op, x)>>
        BY <2>2 DEF Spawners
      <4> QED
        BY <4>1 DEF Spawns, ReadStmt
    <3>2. Len(rounds') = Len(rounds) /\ AllClosed(rounds')
      BY <1>3, <2>2, <3>1, DesksKeepClosed
    <3> QED
      BY <1>5, <2>2, <3>2 DEF Reviews
  <2> QED
    BY <1>10, <2>1, <2>2 DEF LoopCalm, Reviews
<1>11. ASSUME NEW type \in RoundTypes, Builds(w, type, rounds, iters, Approved)
       PROVE  Builds(w, type, rounds', iters', Approved')
  <2>1. \A k \in 1..Len(p) : StageStmt(p, k, type, rounds')
    BY <1>11, DesksKeepSynthesis DEF Builds, StageStmt
  <2>2. ASSUME Opens(p)
        PROVE  /\ IF type = "same_host_pair" THEN PairOrClosed(rounds') ELSE AllClosed(rounds')
               /\ type = "execute" => Len(rounds') \in Approved'
    <3>1. Len(rounds') = Len(rounds)
      BY <1>3, <2>2 DEF Opens, Spawns, Spawners
    <3> QED
      BY <1>5, <1>11, <2>2, <3>1, DesksKeepClosed DEF Builds
  <2>3. ASSUME Fills(w)
        PROVE  /\ w.made \in DOMAIN rounds' /\ rounds'[w.made].type = type
               /\ ~Closed(rounds', w.made)
               /\ type \in AnswersOnce => IterationsOf(iters', w.made) = {}
    <3>1. /\ w.made \in DOMAIN rounds /\ rounds[w.made].type = type
          /\ ~Closed(rounds, w.made)
          /\ type \in AnswersOnce => IterationsOf(iters, w.made) = {}
      BY <1>11, <2>3 DEF Builds
    <3>2. Elsewhere(h, w.made)
      BY <1>1, <2>3, <3>1 DEF Elsewhere, Setting, Calm, CalmThreads
    <3> QED
      BY <3>1, <3>2, ElsewhereStays
  <2> QED
    BY <2>1, <2>2, <2>3 DEF Builds
<1> QED
  BY <1>2, <1>6, <1>7, <1>8, <1>9, <1>10, <1>11 DEF LoopCalm

-----------------------------------------------------------------------------
(***************************************************************************)
(* Steps that keep calm.                                                   *)
(***************************************************************************)
\* A stage is only decided by a thread that had decided it, or while no other has.
MaySpawn(h) ==
    Spawns(work'[h].todo) =>
        Spawns(work[h].todo) \/ \A g \in Threads : g # h => ~Spawns(work[g].todo)

\* A thread fills the round it filled or one it has just opened.
FillsItsOwn(h) ==
    Fills(work'[h]) =>
        \/ Fills(work[h]) /\ work'[h].made = work[h].made
        \/ work'[h].made = Len(rounds) + 1

CalmStep(h) ==
    /\ work' = [work EXCEPT ![h] = work'[h]]
    /\ CalmTables(rounds', iters', Approved')
    /\ IsCalm(h, work'[h], rounds', iters', Approved')
    /\ Touches(h)
    /\ h \in Desk => Outside(h)
    /\ MaySpawn(h)
    /\ FillsItsOwn(h)
    /\ session' # "none"

\* A calm step of one thread leaves all of them calm.
LEMMA CalmAfterStep ==
    ASSUME Setting, NEW h \in Threads, CalmStep(h)
    PROVE  Calm'
<1>1. /\ work \in [Threads -> Handlers]
      /\ \A g \in Threads : work[g].made <= Len(rounds) /\ work[g].made \in Nat
  BY InvTables DEF Setting, StepsInv, StepsTypeOK, Handlers
<1>2. \A g \in Threads : g # h => work'[g] = work[g]
  BY <1>1 DEF CalmStep
<1>3. ASSUME NEW g \in Threads
      PROVE  IsCalm(g, work'[g], rounds', iters', Approved')
  <2>1. CASE g = h
    BY <2>1 DEF CalmStep
  <2>2. CASE g # h /\ g \in Desk
    <3>1. DeskCalm(work[g], rounds', iters', Approved')
      BY <2>2, DeskStays DEF CalmStep
    <3> QED
      BY <1>2, <2>2, <3>1, ThreadAssumption DEF IsCalm
  <2>3. CASE g # h /\ g = Loop
    <3>1. h \in Desk
      BY <2>3 DEF Threads
    <3>2. LoopCalm(work[Loop], rounds', iters', Approved')
      BY <3>1, LoopStays DEF CalmStep
    <3> QED
      BY <1>2, <2>3, <3>2 DEF IsCalm
  <2> QED
    BY <2>1, <2>2, <2>3 DEF Threads
<1>4. ASSUME NEW g \in Threads, g # h
      PROVE  /\ ~(Spawns(work'[g].todo) /\ Spawns(work'[h].todo))
             /\ Fills(work'[g]) /\ Fills(work'[h]) => work'[g].made # work'[h].made
  <2>1. work'[g] = work[g]
    BY <1>2, <1>4
  <2>2. ~(Spawns(work[g].todo) /\ Spawns(work[h].todo))
    BY <1>4 DEF Setting, Calm, CalmThreads
  <2>3. ~(Spawns(work'[g].todo) /\ Spawns(work'[h].todo))
    BY <1>4, <2>1, <2>2 DEF CalmStep, MaySpawn
  <2>4. Fills(work[g]) /\ Fills(work[h]) => work[g].made # work[h].made
    BY <1>4 DEF Setting, Calm, CalmThreads
  <2>5. work[g].made # Len(rounds) + 1
    BY <1>1, SettingTables
  <2> QED
    BY <2>1, <2>3, <2>4, <2>5 DEF CalmStep, FillsItsOwn
<1>5. ASSUME NEW g \in Threads, NEW k \in Threads, g # k
      PROVE  /\ ~(Spawns(work'[g].todo) /\ Spawns(work'[k].todo))
             /\ Fills(work'[g]) /\ Fills(work'[k]) => work'[g].made # work'[k].made
  <2>1. CASE g # h /\ k # h
    BY <1>2, <1>5, <2>1 DEF Setting, Calm, CalmThreads
  <2>2. CASE g = h
    BY <1>4, <1>5, <2>2
  <2>3. CASE k = h
    BY <1>4, <1>5, <2>3
  <2> QED
    BY <2>1, <2>2, <2>3
<1>6. session' # "none"
  BY DEF CalmStep
<1>7. CalmThreads'
  BY <1>3, <1>5, <1>6 DEF CalmThreads
<1> QED
  BY <1>7 DEF CalmStep, Calm

\* What a step that leaves the rounds and the requests alone owes the others.
LEMMA QuietKeepsCalm ==
    ASSUME Setting, UNCHANGED <<rounds, iters, reviews, skipped>>, NEW h
    PROVE  /\ Approved' = Approved
           /\ CalmTables(rounds', iters', Approved')
           /\ Touches(h)
           /\ Outside(h)
<1>1. Approved' = Approved
  BY DEF Approved, ExpectedReviewers
<1>2. CalmTables(rounds', iters', Approved')
  BY <1>1 DEF Setting, Calm
<1>3. Touches(h)
  BY DEF Touches
<1>4. Outside(h)
  BY <1>1 DEF Outside
<1> QED
  BY <1>1, <1>2, <1>3, <1>4

\* What is known of a thread that is at work.
LEMMA BusyIsCalm ==
    ASSUME Setting, NEW h \in Busy
    PROVE  /\ h \in Threads
           /\ work[h] \in Handlers /\ work[h].todo \in Seq(Statement) /\ work[h].todo # <<>>
           /\ Current(h) = work[h].todo[1] /\ Current(h) \in Statement
           /\ Len(work[h].todo) \in Nat \ {0}
           /\ Rest(h) = Tail(work[h].todo) /\ Rest(h) \in Seq(Statement)
           /\ Len(Rest(h)) = Len(work[h].todo) - 1
           /\ \A k \in 1..Len(Rest(h)) : Rest(h)[k] = work[h].todo[k + 1]
           /\ IsCalm(h, work[h], rounds, iters, Approved)
           /\ session # "none"
<1>1. /\ h \in Threads /\ work[h] \in Handlers /\ work[h].todo # <<>>
      /\ Current(h) = work[h].todo[1] /\ Current(h) \in Statement
  BY BusyFits DEF Setting
<1>2. work[h].todo \in Seq(Statement)
  BY <1>1 DEF Handlers
<1>3. IsCalm(h, work[h], rounds, iters, Approved) /\ session # "none"
  BY <1>1 DEF Setting, Calm, CalmThreads
<1>4. /\ Rest(h) = Tail(work[h].todo) /\ Rest(h) \in Seq(Statement)
      /\ Len(work[h].todo) \in Nat \ {0}
      /\ Len(Rest(h)) = Len(work[h].todo) - 1
      /\ \A k \in 1..Len(Rest(h)) : Rest(h)[k] = work[h].todo[k + 1]
  BY <1>1, <1>2 DEF Rest
<1> QED
  BY <1>1, <1>2, <1>3, <1>4

\* What a thread has left when it goes on.
LEMMA GoesOn ==
    ASSUME Setting, NEW h \in Busy, NEW s \in Seq(Statement), Proceed(h, s)
    PROVE  /\ work' = [work EXCEPT ![h] = work'[h]]
           /\ work'[h].todo = s \o Rest(h)
           /\ work'[h].todo # <<>> => work'[h].made = work[h].made
<1> DEFINE q == s \o Rest(h)
           w == [work[h] EXCEPT !.todo = q]
<1>1. h \in Threads /\ work[h] \in Handlers /\ work \in [Threads -> Handlers]
  BY BusyIsCalm, InvTables DEF Setting, Handlers
<1>2. work' = [work EXCEPT ![h] = Resting(w)]
  BY DEF Proceed
<1> HIDE DEF q
<1>3. w.todo = q /\ w.made = work[h].made
  BY <1>1 DEF Handlers
<1> HIDE DEF w
<1>4. work'[h] = Resting(w) /\ work' = [work EXCEPT ![h] = work'[h]]
  BY <1>1, <1>2
<1>5. /\ Resting(w).todo = q
      /\ Resting(w).todo # <<>> => Resting(w).made = work[h].made
  BY <1>3 DEF Resting, Idle
<1> QED
  BY <1>4, <1>5 DEF q

\* A last read leaves what it leads to.
LEMMA LastReadGoesOn ==
    ASSUME Setting, NEW h \in Busy, Current(h).op \in LastReads,
           NEW s, NEW S, s \in Seq(S), Proceed(h, s)
    PROVE  /\ work' = [work EXCEPT ![h] = work'[h]]
           /\ work'[h].todo = s
           /\ work'[h].todo # <<>> => work'[h].made = work[h].made
<1> DEFINE q == s \o Rest(h)
           w == [work[h] EXCEPT !.todo = q]
<1>1. h \in Threads /\ work[h] \in Handlers /\ work \in [Threads -> Handlers]
  BY BusyIsCalm, InvTables DEF Setting, Handlers
<1>2. Rest(h) = <<>>
  BY RestContinues DEF Setting
<1>3. q = s
  BY <1>2
<1>4. work' = [work EXCEPT ![h] = Resting(w)]
  BY DEF Proceed
<1> HIDE DEF q
<1>5. w.todo = q /\ w.made = work[h].made
  BY <1>1 DEF Handlers
<1> HIDE DEF w
<1>6. work'[h] = Resting(w) /\ work' = [work EXCEPT ![h] = work'[h]]
  BY <1>1, <1>4
<1>7. /\ Resting(w).todo = q
      /\ Resting(w).todo # <<>> => Resting(w).made = work[h].made
  BY <1>5 DEF Resting, Idle
<1> QED
  BY <1>3, <1>6, <1>7

\* A handler that begins has its whole list before it.
LEMMA BeginsWith ==
    ASSUME Setting, NEW h \in Threads, NEW s, Begin(h, s)
    PROVE  /\ work' = [work EXCEPT ![h] = work'[h]]
           /\ work'[h].todo = s
           /\ work'[h].todo # <<>> => work'[h].made = New
<1> DEFINE w == [Idle EXCEPT !.todo = s]
<1>1. work \in [Threads -> Handlers]
  BY InvTables DEF Setting, Handlers
<1>2. work' = [work EXCEPT ![h] = Resting(w)] /\ w.todo = s /\ w.made = New
  BY DEF Begin, Idle
<1> HIDE DEF w
<1>3. work'[h] = Resting(w) /\ work' = [work EXCEPT ![h] = work'[h]]
  BY <1>1, <1>2
<1>4. /\ Resting(w).todo = s
      /\ Resting(w).todo # <<>> => Resting(w).made = New
  BY <1>2 DEF Resting, Idle
<1> QED
  BY <1>3, <1>4

\* Reviews and skips that stay leave the approvals as they are.
LEMMA ApprovalsStay ==
    ASSUME Setting, UNCHANGED <<reviews, skipped>>
    PROVE  Approved \subseteq Approved'
<1>1. \A r \in DOMAIN rounds : r \in DOMAIN rounds' /\ rounds'[r].type = rounds[r].type
  BY SettingTables DEF Setting, Grown
<1> QED
  BY <1>1 DEF Approved, RoundsOfType, ExpectedReviewers

-----------------------------------------------------------------------------
(***************************************************************************)
(* Which form a thread is in, by the statement it is at.                   *)
(***************************************************************************)
Elsewise(h) ==
    LET p == work[h].todo
        op == Current(h).op
    IN  \/ Relays(p, rounds, iters) /\ op \in {"record", "advance", "set_round", "number", "insert"}
        \/ Judges(p, rounds) /\ op \in {"maybe_advance", "reconcile"}
        \/ Arbitrates(p, rounds, iters) /\ op \in {"record", "set_round", "ask_reviewers"}
        \/ /\ Reviews(p, rounds, Approved)
           /\ op \in {"tally", "set_round", "execute", "weigh", "mediate"}

BuildsHere(h, type) ==
    /\ type \in RoundTypes
    /\ Builds(work[h], type, rounds, iters, Approved)
    /\ Current(h).op \in {"open_round", "set_round", "number", "insert", "set_session"}
    /\ Current(h).op \in RoundStmts => Current(h).round = New
    /\ h # Loop => type = "same_host_pair"

DoesChores(h) ==
    /\ ChoresOnly(work[h].todo, rounds, iters)
    /\ Harmless(Current(h), rounds, iters)
    /\ h # Loop => Releases(work[h].todo)

LEMMA RelaysAt ==
    ASSUME NEW p, NEW rs \in Seq(Round), NEW t, Relays(p, rs, t)
    PROVE  /\ p[1].op \in {"record", "advance", "set_round", "number", "insert"}
           /\ p[1].op \in RoundStmts => p[1].round # New
<1>1. PICK r \in DOMAIN rs : RelaysIn(p, r, t)
  BY DEF Relays
<1>2. r # New
  BY DEF New
<1> QED
  BY <1>1, <1>2 DEF RelaysIn, RecordStmt, ReadStmt, SetRoundStmt, RoundStmts

LEMMA ArbitratesAt ==
    ASSUME NEW p, NEW rs \in Seq(Round), NEW t, Arbitrates(p, rs, t)
    PROVE  /\ p[1].op \in {"record", "set_round", "ask_reviewers"}
           /\ p[1].op \in RoundStmts => p[1].round # New
<1>1. CASE p = <<ReadStmt("ask_reviewers", Round2Outcome(rs))>>
  BY <1>1 DEF ReadStmt, RoundStmts
<1>2. ASSUME NEW r \in DOMAIN rs, ArbitratesIn(p, r, t)
      PROVE  /\ p[1].op \in {"record", "set_round", "ask_reviewers"}
             /\ p[1].op \in RoundStmts => p[1].round # New
  <2>1. r # New
    BY DEF New
  <2> QED
    BY <1>2, <2>1 DEF ArbitratesIn, RecordStmt, ReadStmt, SetRoundStmt, RoundStmts
<1> QED
  BY <1>1, <1>2 DEF Arbitrates

LEMMA ReviewsAt ==
    ASSUME NEW p, NEW rs \in Seq(Round), NEW ok, Reviews(p, rs, ok)
    PROVE  /\ p[1].op \in {"tally", "set_round", "execute", "weigh", "mediate"}
           /\ p[1].op \in RoundStmts => p[1].round # New
<1>1. ASSUME \/ p = <<ReadStmt("execute", None)>>
             \/ \E op \in {"weigh", "mediate"}, R \in SUBSET Agents : p = <<ReadStmt(op, R)>>
      PROVE  p[1].op \in {"execute", "weigh", "mediate"}
  BY <1>1 DEF ReadStmt
<1>2. ASSUME NEW r \in DOMAIN rs, ReviewsIn(p, r, ok)
      PROVE  /\ p[1].op \in {"tally", "set_round", "execute", "weigh", "mediate"}
             /\ p[1].op \in RoundStmts => p[1].round # New
  <2>1. r # New
    BY DEF New
  <2> QED
    BY <1>2, <2>1 DEF ReviewsIn, ReadStmt, SetRoundStmt, RoundStmts
<1> QED
  BY <1>1, <1>2 DEF Reviews, RoundStmts

\* A statement is that of a chore, of a stage being built, or of a handler of the event loop.
LEMMA Forms ==
    ASSUME Setting, NEW h \in Busy
    PROVE  \/ DoesChores(h)
           \/ h = Loop /\ Elsewise(h) /\ (Current(h).op \in RoundStmts => Current(h).round # New)
           \/ \E type \in RoundTypes : BuildsHere(h, type)
<1> DEFINE p == work[h].todo
<1>1. /\ h \in Threads /\ p \in Seq(Statement) /\ p # <<>> /\ Current(h) = p[1]
      /\ IsCalm(h, work[h], rounds, iters, Approved) /\ 1 \in 1..Len(p)
  BY BusyIsCalm
<1>2. rounds \in Seq(Round)
  BY SettingTables
<1>3. ASSUME ChoresOnly(p, rounds, iters), h # Loop => Releases(p)
      PROVE  DoesChores(h)
  BY <1>1, <1>3 DEF DoesChores, ChoresOnly
<1>4. ASSUME NEW type \in RoundTypes, Builds(work[h], type, rounds, iters, Approved),
             h # Loop => type = "same_host_pair"
      PROVE  BuildsHere(h, type)
  <2>1. StageStmt(p, 1, type, rounds)
    BY <1>1, <1>4 DEF Builds
  <2>2. /\ p[1].op \in {"open_round", "set_round", "number", "insert", "set_session"}
        /\ p[1].op \in RoundStmts => p[1].round = New
    BY <2>1 DEF StageStmt, RoundStmts
  <2> QED
    BY <1>1, <1>4, <2>2 DEF BuildsHere
<1>5. CASE h # Loop
  <2>1. DeskCalm(work[h], rounds, iters, Approved)
    BY <1>1, <1>5 DEF IsCalm
  <2>2. CASE Releases(p)
    <3>1. ChoresOnly(p, rounds, iters)
      BY <2>2 DEF Releases, ChoresOnly, Harmless
    <3> QED
      BY <1>3, <2>2, <3>1
  <2>3. CASE Builds(work[h], "same_host_pair", rounds, iters, Approved)
    BY <1>4, <2>3 DEF RoundTypes
  <2> QED
    BY <2>1, <2>2, <2>3 DEF DeskCalm
<1>6. CASE h = Loop
  <2>1. LoopCalm(work[h], rounds, iters, Approved)
    BY <1>1, <1>6 DEF IsCalm
  <2>2. CASE Judges(p, rounds)
    <3>1. p[1].op \in {"maybe_advance", "reconcile"}
      BY <2>2 DEF Judges, ReadStmt
    <3> QED
      BY <1>1, <1>6, <2>2, <3>1 DEF Elsewise, RoundStmts
  <2>3. CASE Relays(p, rounds, iters)
    BY <1>1, <1>2, <1>6, <2>3, RelaysAt DEF Elsewise
  <2>4. CASE Arbitrates(p, rounds, iters)
    BY <1>1, <1>2, <1>6, <2>4, ArbitratesAt DEF Elsewise
  <2>5. CASE Reviews(p, rounds, Approved)
    BY <1>1, <1>2, <1>6, <2>5, ReviewsAt DEF Elsewise
  <2> QED
    BY <1>3, <1>4, <1>6, <2>1, <2>2, <2>3, <2>4, <2>5 DEF LoopCalm
<1> QED
  BY <1>5, <1>6

-----------------------------------------------------------------------------
(***************************************************************************)
(* Chores.                                                                 *)
(***************************************************************************)
LEMMA ChoresDecideNothing ==
    ASSUME Setting, NEW h, work'[h].todo \in Seq(Statement),
           ChoresOnly(work'[h].todo, rounds, iters), h # Loop => Releases(work'[h].todo)
    PROVE  /\ IsCalm(h, work'[h], rounds', iters', Approved')
           /\ MaySpawn(h)
           /\ FillsItsOwn(h)
<1> DEFINE q == work'[h].todo
<1>1. ChoresOnly(q, rounds', iters')
  BY ChoresStay
<1>2. IsCalm(h, work'[h], rounds', iters', Approved')
  BY <1>1 DEF IsCalm, LoopCalm, DeskCalm
<1>3. ~Spawns(q)
  BY DEF ChoresOnly, Harmless, Spawns, Spawners
<1>4. ~Fills(work'[h])
  <2>1. q # <<>> => 1 \in 1..Len(q)
    OBVIOUS
  <2>2. New \notin DOMAIN rounds
    BY SettingTables DEF New
  <2> QED
    BY <2>1, <2>2 DEF ChoresOnly, Harmless, Fills, RoundStmts
<1> QED
  BY <1>2, <1>3, <1>4 DEF MaySpawn, FillsItsOwn

\* After a chore, or when it is given up, there are only chores left.
LEMMA ChoresGoOn ==
    ASSUME Setting, NEW h \in Busy, DoesChores(h), work'[h].todo = Rest(h) \/ work'[h] = Idle
    PROVE  /\ IsCalm(h, work'[h], rounds', iters', Approved')
           /\ MaySpawn(h)
           /\ FillsItsOwn(h)
<1>1. CASE work'[h].todo = Rest(h)
  <2>1. \A k \in 1..Len(Rest(h)) : k + 1 \in 1..Len(work[h].todo) /\ Rest(h)[k] = work[h].todo[k + 1]
    BY BusyIsCalm
  <2>2. Rest(h) \in Seq(Statement)
    BY BusyIsCalm
  <2>3. ChoresOnly(Rest(h), rounds, iters) /\ (h # Loop => Releases(Rest(h)))
    BY <2>1 DEF DoesChores, ChoresOnly, Releases
  <2> QED
    BY <1>1, <2>2, <2>3, ChoresDecideNothing
<1>2. CASE work'[h] = Idle
  <2>1. /\ work'[h].todo \in Seq(Statement)
        /\ ChoresOnly(work'[h].todo, rounds, iters) /\ Releases(work'[h].todo)
    BY <1>2 DEF Idle, ChoresOnly, Releases
  <2> QED
    BY <2>1, ChoresDecideNothing
<1> QED
  BY <1>1, <1>2

\* ChoresOnly that write neither rounds nor requests.
LEMMA QuietChores ==
    ASSUME Setting, NEW h \in Busy, DoesChores(h),
           UNCHANGED <<rounds, iters, reviews, skipped>>,
           Proceed(h, <<>>) \/ Abandon(h), session' # "none"
    PROVE  CalmStep(h)
<1>1. /\ work' = [work EXCEPT ![h] = work'[h]]
      /\ work'[h].todo = Rest(h) \/ work'[h] = Idle
  <2>1. CASE Proceed(h, <<>>)
    <3>1. <<>> \in Seq(Statement) /\ <<>> \o Rest(h) = Rest(h)
      BY BusyIsCalm
    <3> QED
      BY <2>1, <3>1, GoesOn
  <2>2. CASE Abandon(h)
    BY <2>2, BusyIsCalm, InvTables DEF Abandon, Setting
  <2> QED
    BY <2>1, <2>2
<1> QED
  BY <1>1, ChoresGoOn, QuietKeepsCalm DEF CalmStep

LEMMA CheckKeepsCalm ==
    ASSUME Setting, NEW h \in Busy, Check(h), UNCHANGED tables
    PROVE  CalmStep(h)
<1>1. Current(h).op = "check"
  BY DEF Check, At
<1>2. DoesChores(h)
  BY <1>1, Forms DEF Elsewise, BuildsHere
<1>3. session' # "none" /\ UNCHANGED <<rounds, iters, reviews, skipped>>
  BY BusyIsCalm DEF tables
<1> QED
  BY <1>2, <1>3, QuietChores DEF Check

LEMMA FinalizeKeepsCalm ==
    ASSUME Setting, NEW h \in Busy, Finalize(h)
    PROVE  CalmStep(h)
<1>1. Current(h).op = "finalize"
  BY DEF Finalize, At
<1>2. DoesChores(h)
  BY <1>1, Forms DEF Elsewise, BuildsHere
<1>3. session' # "none" /\ UNCHANGED <<rounds, iters, reviews, skipped>>
  BY BusyIsCalm DEF Finalize
<1> QED
  BY <1>2, <1>3, QuietChores DEF Finalize

\* Nobody holds the list of skipped reviewers, or a round the operator closes.
LEMMA NoOverrideStatement ==
    ASSUME Setting, NEW h \in Busy
    PROVE  Current(h).op \notin {"write_skips", "close", "arbitrate"}
BY Forms DEF Elsewise, BuildsHere, DoesChores, Harmless

\* A request is rewritten and nothing else.
RewritesRequest(h) ==
    /\ UNCHANGED <<session, rounds, reviews, skipped>>
    /\ DOMAIN iters' = DOMAIN iters
    /\ \A i \in DOMAIN iters :
           /\ iters'[i].round = iters[i].round /\ iters'[i].num = iters[i].num
           /\ iters'[i].src = iters[i].src /\ iters'[i].dst = iters[i].dst
           /\ iters'[i].input = iters[i].input
           /\ iters[i].status = "complete" => iters'[i] = iters[i]
           /\ iters'[i].output # None <=> iters'[i].status = "complete"

\* A request that is sent on or answered in its row keeps the tables in order.
LEMMA RewritingKeepsCalm ==
    ASSUME Setting, NEW h, RewritesRequest(h)
    PROVE  /\ CalmTables(rounds', iters', Approved')
           /\ Approved' = Approved
           /\ Touches(h)
           /\ Outside(h)
<1>1. Approved' = Approved
  BY DEF Approved, ExpectedReviewers, RewritesRequest
<1>2. CalmTables(rounds, iters', Approved)
  <2>1. Tables(rounds, iters) /\ CalmTables(rounds, iters, Approved)
    BY SettingTables DEF Setting, Calm
  <2> QED
    BY <2>1, RewrittenTables DEF RewritesRequest
<1>3. CalmTables(rounds', iters', Approved')
  BY <1>1, <1>2 DEF RewritesRequest
<1>4. Touches(h) /\ Outside(h)
  BY <1>1 DEF Touches, Outside, RewritesRequest
<1> QED
  BY <1>1, <1>3, <1>4

LEMMA ReleaseRewrites ==
    ASSUME Setting, NEW h \in Busy, Release(h)
    PROVE  RewritesRequest(h)
<1> DEFINE i == RequestOf(h)
<1>1. /\ Current(h).op = "release"
      /\ iters' = [iters EXCEPT ![i].status = "awaiting_destination", ![i].nudged = Current(h).nudged]
      /\ UNCHANGED <<session, rounds, reviews, skipped, finalized>>
  BY DEF Release, At
<1>2. i \in DOMAIN iters /\ iters[i].status = "awaiting_nudge"
  BY <1>1, AtReady DEF Setting, RequestStmts
<1> HIDE DEF i
<1>3. \A j \in DOMAIN iters :
          iters[j] \in Iteration /\ (iters[j].output # None <=> iters[j].status = "complete")
  BY SettingTables DEF Setting, Calm, CalmTables, AnswersTell
<1>4. DOMAIN iters' = DOMAIN iters /\ \A j \in DOMAIN iters : j # i => iters'[j] = iters[j]
  BY <1>1
<1>5. /\ iters'[i].round = iters[i].round /\ iters'[i].num = iters[i].num
      /\ iters'[i].src = iters[i].src /\ iters'[i].dst = iters[i].dst
      /\ iters'[i].input = iters[i].input /\ iters'[i].output = iters[i].output
      /\ iters'[i].status = "awaiting_destination"
  BY <1>1, <1>2, <1>3 DEF Iteration
<1> QED
  BY <1>1, <1>2, <1>3, <1>4, <1>5 DEF RewritesRequest

LEMMA RecordRewrites ==
    ASSUME Setting, NEW h \in Busy, Record(h)
    PROVE  /\ RewritesRequest(h)
           /\ RequestOf(h) \in DOMAIN iters
           /\ iters[RequestOf(h)].status = "awaiting_destination"
           /\ iters'[RequestOf(h)].status = "complete"
<1> DEFINE i == RequestOf(h)
<1>1. /\ Current(h).op = "record"
      /\ iters' = Respond(iters, i, Current(h).output, Current(h).assess)
      /\ UNCHANGED <<session, rounds, reviews, skipped, finalized>>
  BY DEF Record, At
<1>2. i \in DOMAIN iters /\ iters[i].status = "awaiting_destination"
  BY <1>1, AtReady DEF Setting, RequestStmts
<1>3. Current(h).output # None
  BY <1>1, BusyIsCalm, WriteFields, RegistryAssumption
<1> HIDE DEF i
<1>4. \A j \in DOMAIN iters :
          iters[j] \in Iteration /\ (iters[j].output # None <=> iters[j].status = "complete")
  BY SettingTables DEF Setting, Calm, CalmTables, AnswersTell
<1>5. DOMAIN iters' = DOMAIN iters /\ \A j \in DOMAIN iters : j # i => iters'[j] = iters[j]
  BY <1>1 DEF Respond
<1>6. /\ iters'[i].round = iters[i].round /\ iters'[i].num = iters[i].num
      /\ iters'[i].src = iters[i].src /\ iters'[i].dst = iters[i].dst
      /\ iters'[i].input = iters[i].input /\ iters'[i].output # None
      /\ iters'[i].status = "complete"
  BY <1>1, <1>2, <1>3, <1>4 DEF Iteration, Respond
<1> QED
  BY <1>1, <1>2, <1>4, <1>5, <1>6 DEF RewritesRequest, i

LEMMA ReleaseKeepsCalm ==
    ASSUME Setting, NEW h \in Busy, Release(h)
    PROVE  CalmStep(h)
<1>1. Current(h).op = "release"
  BY DEF Release, At
<1>2. DoesChores(h)
  BY <1>1, Forms DEF Elsewise, BuildsHere
<1>3. session' # "none" /\ Proceed(h, <<>>)
  BY BusyIsCalm DEF Release
<1>4. <<>> \in Seq(Statement) /\ <<>> \o Rest(h) = Rest(h)
  BY BusyIsCalm
<1>5. work' = [work EXCEPT ![h] = work'[h]] /\ work'[h].todo = Rest(h)
  BY <1>3, <1>4, GoesOn
<1> QED
  BY <1>2, <1>3, <1>5, ReleaseRewrites, RewritingKeepsCalm, ChoresGoOn DEF CalmStep

\* The answer a pair was waiting for completes its requests.
LEMMA PairIsAnswered ==
    ASSUME Setting, NEW h, RewritesRequest(h), NEW i \in DOMAIN iters,
           iters[i].status # "complete", iters'[i].status = "complete",
           IsPair(rounds, iters[i].round) \/ IsArbitration(rounds, iters[i].round)
    PROVE  AllAnswered(iters', iters[i].round)
<1> DEFINE r == iters[i].round
<1>1. IterationsOf(iters', r) = IterationsOf(iters, r)
  BY DEF IterationsOf, RewritesRequest
<1>2. i \in IterationsOf(iters, r)
  BY DEF IterationsOf
<1>3. ASSUME NEW j \in IterationsOf(iters, r)
      PROVE  iters'[j].status = "complete"
  <2>1. j \in DOMAIN iters /\ iters[j].round = iters[i].round
    BY <1>3 DEF IterationsOf
  <2>2. CASE j = i
    BY <2>2
  <2>3. CASE j # i
    <3>1. iters[j].status = "complete"
      BY <2>1, <2>3 DEF Setting, Calm, CalmTables, LastIsOpen, OneArbiter
    <3> QED
      BY <2>1, <3>1 DEF RewritesRequest
  <2> QED
    BY <2>2, <2>3
<1> QED
  BY <1>1, <1>2, <1>3 DEF AllAnswered

LEMMA RecordKeepsCalm ==
    ASSUME Setting, NEW h \in Busy, Record(h)
    PROVE  CalmStep(h)
<1> DEFINE p == work[h].todo
           i == RequestOf(h)
<1>1. Current(h).op = "record"
  BY DEF Record, At
<1>2. session' # "none" /\ Proceed(h, <<>>)
  BY BusyIsCalm DEF Record
<1>3. <<>> \in Seq(Statement) /\ <<>> \o Rest(h) = Rest(h)
  BY BusyIsCalm
<1>4. /\ work' = [work EXCEPT ![h] = work'[h]]
      /\ work'[h].todo = Rest(h)
  BY <1>2, <1>3, GoesOn
<1>5. /\ RewritesRequest(h) /\ i \in DOMAIN iters
      /\ iters[i].status = "awaiting_destination" /\ iters'[i].status = "complete"
  BY RecordRewrites
<1>6. /\ CalmTables(rounds', iters', Approved') /\ Touches(h) /\ (h \in Desk => Outside(h))
      /\ rounds' = rounds
  BY <1>5, RewritingKeepsCalm DEF RewritesRequest
<1>7. p[1] = Current(h) /\ Rest(h) = Tail(p)
  BY BusyIsCalm
<1>8. CASE DoesChores(h)
  BY <1>2, <1>4, <1>6, <1>8, ChoresGoOn DEF CalmStep
<1>9. ASSUME h = Loop, Relays(p, rounds, iters)
      PROVE  CalmStep(h)
  <2>1. PICK r \in DOMAIN rounds : IsPair(rounds, r) /\ ~Closed(rounds, r) /\ RelaysIn(p, r, iters)
    BY <1>9 DEF Relays
  <2>2. PICK k \in IterationsOf(iters, r), o \in Texts, a \in Assessments :
            p = <<RecordStmt(k, o, a), ReadStmt("advance", r)>>
    <3>1. p[1].op = "record"
      BY <1>1, <1>7
    <3>2. p # <<ReadStmt("advance", r)>>
      BY <3>1 DEF ReadStmt
    <3>3. \A status, o, x : p # <<SetRoundStmt(r, status, o), x>>
      BY <3>1 DEF SetRoundStmt
    <3> QED
      BY <2>1, <3>1, <3>2, <3>3 DEF RelaysIn
  <2>3. k \in DOMAIN iters /\ iters[k].round = r /\ k # New
    BY SettingTables DEF IterationsOf, New
  <2>4. i = k
    BY <1>7, <2>2, <2>3 DEF RequestOf, RecordStmt
  <2>5. AllAnswered(iters', r)
    BY <1>5, <2>1, <2>3, <2>4, PairIsAnswered
  <2>6. work'[h].todo = <<ReadStmt("advance", r)>>
    BY <1>4, <1>7, <2>2
  <2>7. Relays(work'[h].todo, rounds', iters')
    BY <1>6, <2>1, <2>5, <2>6 DEF Relays, RelaysIn
  <2>8. IsCalm(h, work'[h], rounds', iters', Approved')
    BY <1>9, <2>7 DEF IsCalm, LoopCalm
  <2>9. ~Spawns(work'[h].todo) /\ ~Fills(work'[h])
    BY <2>6 DEF Spawns, Spawners, Fills, RoundStmts, ReadStmt
  <2> QED
    BY <1>2, <1>4, <1>6, <2>8, <2>9 DEF CalmStep, MaySpawn, FillsItsOwn
<1>10. ASSUME h = Loop, Arbitrates(p, rounds, iters)
       PROVE  CalmStep(h)
  <2>1. p # <<ReadStmt("ask_reviewers", Round2Outcome(rounds))>>
    BY <1>1, <1>7 DEF ReadStmt
  <2>2. PICK r \in DOMAIN rounds :
            IsArbitration(rounds, r) /\ ~Closed(rounds, r) /\ ArbitratesIn(p, r, iters)
    BY <1>10, <2>1 DEF Arbitrates
  <2>3. PICK o \in Texts, k \in IterationsOf(iters, r), a \in Assessments :
            p = <<RecordStmt(k, o, a), SetRoundStmt(r, "complete", o),
                  ReadStmt("ask_reviewers", o)>>
    BY <1>1, <1>7, <2>2 DEF ArbitratesIn, SetRoundStmt
  <2>4. k \in DOMAIN iters /\ iters[k].round = r /\ k # New
    BY SettingTables DEF IterationsOf, New
  <2>5. i = k
    BY <1>7, <2>3, <2>4 DEF RequestOf, RecordStmt
  <2>6. AllAnswered(iters', r)
    BY <1>5, <2>2, <2>4, <2>5, PairIsAnswered
  <2>7. work'[h].todo = <<SetRoundStmt(r, "complete", o), ReadStmt("ask_reviewers", o)>>
    BY <1>4, <1>7, <2>3
  <2>8. Arbitrates(work'[h].todo, rounds', iters')
    BY <1>6, <2>2, <2>6, <2>7 DEF Arbitrates, ArbitratesIn
  <2>9. IsCalm(h, work'[h], rounds', iters', Approved')
    BY <1>10, <2>8 DEF IsCalm, LoopCalm
  <2>10. Spawns(p)
    <3>1. 3 \in 1..Len(p) /\ p[3] = ReadStmt("ask_reviewers", o)
      BY <2>3
    <3> QED
      BY <3>1 DEF Spawns, Spawners, ReadStmt
  <2>11. ~Fills(work'[h])
    BY <2>7, SettingTables DEF Fills, SetRoundStmt, New
  <2> QED
    BY <1>2, <1>4, <1>6, <2>9, <2>10, <2>11 DEF CalmStep, MaySpawn, FillsItsOwn
<1> QED
  BY <1>1, <1>8, <1>9, <1>10, Forms DEF Elsewise, BuildsHere

-----------------------------------------------------------------------------
(***************************************************************************)
(* Building.                                                               *)
(***************************************************************************)
\* A list of stage statements stays one without its head; only pairs open
\* another round.
LEMMA BuildingGoesOn ==
    ASSUME Setting, NEW h \in Busy, NEW type, BuildsHere(h, type), work'[h].todo = Rest(h),
           type \notin AnswersOnce => Round2Outcome(rounds') = Round2Outcome(rounds),
           PairOrClosed(rounds) => PairOrClosed(rounds'),
           Fills(work'[h]) =>
               /\ work'[h].made \in DOMAIN rounds' /\ rounds'[work'[h].made].type = type
               /\ ~Closed(rounds', work'[h].made)
               /\ type \in AnswersOnce => IterationsOf(iters', work'[h].made) = {}
    PROVE  /\ IsCalm(h, work'[h], rounds', iters', Approved')
           /\ MaySpawn(h)
<1> DEFINE p == work[h].todo
           q == Rest(h)
           w2 == work'[h]
<1>1. /\ h \in Threads /\ p \in Seq(Statement) /\ q \in Seq(Statement)
      /\ Len(p) \in Nat \ {0} /\ Len(q) = Len(p) - 1
      /\ \A k \in 1..Len(q) : q[k] = p[k + 1]
      /\ Builds(work[h], type, rounds, iters, Approved) /\ type \in RoundTypes
      /\ w2.todo = q
  BY BusyIsCalm DEF BuildsHere
<1> HIDE DEF p, q, w2
<1>2. ASSUME NEW k \in 1..Len(q)
      PROVE  /\ StageStmt(q, k, type, rounds')
             /\ q[k].op = "open_round" => type = "same_host_pair" /\ Opens(p)
  <2>1. k \in Nat /\ k + 1 \in 1..Len(p) /\ q[k] = p[k + 1] /\ k + 1 # 1 /\ k + 1 > 1
        /\ (k + 1) - 1 = k /\ (k > 1 => q[k - 1] = p[k])
    <3>1. /\ k \in Nat /\ k + 1 \in 1..Len(p) /\ k + 1 # 1 /\ k + 1 > 1
          /\ (k + 1) - 1 = k
      BY <1>1
    <3>2. q[k] = p[k + 1]
      BY <1>1
    <3>3. ASSUME k > 1
          PROVE  q[k - 1] = p[k]
      <4>1. k - 1 \in 1..Len(q) /\ (k - 1) + 1 = k
        BY <1>1, <3>3
      <4>2. q[k - 1] = p[(k - 1) + 1]
        BY <1>1, <4>1
      <4> QED
        BY <4>1, <4>2
    <3> QED
      BY <3>1, <3>2, <3>3
  <2>2. StageStmt(p, k + 1, type, rounds)
    BY <1>1, <2>1 DEF Builds, p
  <2>3. q[k].op = "open_round" => q[k].type = type /\ type = "same_host_pair" /\ Opens(p)
    BY <2>1, <2>2 DEF StageStmt, Opens
  <2>4. CASE q[k].op \in {"number", "insert"}
    BY <2>1, <2>2, <2>4 DEF StageStmt
  <2>5. CASE q[k].op \notin {"number", "insert"}
    BY <2>1, <2>2, <2>3, <2>5 DEF StageStmt
  <2> QED
    BY <2>3, <2>4, <2>5
<1>3. Opens(q) => type = "same_host_pair" /\ PairOrClosed(rounds') /\ Spawns(p)
  BY <1>1, <1>2 DEF Opens, Builds, Spawns, Spawners, p
<1>4. Builds(w2, type, rounds', iters', Approved')
  BY <1>1, <1>2, <1>3 DEF Builds, w2
<1>5. IsCalm(h, w2, rounds', iters', Approved')
  BY <1>1, <1>4 DEF IsCalm, LoopCalm, DeskCalm, BuildsHere
<1>6. Spawns(q) => Spawns(p)
  <2> SUFFICES ASSUME NEW k \in 1..Len(q), q[k].op \in Spawners
               PROVE  Spawns(p)
    BY DEF Spawns
  <2>1. StageStmt(q, k, type, rounds')
    BY <1>2
  <2>2. q[k].op = "open_round"
    BY <2>1 DEF StageStmt, Spawners
  <2> QED
    BY <1>3, <2>2 DEF Opens
<1> QED
  BY <1>1, <1>5, <1>6 DEF MaySpawn, p, w2

\* What comes after a statement fills a round only if the statement opened or filled it.
LEMMA FillsAfter ==
    ASSUME Setting, NEW h \in Busy, work'[h].todo = Rest(h), Fills(work'[h])
    PROVE  \/ Current(h).op = "open_round"
           \/ Fills(work[h]) /\ Rest(h)[1].op \in {"set_round", "number"}
<1>1. Rest(h) # <<>> /\ Rest(h)[1].op \in RoundStmts /\ Rest(h)[1].round = New
  BY DEF Fills
<1>2. Follows(Current(h), Rest(h)[1], iters)
  BY <1>1, RestContinues DEF Setting
<1>3. Rest(h)[1].op \in {"set_round", "number"}
  BY <1>1, <1>2 DEF Follows, RoundStmts
<1>4. Current(h).op = "open_round" \/ (Current(h).op \in RoundStmts /\ Current(h).round = New)
  BY <1>1, <1>2, <1>3 DEF Follows
<1> QED
  BY <1>3, <1>4, BusyIsCalm DEF Fills

LEMMA SetSessionKeepsCalm ==
    ASSUME Setting, NEW h \in Busy, SetSession(h)
    PROVE  CalmStep(h)
<1>1. Current(h).op = "set_session" /\ session' = Current(h).status /\ Proceed(h, <<>>)
  BY DEF SetSession, At
<1>2. UNCHANGED <<rounds, iters, reviews, skipped>>
  BY DEF SetSession
<1>3. CASE DoesChores(h)
  <2>1. session' # "none"
    BY <1>1, <1>3 DEF DoesChores, Harmless
  <2> QED
    BY <1>1, <1>2, <1>3, <2>1, QuietChores
<1>4. ASSUME NEW type \in RoundTypes, BuildsHere(h, type)
      PROVE  CalmStep(h)
  <2>1. session' # "none"
    <3>1. 1 \in 1..Len(work[h].todo) /\ work[h].todo[1] = Current(h)
      BY BusyIsCalm
    <3>2. StageStmt(work[h].todo, 1, type, rounds)
      BY <1>4, <3>1 DEF BuildsHere, Builds
    <3> QED
      BY <1>1, <3>1, <3>2 DEF StageStmt
  <2>2. <<>> \in Seq(Statement) /\ <<>> \o Rest(h) = Rest(h)
    BY BusyIsCalm
  <2>3. work' = [work EXCEPT ![h] = work'[h]] /\ work'[h].todo = Rest(h)
    BY <1>1, <2>2, GoesOn
  <2>4. ~Fills(work'[h])
    <3>1. Current(h) = work[h].todo[1]
      BY BusyIsCalm
    <3>2. ~Fills(work[h])
      BY <1>1, <3>1 DEF Fills, RoundStmts
    <3> QED
      BY <1>1, <2>3, <3>2, FillsAfter
  <2>5. IsCalm(h, work'[h], rounds', iters', Approved') /\ MaySpawn(h)
    BY <1>2, <1>4, <2>3, <2>4, BuildingGoesOn
  <2> QED
    BY <1>2, <2>1, <2>3, <2>4, <2>5, QuietKeepsCalm DEF CalmStep, FillsItsOwn
<1> QED
  BY <1>1, <1>3, <1>4, Forms DEF Elsewise

LEMMA OpenRoundKeepsCalm ==
    ASSUME Setting, NEW h \in Busy, OpenRound(h)
    PROVE  CalmStep(h)
<1> DEFINE p == work[h].todo
           rd == [NewRound(Current(h).type, Current(h).host) EXCEPT !.status = "pending"]
           n == Len(rounds)
           w == [work[h] EXCEPT !.todo = Rest(h), !.made = n + 1]
<1>1. /\ Current(h).op = "open_round" /\ rounds' = Append(rounds, rd)
      /\ work' = [work EXCEPT ![h] = Resting(w)]
      /\ UNCHANGED <<session, iters, reviews, skipped>>
  BY DEF OpenRound, At
<1>2. PICK type \in RoundTypes : BuildsHere(h, type)
  BY <1>1, Forms DEF Elsewise, DoesChores, Harmless
<1>3. /\ h \in Threads /\ work[h] \in Handlers /\ p \in Seq(Statement) /\ 1 \in 1..Len(p)
      /\ p[1] = Current(h) /\ Current(h) \in Statement
      /\ work \in [Threads -> Handlers] /\ session # "none"
  BY BusyIsCalm, InvTables DEF Setting, Handlers
<1>4. StageStmt(p, 1, type, rounds) /\ Opens(p)
  BY <1>1, <1>2, <1>3 DEF BuildsHere, Builds, Opens
<1>5. Current(h).type = type
  BY <1>1, <1>3, <1>4 DEF StageStmt
<1>6. /\ IF type = "same_host_pair" THEN PairOrClosed(rounds) ELSE AllClosed(rounds)
      /\ type = "execute" => n \in Approved
  BY <1>2, <1>4 DEF BuildsHere, Builds
<1>7. rd \in Round /\ rd.status = "pending" /\ rd.type = type
  <2>1. Current(h).host \in Hosts \cup {None}
    BY <1>1, <1>3, OpenRoundFields
  <2> QED
    BY <1>5, <2>1 DEF NewRound, Round, RoundStatuses
<1> HIDE DEF rd
<1>8. Approved \subseteq Approved'
  BY <1>1, ApprovalsStay
<1>9. Tables(rounds, iters) /\ CalmTables(rounds, iters, Approved) /\ rounds \in Seq(Round)
      /\ n \in Nat /\ DOMAIN rounds = 1..n
  BY SettingTables DEF Setting, Calm
<1>10. CalmTables(Append(rounds, rd), iters, Approved')
  BY <1>6, <1>7, <1>8, <1>9, OpenedTables
<1>11. CalmTables(rounds', iters', Approved')
  BY <1>1, <1>10
<1>12. /\ DOMAIN rounds' = 1..(n + 1) /\ rounds'[n + 1] = rd
       /\ \A r \in DOMAIN rounds : rounds'[r] = rounds[r]
  BY <1>1, <1>7, <1>9
<1>13. /\ w.todo = Rest(h) /\ w.made = n + 1
  BY <1>3 DEF Handlers
<1> HIDE DEF w
<1>14. /\ work' = [work EXCEPT ![h] = work'[h]] /\ work'[h].todo = Rest(h)
       /\ work'[h].todo # <<>> => work'[h].made = n + 1
  <2>1. work'[h] = Resting(w) /\ work' = [work EXCEPT ![h] = work'[h]]
    BY <1>1, <1>3
  <2> QED
    BY <1>13, <2>1 DEF Resting, Idle
<1> HIDE DEF n
<1>15. ASSUME type = "same_host_pair", PairOrClosed(rounds)
       PROVE  PairOrClosed(rounds')
  <2> SUFFICES ASSUME NEW q \in DOMAIN rounds'
               PROVE  IsPair(rounds', q) \/ Closed(rounds', q)
    BY DEF PairOrClosed
  <2>1. CASE q \in DOMAIN rounds
    BY <1>12, <1>15, <2>1, SettingTypes DEF PairOrClosed
  <2>2. CASE q = n + 1
    BY <1>7, <1>12, <1>15, <2>2 DEF IsPair
  <2> QED
    BY <1>9, <1>12, <2>1, <2>2
<1>16. /\ n + 1 \in DOMAIN rounds' /\ rounds'[n + 1].type = type
       /\ ~Closed(rounds', n + 1) /\ IterationsOf(iters', n + 1) = {}
  <2>1. n + 1 \in DOMAIN rounds' /\ n + 1 \notin DOMAIN rounds
    BY <1>9, <1>12
  <2>2. ~Closed(rounds', n + 1)
    BY <1>7, <1>12 DEF Closed
  <2>3. IterationsOf(iters', n + 1) = {}
    BY <1>1, <2>1, SettingTables DEF IterationsOf
  <2> QED
    BY <1>7, <1>12, <2>1, <2>2, <2>3
<1>17. type \notin AnswersOnce => Round2Outcome(rounds') = Round2Outcome(rounds)
  <2> SUFFICES ASSUME type \notin AnswersOnce
               PROVE  Round2Outcome(rounds') = Round2Outcome(rounds)
    OBVIOUS
  <2>1. RoundsOfType(rounds', "cross_host_arbitration") = RoundsOfType(rounds, "cross_host_arbitration")
    BY <1>7, <1>9, <1>12 DEF RoundsOfType, AnswersOnce
  <2>2. \A r \in RoundsOfType(rounds, "cross_host_arbitration") : rounds'[r].outcome = rounds[r].outcome
    BY <1>12 DEF RoundsOfType
  <2> QED
    BY <1>9, <2>1, <2>2, SameSynthesis
<1>18. /\ IsCalm(h, work'[h], rounds', iters', Approved')
       /\ MaySpawn(h)
  <2>1. CASE type = "same_host_pair"
    BY <1>2, <1>14, <1>15, <1>16, <1>17, <2>1, BuildingGoesOn DEF Fills
  <2>2. CASE type # "same_host_pair"
    <3> DEFINE q == Rest(h)
               w2 == work'[h]
    <3>1. /\ q \in Seq(Statement) /\ Len(p) \in Nat /\ Len(q) = Len(p) - 1 /\ Len(q) \in Nat
          /\ \A k \in 1..Len(q) : q[k] = p[k + 1]
      BY BusyIsCalm
    <3> HIDE DEF p, q
    <3>2. ASSUME NEW k \in 1..Len(q)
          PROVE  StageStmt(q, k, type, rounds') /\ q[k].op \notin Spawners
      <4>1. k \in Nat /\ k + 1 \in 1..Len(p) /\ q[k] = p[k + 1] /\ k + 1 # 1 /\ k + 1 > 1
            /\ (k + 1) - 1 = k /\ (k > 1 => q[k - 1] = p[k])
        <5>1. /\ k \in Nat /\ k + 1 \in 1..Len(p) /\ k + 1 # 1 /\ k + 1 > 1
              /\ (k + 1) - 1 = k
          BY <3>1
        <5>2. q[k] = p[k + 1]
          BY <3>1
        <5>3. ASSUME k > 1
              PROVE  q[k - 1] = p[k]
          <6>1. k - 1 \in 1..Len(q) /\ (k - 1) + 1 = k
            BY <3>1, <5>3
          <6>2. q[k - 1] = p[(k - 1) + 1]
            BY <3>1, <6>1
          <6> QED
            BY <6>1, <6>2
        <5> QED
          BY <5>1, <5>2, <5>3
      <4>2. StageStmt(p, k + 1, type, rounds)
        BY <1>2, <4>1 DEF BuildsHere, Builds, p
      <4> QED
        BY <1>17, <2>2, <4>1, <4>2 DEF StageStmt, Spawners
    <3>3. ~Opens(q) /\ ~Spawns(q)
      BY <3>2 DEF Opens, Spawns, Spawners
    <3>4. w2.todo = q
      BY <1>14 DEF q
    <3>5. Builds(w2, type, rounds', iters', Approved')
      BY <1>14, <1>16, <3>2, <3>3, <3>4 DEF Builds, Fills
    <3> QED
      BY <1>2, <3>3, <3>4, <3>5 DEF IsCalm, LoopCalm, DeskCalm, BuildsHere, MaySpawn
  <2> QED
    BY <2>1, <2>2
<1>19. Touches(h)
  BY <1>1, <1>4, <1>12 DEF Touches
<1>20. h \in Desk => Outside(h)
  <2> SUFFICES ASSUME h \in Desk
               PROVE  Outside(h)
    OBVIOUS
  <2>1. h # Loop
    BY ThreadAssumption
  <2>2. type = "same_host_pair"
    BY <1>2, <2>1 DEF BuildsHere
  <2>3. \A r \in DOMAIN rounds' \ DOMAIN rounds : IsPair(rounds', r)
    BY <1>7, <1>9, <1>12, <2>2 DEF IsPair
  <2> QED
    BY <1>1, <1>8, <1>12, <2>3 DEF Outside
<1>21. FillsItsOwn(h)
  BY <1>14 DEF FillsItsOwn, Fills, n
<1> QED
  BY <1>1, <1>3, <1>11, <1>14, <1>18, <1>19, <1>20, <1>21 DEF CalmStep

-----------------------------------------------------------------------------
(***************************************************************************)
(* A round is set.                                                         *)
(***************************************************************************)
LEMMA SetRoundDoes ==
    ASSUME Setting, NEW h \in Busy, SetRound(h)
    PROVE  /\ RoundOf(h) \in DOMAIN rounds
           /\ DOMAIN rounds' = DOMAIN rounds /\ Len(rounds') = Len(rounds)
           /\ \A q \in DOMAIN rounds : q # RoundOf(h) => rounds'[q] = rounds[q]
           /\ rounds'[RoundOf(h)].type = rounds[RoundOf(h)].type
           /\ rounds'[RoundOf(h)].status = Current(h).status
           /\ rounds'[RoundOf(h)].outcome =
                  IF Current(h).outcome = None THEN rounds[RoundOf(h)].outcome
                  ELSE Current(h).outcome
           /\ Approved' = Approved
           /\ UNCHANGED <<session, iters, reviews, skipped>>
           /\ session' # "none"
           /\ work' = [work EXCEPT ![h] = work'[h]]
           /\ work'[h].todo = Rest(h)
           /\ work'[h].todo # <<>> => work'[h].made = work[h].made
<1> DEFINE r == RoundOf(h)
<1>1. /\ Current(h).op = "set_round"
      /\ rounds' = UpdateRound(rounds, r, Current(h).status, Current(h).outcome)
      /\ Proceed(h, <<>>)
      /\ UNCHANGED <<session, iters, reviews, skipped>>
  BY DEF SetRound, At
<1>2. r \in DOMAIN rounds
  BY <1>1, AtReady DEF Setting, RoundStmts
<1>3. rounds \in Seq(Round) /\ Len(rounds) \in Nat /\ DOMAIN rounds = 1..Len(rounds)
      /\ Len(rounds') \in Nat /\ DOMAIN rounds' = 1..Len(rounds')
  BY SettingTables
<1>4. \A q \in DOMAIN rounds : rounds[q] \in Round
  BY <1>3
<1> HIDE DEF r
<1>5. /\ DOMAIN rounds' = DOMAIN rounds
      /\ \A q \in DOMAIN rounds : q # r => rounds'[q] = rounds[q]
      /\ rounds'[r].type = rounds[r].type /\ rounds'[r].status = Current(h).status
      /\ rounds'[r].outcome = IF Current(h).outcome = None THEN rounds[r].outcome
                              ELSE Current(h).outcome
  BY <1>1, <1>2, <1>4 DEF UpdateRound, Round
<1>6. Len(rounds') = Len(rounds)
  <2>1. r \in 1..Len(rounds) /\ r \in 1..Len(rounds')
    BY <1>2, <1>3, <1>5
  <2>2. Len(rounds) \in 1..Len(rounds) /\ Len(rounds') \in 1..Len(rounds')
    BY <1>3, <2>1
  <2>3. Len(rounds) \in 1..Len(rounds') /\ Len(rounds') \in 1..Len(rounds)
    BY <1>3, <1>5, <2>2
  <2>4. \A a, b \in Nat : a \in 1..b /\ b \in 1..a => a = b
    OBVIOUS
  <2> QED
    BY <1>3, <2>3, <2>4, Zenon
<1>7. Approved' = Approved
  <2>1. RoundsOfType(rounds', "multi_agent_review") = RoundsOfType(rounds, "multi_agent_review")
    BY <1>2, <1>5 DEF RoundsOfType
  <2>2. reviews' = reviews /\ skipped' = skipped
    BY <1>1
  <2> QED
    BY <2>1, <2>2, Zenon DEF Approved, ExpectedReviewers
<1>8. <<>> \in Seq(Statement) /\ <<>> \o Rest(h) = Rest(h) /\ session # "none"
  BY BusyIsCalm
<1>9. /\ work' = [work EXCEPT ![h] = work'[h]] /\ work'[h].todo = Rest(h)
      /\ work'[h].todo # <<>> => work'[h].made = work[h].made
  BY <1>1, <1>8, GoesOn
<1> QED
  BY <1>1, <1>2, <1>5, <1>6, <1>7, <1>8, <1>9 DEF r

\* Closing a round that has all its answers keeps the tables in order.
LEMMA SetRoundKeepsTables ==
    ASSUME Setting, NEW h \in Busy, SetRound(h),
           ~Closed(rounds, RoundOf(h)), Mine(h, RoundOf(h)),
           Closed(rounds', RoundOf(h)) /\ ~IsReview(rounds, RoundOf(h)) =>
               \A i \in IterationsOf(iters, RoundOf(h)) : iters[i].status = "complete",
           h \in Desk => Fills(work[h]) /\ RoundOf(h) = work[h].made
    PROVE  /\ CalmTables(rounds', iters', Approved')
           /\ Touches(h)
           /\ h \in Desk => Outside(h)
<1> DEFINE r == RoundOf(h)
<1>1. /\ r \in DOMAIN rounds
      /\ DOMAIN rounds' = DOMAIN rounds /\ Len(rounds') = Len(rounds)
      /\ \A q \in DOMAIN rounds : q # r => rounds'[q] = rounds[q]
      /\ Approved' = Approved /\ iters' = iters
  BY SetRoundDoes
<1>2. rounds' = UpdateRound(rounds, r, Current(h).status, Current(h).outcome)
  BY DEF SetRound
<1>3. Tables(rounds, iters) /\ CalmTables(rounds, iters, Approved)
  BY SettingTables DEF Setting, Calm
<1>4. CalmTables(UpdateRound(rounds, r, Current(h).status, Current(h).outcome), iters, Approved)
  BY <1>1, <1>2, <1>3, SetTables
<1>5. CalmTables(rounds', iters', Approved')
  BY <1>1, <1>2, <1>4
<1>6. Touches(h)
  BY <1>1 DEF Touches
<1>7. h \in Desk => Outside(h)
  BY <1>1 DEF Outside
<1> QED
  BY <1>5, <1>6, <1>7

\* A chore: the round of an execution.
LEMMA SetExecutionKeepsCalm ==
    ASSUME Setting, NEW h \in Busy, SetRound(h), DoesChores(h)
    PROVE  CalmStep(h)
<1> DEFINE r == RoundOf(h)
<1>1. /\ Current(h).op = "set_round" /\ r \in DOMAIN rounds /\ IsExecution(rounds, r)
      /\ Current(h).round # New
  <2>1. Current(h).op = "set_round"
    BY DEF SetRound, At
  <2>2. Current(h).round \in DOMAIN rounds /\ IsExecution(rounds, Current(h).round)
    BY <2>1 DEF DoesChores, Harmless
  <2>3. Current(h).round # New
    BY <2>2, SettingTables DEF New
  <2> QED
    BY <2>1, <2>2, <2>3 DEF RoundOf
<1>2. ~Closed(rounds, r) /\ ~Closed(rounds', r) /\ ~IsPair(rounds, r)
  BY <1>1, SettingTypes DEF Closed, IsPair, IsArbitration, IsReview, IsExecution
<1>3. h \notin Desk
  <2> SUFFICES ASSUME h \in Desk
               PROVE  FALSE
    OBVIOUS
  <2>1. h # Loop /\ 1 \in 1..Len(work[h].todo) /\ work[h].todo[1] = Current(h)
    BY ThreadAssumption, BusyIsCalm
  <2> QED
    BY <1>1, <2>1 DEF DoesChores, Releases
<1>4. CalmTables(rounds', iters', Approved') /\ Touches(h)
  BY <1>2, <1>3, SetRoundKeepsTables DEF Mine
<1> QED
  BY <1>3, <1>4, SetRoundDoes, ChoresGoOn DEF CalmStep

\* The round that was just opened.
LEMMA SetNewKeepsCalm ==
    ASSUME Setting, NEW h \in Busy, SetRound(h), NEW type, BuildsHere(h, type)
    PROVE  CalmStep(h)
<1> DEFINE r == RoundOf(h)
<1>1. Current(h).op = "set_round" /\ Current(h).round = New /\ r = work[h].made
  BY DEF SetRound, At, BuildsHere, RoundStmts, RoundOf
<1>2. /\ 1 \in 1..Len(work[h].todo) /\ work[h].todo[1] = Current(h) /\ work[h].todo # <<>>
  BY BusyIsCalm
<1>3. Fills(work[h])
  BY <1>1, <1>2 DEF Fills, RoundStmts
<1>4. /\ r \in DOMAIN rounds /\ rounds[r].type = type /\ ~Closed(rounds, r)
      /\ type \in AnswersOnce => IterationsOf(iters, r) = {}
  BY <1>1, <1>3 DEF BuildsHere, Builds
<1>5. Current(h).status = "in_progress" /\ Current(h).outcome = None
  BY <1>1, <1>2 DEF BuildsHere, Builds, StageStmt
<1> HIDE DEF r
<1>6. /\ DOMAIN rounds' = DOMAIN rounds
      /\ \A q \in DOMAIN rounds : q # r => rounds'[q] = rounds[q]
      /\ rounds'[r].type = rounds[r].type
      /\ rounds'[r].status = "in_progress" /\ rounds'[r].outcome = rounds[r].outcome
      /\ iters' = iters /\ work'[h].todo = Rest(h)
      /\ work'[h].todo # <<>> => work'[h].made = work[h].made
  BY <1>5, SetRoundDoes DEF r
<1>7. ~Closed(rounds', r)
  BY <1>6 DEF Closed
<1>8. /\ CalmTables(rounds', iters', Approved') /\ Touches(h)
      /\ h \in Desk => Outside(h)
  BY <1>1, <1>3, <1>4, <1>7, SetRoundKeepsTables DEF Mine, r
<1>9. Round2Outcome(rounds') = Round2Outcome(rounds)
  <2>1. RoundsOfType(rounds', "cross_host_arbitration") = RoundsOfType(rounds, "cross_host_arbitration")
    BY <1>4, <1>6 DEF RoundsOfType
  <2>2. \A q \in RoundsOfType(rounds, "cross_host_arbitration") : rounds'[q].outcome = rounds[q].outcome
    BY <1>6 DEF RoundsOfType
  <2>3. rounds \in Seq(Round)
    BY SettingTables
  <2> QED
    BY <2>1, <2>2, <2>3, SameSynthesis
<1>10. PairOrClosed(rounds) => PairOrClosed(rounds')
  <2> SUFFICES ASSUME PairOrClosed(rounds), NEW q \in DOMAIN rounds
               PROVE  IsPair(rounds', q) \/ Closed(rounds', q)
    BY <1>6 DEF PairOrClosed
  <2>1. IsPair(rounds, q) \/ Closed(rounds, q)
    BY DEF PairOrClosed
  <2> QED
    BY <1>4, <1>6, <2>1, SettingTypes
<1>11. Fills(work'[h]) =>
           /\ work'[h].made \in DOMAIN rounds' /\ rounds'[work'[h].made].type = type
           /\ ~Closed(rounds', work'[h].made)
           /\ type \in AnswersOnce => IterationsOf(iters', work'[h].made) = {}
  BY <1>1, <1>4, <1>6, <1>7 DEF Fills
<1>12. IsCalm(h, work'[h], rounds', iters', Approved') /\ MaySpawn(h)
  BY <1>6, <1>9, <1>10, <1>11, BuildingGoesOn
<1>13. FillsItsOwn(h)
  BY <1>3, <1>6 DEF FillsItsOwn, Fills
<1> QED
  BY <1>8, <1>12, <1>13, SetRoundDoes DEF CalmStep

LEMMA SetPairKeepsCalm ==
    ASSUME Setting, NEW h \in Busy, SetRound(h), h = Loop, Relays(work[h].todo, rounds, iters)
    PROVE  CalmStep(h)
<1> DEFINE p == work[h].todo
<1>1. PICK r \in DOMAIN rounds : IsPair(rounds, r) /\ ~Closed(rounds, r) /\ RelaysIn(p, r, iters)
  BY DEF Relays
<1>2. p[1].op = "set_round" /\ p[1] = Current(h) /\ Rest(h) = Tail(p)
  BY BusyIsCalm DEF SetRound, At
<1>3. /\ AllAnswered(iters, r)
      /\ \/ p = <<SetRoundStmt(r, "escalated", None), SetSessionStmt("escalated")>>
         \/ \E o \in Texts :
                p = <<SetRoundStmt(r, "converged", o), ReadStmt("maybe_advance", None)>>
  <2>1. \A k, o, a : p # <<RecordStmt(k, o, a), ReadStmt("advance", r)>>
    BY <1>2 DEF RecordStmt
  <2>2. p # <<ReadStmt("advance", r)>>
    BY <1>2 DEF ReadStmt
  <2> QED
    BY <1>1, <1>2, <2>1, <2>2 DEF RelaysIn
<1>4. RoundOf(h) = r
  <2>1. \E status, o : p[1] = SetRoundStmt(r, status, o)
    BY <1>3
  <2>2. Current(h).round = r
    BY <1>2, <2>1 DEF SetRoundStmt
  <2>3. r # New
    BY SettingTables DEF New
  <2> QED
    BY <2>2, <2>3 DEF RoundOf
<1>5. /\ Mine(h, r)
      /\ \A i \in IterationsOf(iters, r) : iters[i].status = "complete"
      /\ h \notin Desk
  BY <1>3, ThreadAssumption DEF Mine, AllAnswered
<1>6. CalmTables(rounds', iters', Approved') /\ Touches(h)
  BY <1>1, <1>4, <1>5, SetRoundKeepsTables
<1>7. CASE p = <<SetRoundStmt(r, "escalated", None), SetSessionStmt("escalated")>>
  <2>1. work'[h].todo = <<SetSessionStmt("escalated")>>
    BY <1>2, <1>7, SetRoundDoes
  <2>2. SetSessionStmt("escalated") \in Statement
    BY SessionStatements DEF SessionStatuses
  <2>3. Harmless(SetSessionStmt("escalated"), rounds, iters)
    BY DEF Harmless, SetSessionStmt
  <2> DEFINE s == SetSessionStmt("escalated")
  <2> HIDE DEF s
  <2>4. work'[h].todo \in Seq(Statement) /\ ChoresOnly(work'[h].todo, rounds, iters)
    <3>1. work'[h].todo = <<s>> /\ s \in Statement /\ Harmless(s, rounds, iters)
      BY <2>1, <2>2, <2>3 DEF s
    <3> QED
      BY <3>1 DEF ChoresOnly
  <2> QED
    BY <1>5, <1>6, <2>4, SetRoundDoes, ChoresDecideNothing DEF CalmStep
<1>8. ASSUME NEW o \in Texts,
             p = <<SetRoundStmt(r, "converged", o), ReadStmt("maybe_advance", None)>>
      PROVE  CalmStep(h)
  <2>1. work'[h].todo = <<ReadStmt("maybe_advance", None)>>
    BY <1>2, <1>8, SetRoundDoes
  <2>2. PairOrClosed(rounds')
    <3> SUFFICES ASSUME NEW q \in DOMAIN rounds
                 PROVE  IsPair(rounds', q) \/ Closed(rounds', q)
      BY SetRoundDoes DEF PairOrClosed
    <3>1. CASE q = r
      BY <1>1, <3>1, SettingTypes
    <3>2. CASE q # r
      <4>1. r \in Nat /\ q \in Nat
        BY SettingTables
      <4>2. q < r \/ r < q
        BY <3>2, <4>1
      <4>3. IsPair(rounds, q) \/ Closed(rounds, q)
        BY <1>1, <4>2 DEF Setting, Calm, CalmTables, InOrder
      <4>4. rounds'[q] = rounds[q]
        BY <1>4, <3>2, SetRoundDoes
      <4> QED
        BY <4>3, <4>4, SettingTypes
    <3> QED
      BY <3>1, <3>2
  <2>3. Judges(work'[h].todo, rounds')
    BY <2>1, <2>2 DEF Judges
  <2>4. IsCalm(h, work'[h], rounds', iters', Approved')
    BY <2>3 DEF IsCalm, LoopCalm
  <2>5. ~Spawns(work'[h].todo) /\ ~Fills(work'[h])
    BY <2>1 DEF Spawns, Spawners, Fills, RoundStmts, ReadStmt
  <2> QED
    BY <1>5, <1>6, <2>4, <2>5, SetRoundDoes DEF CalmStep, MaySpawn, FillsItsOwn
<1> QED
  BY <1>3, <1>7, <1>8

\* The last round closes: every round is closed.
LEMMA LastCloses ==
    ASSUME Setting, NEW h \in Busy, SetRound(h), NEW r \in DOMAIN rounds, RoundOf(h) = r,
           ~IsPair(rounds, r), ~Closed(rounds, r), Closed(rounds', r)
    PROVE  r = Len(rounds') /\ AllClosed(rounds')
<1>1. rounds \in Seq(Round) /\ InOrder(rounds)
  BY SettingTables DEF Setting, Calm, CalmTables
<1>2. r = Len(rounds) /\ \A q \in DOMAIN rounds : q # r => Closed(rounds, q)
  BY <1>1, OpenIsLast
<1>3. ASSUME NEW q \in DOMAIN rounds
      PROVE  Closed(rounds', q)
  BY <1>2, SetRoundDoes, SettingTypes
<1> QED
  BY <1>2, <1>3, SetRoundDoes DEF AllClosed

LEMMA SetArbitrationKeepsCalm ==
    ASSUME Setting, NEW h \in Busy, SetRound(h), h = Loop, Arbitrates(work[h].todo, rounds, iters)
    PROVE  CalmStep(h)
<1> DEFINE p == work[h].todo
<1>1. p[1].op = "set_round" /\ p[1] = Current(h) /\ Rest(h) = Tail(p)
  BY BusyIsCalm DEF SetRound, At
<1>2. p # <<ReadStmt("ask_reviewers", Round2Outcome(rounds))>>
  BY <1>1 DEF ReadStmt
<1>3. PICK r \in DOMAIN rounds :
          IsArbitration(rounds, r) /\ ~Closed(rounds, r) /\ ArbitratesIn(p, r, iters)
  BY <1>2 DEF Arbitrates
<1>4. PICK o \in Texts :
          /\ AllAnswered(iters, r)
          /\ p = <<SetRoundStmt(r, "complete", o), ReadStmt("ask_reviewers", o)>>
  <2>1. \A k, o, a, x, y : p # <<RecordStmt(k, o, a), x, y>>
    BY <1>1 DEF RecordStmt
  <2> QED
    BY <1>3, <2>1 DEF ArbitratesIn
<1>5. /\ Current(h).round = r /\ r # New /\ Current(h).status = "complete"
      /\ Current(h).outcome = o /\ o # None
  BY <1>1, <1>4, SettingTables, RegistryAssumption DEF SetRoundStmt, New
<1>6. RoundOf(h) = r
  BY <1>5 DEF RoundOf
<1>7. /\ Mine(h, r) /\ ~IsPair(rounds, r) /\ h \notin Desk
      /\ \A i \in IterationsOf(iters, r) : iters[i].status = "complete"
  BY <1>3, <1>4, ThreadAssumption DEF Mine, AllAnswered, IsPair, IsArbitration
<1>8. CalmTables(rounds', iters', Approved') /\ Touches(h)
  BY <1>3, <1>6, <1>7, SetRoundKeepsTables
<1>9. rounds'[r].status = "complete" /\ rounds'[r].outcome = o /\ IsArbitration(rounds', r)
  BY <1>3, <1>5, <1>6, SetRoundDoes, SettingTypes
<1>10. r = Len(rounds') /\ AllClosed(rounds')
  BY <1>3, <1>6, <1>7, <1>9, LastCloses DEF Closed
<1>11. Round2Outcome(rounds') = o
  <2> DEFINE S == RoundsOfType(rounds', "cross_host_arbitration")
  <2>1. r \in S /\ S \in SUBSET (1..Len(rounds')) /\ Len(rounds') \in Nat
    BY <1>3, <1>9, SettingTables DEF RoundsOfType, IsArbitration
  <2>2. S # {} /\ Latest(S) \in S /\ \A x \in S : x <= Latest(S)
    BY <2>1, LatestIsMember
  <2>3. Latest(S) = r
    BY <1>10, <2>1, <2>2
  <2> QED
    BY <1>9, <2>2, <2>3 DEF Round2Outcome
<1>12. work'[h].todo = <<ReadStmt("ask_reviewers", o)>>
  BY <1>1, <1>4, SetRoundDoes
<1>13. Arbitrates(work'[h].todo, rounds', iters')
  BY <1>10, <1>11, <1>12 DEF Arbitrates
<1>14. IsCalm(h, work'[h], rounds', iters', Approved')
  BY <1>13 DEF IsCalm, LoopCalm
<1>15. Spawns(p)
  <2>1. 2 \in 1..Len(p) /\ p[2] = ReadStmt("ask_reviewers", o)
    BY <1>4
  <2> QED
    BY <2>1 DEF Spawns, Spawners, ReadStmt
<1>16. ~Fills(work'[h])
  BY <1>12 DEF Fills, RoundStmts, ReadStmt
<1> QED
  BY <1>7, <1>8, <1>14, <1>15, <1>16, SetRoundDoes DEF CalmStep, MaySpawn, FillsItsOwn

LEMMA SetReviewKeepsCalm ==
    ASSUME Setting, NEW h \in Busy, SetRound(h), h = Loop, Reviews(work[h].todo, rounds, Approved)
    PROVE  CalmStep(h)
<1> DEFINE p == work[h].todo
<1>1. p[1].op = "set_round" /\ p[1] = Current(h) /\ Rest(h) = Tail(p)
  BY BusyIsCalm DEF SetRound, At
<1>2. /\ p # <<ReadStmt("execute", None)>>
      /\ \A op \in {"weigh", "mediate"}, R \in SUBSET Agents : p # <<ReadStmt(op, R)>>
  BY <1>1 DEF ReadStmt
<1>3. PICK r \in DOMAIN rounds :
          IsReview(rounds, r) /\ ~Closed(rounds, r) /\ ReviewsIn(p, r, Approved)
  BY <1>2 DEF Reviews
<1>4. PICK s :
          /\ p = <<SetRoundStmt(r, "complete", None), s>>
          /\ \/ r \in Approved /\ s = ReadStmt("execute", None)
             \/ \E R \in SUBSET Agents : s = ReadStmt("weigh", R)
  <2>1. p # <<ReadStmt("tally", r)>>
    BY <1>1 DEF ReadStmt
  <2> QED
    BY <1>3, <2>1 DEF ReviewsIn
<1>5. Current(h).round = r /\ r # New /\ Current(h).status = "complete"
  BY <1>1, <1>4, SettingTables DEF SetRoundStmt, New
<1>6. RoundOf(h) = r
  BY <1>5 DEF RoundOf
<1>7. Mine(h, r) /\ ~IsPair(rounds, r) /\ h \notin Desk
  BY <1>3, ThreadAssumption DEF Mine, IsPair, IsReview
<1>8. CalmTables(rounds', iters', Approved') /\ Touches(h)
  BY <1>3, <1>6, <1>7, SetRoundKeepsTables
<1>9. rounds'[r].status = "complete" /\ IsReview(rounds', r)
  BY <1>3, <1>5, <1>6, SetRoundDoes, SettingTypes
<1>10. r = Len(rounds') /\ AllClosed(rounds')
  BY <1>3, <1>6, <1>7, <1>9, LastCloses DEF Closed
<1>11. work'[h].todo = <<s>> /\ Approved' = Approved
  BY <1>1, <1>4, SetRoundDoes
<1>12. Reviews(work'[h].todo, rounds', Approved')
  BY <1>4, <1>10, <1>11 DEF Reviews
<1>13. IsCalm(h, work'[h], rounds', iters', Approved')
  BY <1>12 DEF IsCalm, LoopCalm
<1>14. s.op \in {"execute", "weigh"}
  BY <1>4 DEF ReadStmt
<1>15. Spawns(p)
  <2>1. 2 \in 1..Len(p) /\ p[2] = s
    BY <1>4
  <2> QED
    BY <1>14, <2>1 DEF Spawns, Spawners
<1>16. ~Fills(work'[h])
  BY <1>11, <1>14 DEF Fills, RoundStmts
<1> QED
  BY <1>7, <1>8, <1>13, <1>15, <1>16, SetRoundDoes DEF CalmStep, MaySpawn, FillsItsOwn

LEMMA SetRoundKeepsCalm ==
    ASSUME Setting, NEW h \in Busy, SetRound(h)
    PROVE  CalmStep(h)
<1>1. Current(h).op = "set_round"
  BY DEF SetRound, At
<1> QED
  BY <1>1, Forms, SetExecutionKeepsCalm, SetNewKeepsCalm, SetPairKeepsCalm,
     SetArbitrationKeepsCalm, SetReviewKeepsCalm DEF Elsewise

-----------------------------------------------------------------------------
(***************************************************************************)
(* A request is inserted.                                                  *)
(***************************************************************************)
Inserted(h) ==
    NewIteration(RoundOf(h), Current(h).num, Current(h).src, Current(h).dst, Current(h).input)

LEMMA InsertDoes ==
    ASSUME Setting, NEW h \in Busy, Insert(h)
    PROVE  /\ Current(h).op = "insert" /\ RoundOf(h) \in DOMAIN rounds
           /\ Inserted(h) \in Iteration
           /\ Inserted(h).round = RoundOf(h) /\ Inserted(h).num = Current(h).num
           /\ Inserted(h).src = Current(h).src /\ Inserted(h).dst = Current(h).dst
           /\ Inserted(h).input = Current(h).input
           /\ Inserted(h).output = None /\ Inserted(h).status = "awaiting_nudge"
           /\ iters' = Append(iters, Inserted(h))
           /\ \A i \in DOMAIN iters : iters'[i] = iters[i]
           /\ \A i \in DOMAIN iters' \ DOMAIN iters : iters'[i] = Inserted(h)
           /\ Approved' = Approved
           /\ UNCHANGED <<session, rounds, reviews, skipped>>
           /\ session' # "none"
           /\ work' = [work EXCEPT ![h] = work'[h]]
           /\ work'[h].todo = Rest(h)
           /\ work'[h].todo # <<>> => work'[h].made = work[h].made
<1> DEFINE s == Current(h)
           r == RoundOf(h)
           it == Inserted(h)
           w == [work[h] EXCEPT !.todo = Rest(h), !.asked = Len(iters) + 1]
<1>1. /\ s.op = "insert" /\ iters' = Append(iters, it)
      /\ work' = [work EXCEPT ![h] = Resting(w)]
      /\ UNCHANGED <<session, rounds, reviews, skipped>>
  BY DEF Insert, At, Inserted
<1>2. /\ h \in Threads /\ work[h] \in Handlers /\ s \in Statement /\ session # "none"
      /\ work \in [Threads -> Handlers]
  BY BusyIsCalm, InvTables DEF Setting, Handlers
<1>3. r \in DOMAIN rounds
  BY <1>1, AtReady DEF Setting, RoundStmts
<1>4. /\ iters \in Seq(Iteration) /\ Len(iters) \in Nat /\ DOMAIN iters = 1..Len(iters)
  BY SettingTables
<1>5. it \in Iteration
  <2>1. /\ s.src \in Agents \cup {None} /\ s.dst \in Agents /\ s.input \in Inputs
        /\ s.num \in Nat \ {0}
    BY <1>1, <1>2, NumberFields, InsertFields
  <2>2. r \in Nat \ {0}
    BY <1>3, SettingTables
  <2> HIDE DEF r, s
  <2>3. NewIteration(r, s.num, s.src, s.dst, s.input) \in Iteration
    BY <2>1, <2>2, NewIterationIsIteration
  <2> QED
    BY <2>3 DEF r, s, Inserted
<1>6. /\ it.round = r /\ it.num = s.num /\ it.src = s.src /\ it.dst = s.dst
      /\ it.input = s.input /\ it.output = None /\ it.status = "awaiting_nudge"
  BY DEF NewIteration, Inserted
<1>7. w.todo = Rest(h) /\ w.made = work[h].made
  BY <1>2 DEF Handlers
<1> HIDE DEF w
<1>8. /\ work' = [work EXCEPT ![h] = work'[h]] /\ work'[h].todo = Rest(h)
      /\ work'[h].todo # <<>> => work'[h].made = work[h].made
  <2>1. work'[h] = Resting(w) /\ work' = [work EXCEPT ![h] = work'[h]]
    BY <1>1, <1>2
  <2> QED
    BY <1>7, <2>1 DEF Resting, Idle
<1>9. Approved' = Approved
  BY <1>1 DEF Approved, ExpectedReviewers
<1> HIDE DEF it, r, s
<1>10. /\ \A i \in DOMAIN iters : iters'[i] = iters[i]
       /\ \A i \in DOMAIN iters' \ DOMAIN iters : iters'[i] = it
  BY <1>1, <1>4, <1>5
<1> QED
  BY <1>1, <1>2, <1>3, <1>5, <1>6, <1>8, <1>9, <1>10 DEF it, r, s

\* A request that fits its round keeps the tables in order.
LEMMA InsertKeepsTables ==
    ASSUME Setting, NEW h \in Busy, Insert(h), NEW r, r = RoundOf(h),
           ~Closed(rounds, r), Mine(h, r),
           IsArbitration(rounds, r) => IterationsOf(iters, r) = {},
           IsPair(rounds, r) =>
               /\ \A j \in IterationsOf(iters, r) : iters[j].status = "complete"
               /\ InsertsOn(Current(h), iters, r),
           IsReview(rounds, r) \/ IsExecution(rounds, r) =>
               Current(h).input = Draft(Round2Outcome(rounds)),
           h \in Desk => Fills(work[h]) /\ r = work[h].made
    PROVE  /\ CalmTables(rounds', iters', Approved')
           /\ Touches(h)
           /\ h \in Desk => Outside(h)
<1> DEFINE it == Inserted(h)
<1>1. /\ it \in Iteration /\ r \in DOMAIN rounds
      /\ it.round = r /\ it.num = Current(h).num /\ it.src = Current(h).src
      /\ it.dst = Current(h).dst /\ it.input = Current(h).input
      /\ it.output = None /\ it.status = "awaiting_nudge"
      /\ iters' = Append(iters, it)
      /\ \A i \in DOMAIN iters : iters'[i] = iters[i]
      /\ \A i \in DOMAIN iters' \ DOMAIN iters : iters'[i] = it
      /\ Approved' = Approved /\ rounds' = rounds
  BY InsertDoes
<1> HIDE DEF it
<1>2. InsertsOn(Current(h), iters, r) => InsertsOn(it, iters, r)
  BY <1>1 DEF InsertsOn, HandsOn
<1>3. Tables(rounds, iters) /\ CalmTables(rounds, iters, Approved)
  BY SettingTables DEF Setting, Calm
<1>4. CalmTables(rounds, Append(iters, it), Approved)
  BY <1>1, <1>2, <1>3, AskedTables
<1>5. CalmTables(rounds', iters', Approved')
  BY <1>1, <1>4
<1>6. Touches(h)
  BY <1>1 DEF Touches
<1>7. h \in Desk => Outside(h)
  BY <1>1 DEF Outside
<1> QED
  BY <1>5, <1>6, <1>7

LEMMA InsertRelayedKeepsCalm ==
    ASSUME Setting, NEW h \in Busy, Insert(h), h = Loop, Relays(work[h].todo, rounds, iters)
    PROVE  CalmStep(h)
<1> DEFINE p == work[h].todo
<1>1. PICK r \in DOMAIN rounds : IsPair(rounds, r) /\ ~Closed(rounds, r) /\ RelaysIn(p, r, iters)
  BY DEF Relays
<1>2. p[1].op = "insert" /\ p[1] = Current(h) /\ Len(p) \in Nat /\ Len(Rest(h)) = Len(p) - 1
  BY BusyIsCalm DEF Insert, At
<1>3. AllAnswered(iters, r) /\ Len(p) = 1 /\ p[1].round = r /\ InsertsOn(p[1], iters, r)
  <2>1. \A k, o, a : p # <<RecordStmt(k, o, a), ReadStmt("advance", r)>>
    BY <1>2 DEF RecordStmt
  <2>2. p # <<ReadStmt("advance", r)>>
    BY <1>2 DEF ReadStmt
  <2>3. \A status, o, x : p # <<SetRoundStmt(r, status, o), x>>
    BY <1>2 DEF SetRoundStmt
  <2> QED
    BY <1>1, <1>2, <2>1, <2>2, <2>3 DEF RelaysIn
<1>4. r = RoundOf(h) /\ h \notin Desk
  BY <1>2, <1>3, SettingTables, ThreadAssumption DEF RoundOf, New
<1>5. Mine(h, r) /\ \A j \in IterationsOf(iters, r) : iters[j].status = "complete"
  BY <1>3 DEF Mine, AllAnswered
<1>6. CalmTables(rounds', iters', Approved') /\ Touches(h)
  <2>1. ~IsArbitration(rounds, r) /\ ~IsReview(rounds, r) /\ ~IsExecution(rounds, r)
    BY <1>1 DEF IsPair, IsArbitration, IsReview, IsExecution
  <2> QED
    BY <1>1, <1>2, <1>3, <1>4, <1>5, <2>1, InsertKeepsTables
<1>7. work'[h].todo = <<>>
  BY <1>2, <1>3, BusyIsCalm, InsertDoes
<1>8. work'[h].todo \in Seq(Statement) /\ ChoresOnly(work'[h].todo, rounds, iters)
  BY <1>7 DEF ChoresOnly
<1> QED
  BY <1>4, <1>6, <1>8, InsertDoes, ChoresDecideNothing DEF CalmStep

LEMMA InsertNewKeepsCalm ==
    ASSUME Setting, NEW h \in Busy, Insert(h), NEW type, BuildsHere(h, type)
    PROVE  CalmStep(h)
<1> DEFINE r == work[h].made
           p == work[h].todo
<1>1. /\ Current(h).op = "insert" /\ Current(h).round = New /\ RoundOf(h) = r
  BY DEF Insert, At, BuildsHere, RoundStmts, RoundOf
<1>2. /\ 1 \in 1..Len(p) /\ p[1] = Current(h) /\ p # <<>> /\ p \in Seq(Statement)
  BY BusyIsCalm
<1>3. Fills(work[h])
  BY <1>1, <1>2 DEF Fills, RoundStmts
<1>4. /\ r \in DOMAIN rounds /\ rounds[r].type = type /\ ~Closed(rounds, r)
      /\ type \in AnswersOnce => IterationsOf(iters, r) = {}
  BY <1>3 DEF BuildsHere, Builds
<1>5. type \notin AnswersOnce => Current(h).input = Draft(Round2Outcome(rounds))
  BY <1>1, <1>2 DEF BuildsHere, Builds, StageStmt
<1>6. /\ CalmTables(rounds', iters', Approved') /\ Touches(h)
      /\ h \in Desk => Outside(h)
  <2>1. Mine(h, r)
    BY <1>3 DEF Mine
  <2>2. IsArbitration(rounds, r) => IterationsOf(iters, r) = {}
    BY <1>4 DEF IsArbitration, AnswersOnce
  <2>3. IsPair(rounds, r) =>
            /\ \A j \in IterationsOf(iters, r) : iters[j].status = "complete"
            /\ InsertsOn(Current(h), iters, r)
    BY <1>4 DEF IsPair, AnswersOnce, InsertsOn
  <2>4. IsReview(rounds, r) \/ IsExecution(rounds, r) =>
            Current(h).input = Draft(Round2Outcome(rounds))
    BY <1>4, <1>5 DEF IsReview, IsExecution, AnswersOnce
  <2> QED
    BY <1>1, <1>3, <1>4, <2>1, <2>2, <2>3, <2>4, InsertKeepsTables
<1>7. /\ rounds' = rounds /\ work'[h].todo = Rest(h)
      /\ work'[h].todo # <<>> => work'[h].made = work[h].made
  BY InsertDoes
<1>8. Fills(work'[h]) => type \notin AnswersOnce
  <2> SUFFICES ASSUME Fills(work'[h])
               PROVE  type \notin AnswersOnce
    OBVIOUS
  <2>1. Rest(h) # <<>> /\ Rest(h)[1].op \in {"set_round", "number"} /\ Rest(h)[1].round = New
    BY <1>1, <1>7, FillsAfter DEF Fills
  <2>2. Follows(Current(h), Rest(h)[1], iters)
    BY <2>1, RestContinues DEF Setting
  <2>3. Rest(h)[1].op = "number"
    BY <1>1, <2>1, <2>2 DEF Follows
  <2>4. 1 \in 1..Len(Rest(h)) /\ Rest(h)[1] = p[2] /\ 2 \in 1..Len(p)
    <3>1. /\ Rest(h) \in Seq(Statement) /\ Len(p) \in Nat /\ Len(Rest(h)) = Len(p) - 1
          /\ \A k \in 1..Len(Rest(h)) : Rest(h)[k] = p[k + 1]
      BY BusyIsCalm
    <3> HIDE DEF p
    <3>2. 1 \in 1..Len(Rest(h))
      BY <2>1, <3>1
    <3> QED
      BY <3>1, <3>2
  <2>5. StageStmt(p, 2, type, rounds)
    BY <2>4 DEF BuildsHere, Builds
  <2>6. 2 > 1 /\ 2 - 1 = 1
    OBVIOUS
  <2> HIDE DEF p
  <2>7. p[2].op = "number" /\ p[1].op = "insert"
    BY <1>1, <1>2, <2>3, <2>4
  <2> QED
    BY <2>5, <2>6, <2>7 DEF StageStmt
<1>9. IsCalm(h, work'[h], rounds', iters', Approved') /\ MaySpawn(h)
  BY <1>4, <1>7, <1>8, BuildingGoesOn DEF Fills
<1>10. FillsItsOwn(h)
  BY <1>3, <1>7 DEF FillsItsOwn, Fills
<1> QED
  BY <1>6, <1>9, <1>10, InsertDoes DEF CalmStep

LEMMA InsertKeepsCalm ==
    ASSUME Setting, NEW h \in Busy, Insert(h)
    PROVE  CalmStep(h)
<1>1. Current(h).op = "insert"
  BY DEF Insert, At
<1> QED
  BY <1>1, Forms, InsertRelayedKeepsCalm, InsertNewKeepsCalm DEF Elsewise, DoesChores, Harmless

-----------------------------------------------------------------------------
(***************************************************************************)
(* A request is numbered.                                                  *)
(***************************************************************************)
NumberedStmt(h) ==
    InsertStmt(Current(h).round, NextNumber(RoundOf(h)), Current(h).src, Current(h).dst,
               Current(h).input)

LEMMA NumberDoes ==
    ASSUME Setting, NEW h \in Busy, Number(h), UNCHANGED tables
    PROVE  /\ Current(h).op = "number" /\ RoundOf(h) \in DOMAIN rounds
           /\ NumberedStmt(h) \in Statement
           /\ NumberedStmt(h).op = "insert" /\ NumberedStmt(h).round = Current(h).round
           /\ NumberedStmt(h).num \in Nat
           /\ NumberedStmt(h).src = Current(h).src /\ NumberedStmt(h).dst = Current(h).dst
           /\ NumberedStmt(h).input = Current(h).input
           /\ \A i \in IterationsOf(iters, RoundOf(h)) : iters[i].num < NumberedStmt(h).num
           /\ UNCHANGED <<session, rounds, iters, reviews, skipped>>
           /\ session' # "none"
           /\ work' = [work EXCEPT ![h] = work'[h]]
           /\ work'[h].todo = <<NumberedStmt(h)>> \o Rest(h)
           /\ work'[h].made = work[h].made
<1> DEFINE s == Current(h)
           r == RoundOf(h)
           n == NextNumber(r)
           ins == NumberedStmt(h)
<1>1. s.op = "number" /\ Proceed(h, <<ins>>)
  BY Zenon DEF Number, At, NumberedStmt, NextNumber
<1>2. s \in Statement /\ session # "none" /\ Rest(h) \in Seq(Statement)
  BY BusyIsCalm
<1>3. r \in DOMAIN rounds
  BY <1>1, AtReady DEF Setting, RoundStmts
<1>4. n \in Nat \ {0} /\ \A i \in IterationsOf(iters, r) : iters[i].num < n
  BY NextNumberIsNew DEF Setting
<1>5. /\ s.src \in Agents \cup {None} /\ s.dst \in Agents /\ s.input \in Inputs
      /\ s.round \in Nat
  BY <1>1, <1>2, NumberFields, RoundFields DEF RoundStmts
<1> HIDE DEF n, s
<1>6. ins \in Statement
  BY <1>4, <1>5, InsertIsStatement DEF NumberedStmt, n, s
<1>7. /\ ins.op = "insert" /\ ins.round = s.round /\ ins.num = n
      /\ ins.src = s.src /\ ins.dst = s.dst /\ ins.input = s.input
  BY DEF NumberedStmt, InsertStmt, n, s
<1> HIDE DEF ins
<1>8. <<ins>> \in Seq(Statement)
  BY <1>6
<1>9. /\ work' = [work EXCEPT ![h] = work'[h]] /\ work'[h].todo = <<ins>> \o Rest(h)
      /\ work'[h].todo # <<>> => work'[h].made = work[h].made
  BY <1>1, <1>8, GoesOn
<1>10. work'[h].todo # <<>>
  BY <1>2, <1>8, <1>9
<1>11. UNCHANGED <<session, rounds, iters, reviews, skipped>>
  BY DEF tables
<1> QED
  BY <1>1, <1>2, <1>3, <1>4, <1>6, <1>7, <1>9, <1>10, <1>11 DEF n, s, ins

LEMMA NumberRelayedKeepsCalm ==
    ASSUME Setting, NEW h \in Busy, Number(h), UNCHANGED tables,
           h = Loop, Relays(work[h].todo, rounds, iters)
    PROVE  CalmStep(h)
<1> DEFINE p == work[h].todo
           ins == NumberedStmt(h)
<1>1. PICK r \in DOMAIN rounds : IsPair(rounds, r) /\ ~Closed(rounds, r) /\ RelaysIn(p, r, iters)
  BY DEF Relays
<1>2. /\ p[1].op = "number" /\ p[1] = Current(h) /\ Len(p) \in Nat /\ Len(Rest(h)) = Len(p) - 1
      /\ Rest(h) \in Seq(Statement)
  BY BusyIsCalm DEF Number, At
<1>3. AllAnswered(iters, r) /\ Len(p) = 1 /\ p[1].round = r /\ NumbersOn(p[1], iters, r)
  <2>1. \A k, o, a : p # <<RecordStmt(k, o, a), ReadStmt("advance", r)>>
    BY <1>2 DEF RecordStmt
  <2>2. p # <<ReadStmt("advance", r)>>
    BY <1>2 DEF ReadStmt
  <2>3. \A status, o, x : p # <<SetRoundStmt(r, status, o), x>>
    BY <1>2 DEF SetRoundStmt
  <2> QED
    BY <1>1, <1>2, <2>1, <2>2, <2>3 DEF RelaysIn
<1>4. r = RoundOf(h) /\ h \notin Desk
  BY <1>2, <1>3, SettingTables, ThreadAssumption DEF RoundOf, New
<1>5. work'[h].todo = <<ins>>
  <2>1. Rest(h) = <<>>
    BY <1>2, <1>3
  <2>2. ins \in Statement /\ work'[h].todo = <<ins>> \o Rest(h)
    BY NumberDoes
  <2> HIDE DEF ins
  <2>3. <<ins>> \o <<>> = <<ins>>
    BY <2>2
  <2> QED
    BY <2>1, <2>2, <2>3
<1> HIDE DEF ins
<1>6. /\ ins.op = "insert" /\ ins.round = r /\ ins.num \in Nat
      /\ ins.src = p[1].src /\ ins.dst = p[1].dst /\ ins.input = p[1].input
      /\ \A i \in IterationsOf(iters, r) : iters[i].num < ins.num
  BY <1>2, <1>3, <1>4, NumberDoes DEF ins
<1>7. InsertsOn(ins, iters, r)
  <2> SUFFICES ASSUME NEW j \in IterationsOf(iters, r), iters[j].num + 1 = ins.num
               PROVE  HandsOn(ins, iters[j]) /\ ins.num <= MAX_ITERS_PER_ROUND_1
    BY <1>6 DEF InsertsOn
  <2>1. \A i \in IterationsOf(iters, r) : iters[i].num \in Nat
    <3>1. \A i \in DOMAIN iters : iters[i] \in Iteration
      BY SettingTables
    <3> QED
      BY <3>1 DEF Iteration, IterationsOf
  <2>2. \A i \in IterationsOf(iters, r) : iters[i].num <= iters[j].num
    BY <1>6, <2>1
  <2>3. HandsOn(p[1], iters[j]) /\ iters[j].num < MAX_ITERS_PER_ROUND_1
    BY <1>3, <2>2 DEF NumbersOn
  <2> QED
    BY <1>6, <2>1, <2>3, LimitAssumption DEF HandsOn
<1>8. Relays(work'[h].todo, rounds', iters')
  <2>1. Len(<<ins>>) = 1 /\ <<ins>>[1] = ins
    OBVIOUS
  <2>2. RelaysIn(<<ins>>, r, iters)
    BY <1>3, <1>6, <1>7, <2>1 DEF RelaysIn
  <2> QED
    BY <1>1, <1>5, <2>2, NumberDoes DEF Relays
<1>9. IsCalm(h, work'[h], rounds', iters', Approved')
  BY <1>8 DEF IsCalm, LoopCalm
<1>10. ~Spawns(work'[h].todo) /\ ~Fills(work'[h])
  <2>1. Len(<<ins>>) = 1 /\ <<ins>>[1] = ins /\ r # New
    BY SettingTables DEF New
  <2> QED
    BY <1>5, <1>6, <2>1 DEF Spawns, Spawners, Fills
<1> QED
  BY <1>4, <1>9, <1>10, NumberDoes, QuietKeepsCalm DEF CalmStep, MaySpawn, FillsItsOwn

LEMMA NumberNewKeepsCalm ==
    ASSUME Setting, NEW h \in Busy, Number(h), UNCHANGED tables, NEW type, BuildsHere(h, type)
    PROVE  CalmStep(h)
<1> DEFINE p == work[h].todo
           q == work'[h].todo
           ins == NumberedStmt(h)
           w2 == work'[h]
<1>1. /\ Current(h).op = "number" /\ Current(h).round = New
  BY DEF Number, At, BuildsHere, RoundStmts
<1>2. /\ p \in Seq(Statement) /\ Len(p) \in Nat \ {0} /\ p[1] = Current(h)
      /\ Rest(h) \in Seq(Statement) /\ Len(Rest(h)) = Len(p) - 1
      /\ \A k \in 1..Len(Rest(h)) : Rest(h)[k] = p[k + 1]
      /\ 1 \in 1..Len(p) /\ p # <<>>
  BY BusyIsCalm
<1>3. Fills(work[h])
  BY <1>1, <1>2 DEF Fills, RoundStmts
<1>4. /\ q = <<ins>> \o Rest(h) /\ w2.made = work[h].made /\ ins \in Statement
      /\ ins.op = "insert" /\ ins.round = New /\ ins.input = p[1].input
      /\ rounds' = rounds /\ iters' = iters /\ Approved' = Approved
  BY <1>1, <1>2, NumberDoes, QuietKeepsCalm
<1> HIDE DEF p, q, ins
<1>5. /\ Len(q) = Len(p) /\ q[1] = ins
      /\ \A k \in 1..Len(q) : k # 1 => q[k] = p[k]
  BY <1>2, <1>4
<1>6. \A k \in 1..Len(p) : StageStmt(p, k, type, rounds)
  BY DEF BuildsHere, Builds, p
<1>7. ASSUME NEW k \in 1..Len(q)
      PROVE  StageStmt(q, k, type, rounds)
  <2>1. CASE k = 1
    <3>1. StageStmt(p, 1, type, rounds) /\ p[1].op = "number"
      BY <1>1, <1>2, <1>6
    <3>2. q[1].op = "insert" /\ q[1].round = New /\ q[1].input = p[1].input
      BY <1>4, <1>5
    <3> QED
      BY <2>1, <3>1, <3>2 DEF StageStmt
  <2>2. CASE k # 1
    <3>1. StageStmt(p, k, type, rounds) /\ q[k] = p[k] /\ k - 1 \in 1..Len(q) /\ k > 1
      BY <1>2, <1>5, <1>6, <2>2
    <3>2. p[k - 1].op = "set_round" => q[k - 1].op = "set_round"
      <4>1. CASE k - 1 = 1
        BY <1>1, <1>2, <4>1
      <4>2. CASE k - 1 # 1
        BY <1>5, <3>1, <4>2
      <4> QED
        BY <4>1, <4>2
    <3> QED
      BY <2>2, <3>1, <3>2 DEF StageStmt
  <2> QED
    BY <2>1, <2>2
<1>8. \A op \in Spawners : \A k \in 1..Len(q) : q[k].op = op => p[k].op = op
  <2> SUFFICES ASSUME NEW op \in Spawners, NEW k \in 1..Len(q), q[k].op = op
               PROVE  p[k].op = op
    OBVIOUS
  <2>1. k # 1
    BY <1>4, <1>5 DEF Spawners
  <2> QED
    BY <1>5, <2>1
<1>9. (Opens(q) => Opens(p)) /\ (Spawns(q) => Spawns(p))
  BY <1>5, <1>8 DEF Opens, Spawns, Spawners
<1>10. Builds(w2, type, rounds', iters', Approved')
  BY <1>3, <1>4, <1>7, <1>9 DEF BuildsHere, Builds, p, q
<1>11. IsCalm(h, work'[h], rounds', iters', Approved')
  BY <1>10 DEF IsCalm, LoopCalm, DeskCalm, BuildsHere
<1>12. MaySpawn(h) /\ FillsItsOwn(h)
  BY <1>3, <1>4, <1>9 DEF MaySpawn, FillsItsOwn, p, q
<1> QED
  BY <1>11, <1>12, NumberDoes, QuietKeepsCalm DEF CalmStep

LEMMA NumberKeepsCalm ==
    ASSUME Setting, NEW h \in Busy, Number(h), UNCHANGED tables
    PROVE  CalmStep(h)
<1>1. Current(h).op = "number"
  BY DEF Number, At
<1> QED
  BY <1>1, Forms, NumberRelayedKeepsCalm, NumberNewKeepsCalm DEF Elsewise, DoesChores, Harmless

-----------------------------------------------------------------------------
(***************************************************************************)
(* What is made of an answer.                                              *)
(***************************************************************************)
\* When all requests are answered, the last answer is that of the latest request.
LEMMA LastAnswer ==
    ASSUME Setting, NEW r, AllAnswered(iters, r), NEW t \in Ordered(r)
    PROVE  \E j \in IterationsOf(iters, r) :
               /\ t[LatestAnswered(t, r)] = iters[j]
               /\ \A i \in IterationsOf(iters, r) : iters[i].num <= iters[j].num
<1> DEFINE rows == IterationsOf(iters, r)
<1>1. StepsInv
  BY DEF Setting
<1>2. PICK n \in Nat : \E q \in Surjection(1..n, rows) :
          /\ t = [k \in 1..n |-> iters[q[k]]]
          /\ \A j, k \in 1..n : j < k => iters[q[j]].num <= iters[q[k]].num
  BY <1>1, OrderedLists
<1>3. PICK q \in Surjection(1..n, rows) :
          /\ t = [k \in 1..n |-> iters[q[k]]]
          /\ \A j, k \in 1..n : j < k => iters[q[j]].num <= iters[q[k]].num
  BY <1>2
<1>4. \A i \in rows : iters[i].round = r /\ iters[i].output # None /\ iters[i].num \in Nat
  <2>1. \A i \in rows : i \in DOMAIN iters /\ iters[i].round = r /\ iters[i].status = "complete"
    BY DEF AllAnswered, IterationsOf
  <2>2. \A i \in DOMAIN iters : iters[i].output # None <=> iters[i].status = "complete"
    BY DEF Setting, Calm, CalmTables, AnswersTell
  <2>3. \A i \in DOMAIN iters : iters[i] \in Iteration
    BY SettingTables
  <2>4. \A i \in DOMAIN iters : iters[i].num \in Nat
    BY <2>3 DEF Iteration
  <2> QED
    BY <2>1, <2>2, <2>4
<1>5. rows # {}
  BY DEF AllAnswered
<1> HIDE DEF rows
<1>6. /\ \A k \in 1..n : q[k] \in rows /\ t[k] = iters[q[k]]
      /\ \A i \in rows : \E k \in 1..n : q[k] = i
      /\ DOMAIN t = 1..n
  BY <1>3 DEF Surjection
<1>7. Answered(t, r) = 1..n
  BY <1>4, <1>6 DEF Answered, IterationsOf
<1>8. n \in 1..n
  BY <1>5, <1>6
<1>9. LatestAnswered(t, r) = n
  <2>1. 1..n \in SUBSET (1..n) /\ 1..n # {}
    BY <1>8
  <2>2. Latest(1..n) \in 1..n /\ \A x \in 1..n : x <= Latest(1..n)
    BY <2>1, LatestIsMember
  <2>3. Latest(1..n) = n
    BY <1>8, <2>2
  <2> QED
    BY <1>7, <2>3 DEF LatestAnswered
<1>10. ASSUME NEW i \in rows
       PROVE  iters[i].num <= iters[q[n]].num
  <2>1. PICK k \in 1..n : q[k] = i
    BY <1>6
  <2>2. CASE k = n
    BY <1>4, <2>1, <2>2
  <2>3. CASE k # n
    <3>1. k < n
      BY <2>3
    <3> QED
      BY <1>3, <1>8, <2>1, <3>1
  <2> QED
    BY <2>2, <2>3
<1> QED
  BY <1>6, <1>8, <1>9, <1>10 DEF rows

\* The two workers of a host are two.
LEMMA OtherAgentIsOther ==
    ASSUME Setting, NEW r \in DOMAIN rounds, IsPair(rounds, r), NEW a
    PROVE  OtherAgentOnHost(rounds[r].host, a) # a
<1> DEFINE w == Workers[rounds[r].host]
<1>1. rounds[r].host \in Hosts /\ Len(w) = 2
  BY DEF Setting, StepsInv, Manned, IsPair
<1>2. w \in Seq(AllWorkers)
  BY <1>1, RegistryAssumption
<1>3. 1 \in DOMAIN w /\ 2 \in DOMAIN w
  BY <1>1, <1>2
<1>4. w[1] # w[2]
  BY <1>1, <1>3, DistinctAssumption
<1> QED
  BY <1>4 DEF OtherAgentOnHost

\* A list of the event loop that fills no round yet.
Stages(p, type) ==
    /\ \A k \in 1..Len(p) : StageStmt(p, k, type, rounds)
    /\ Opens(p) =>
           /\ IF type = "same_host_pair" THEN PairOrClosed(rounds) ELSE AllClosed(rounds)
           /\ type = "execute" => Len(rounds) \in Approved
IsForm(p) ==
    \/ ChoresOnly(p, rounds, iters) \/ Relays(p, rounds, iters) \/ Judges(p, rounds)
    \/ Arbitrates(p, rounds, iters) \/ Reviews(p, rounds, Approved)
    \/ \E type \in RoundTypes : Stages(p, type)

\* A read of the event loop.
LEMMA ReadKeepsForm ==
    ASSUME Setting, NEW h \in Busy, h = Loop, UNCHANGED tables,
           Current(h).op \in LastReads, NEW s, NEW S, s \in Seq(S), Proceed(h, s),
           IsForm(s),
           Spawns(s) =>
               Spawns(work[h].todo) \/ \A g \in Threads : g # h => ~Spawns(work[g].todo),
           s # <<>> => s[1].op \notin RoundStmts \/ s[1].round # New
    PROVE  CalmStep(h)
<1>1. /\ work' = [work EXCEPT ![h] = work'[h]]
      /\ work'[h].todo = s
      /\ work'[h].todo # <<>> => work'[h].made = work[h].made
  BY LastReadGoesOn
<1>2. UNCHANGED <<rounds, iters, reviews, skipped>> /\ session' # "none"
  BY BusyIsCalm DEF tables
<1>3. /\ Approved' = Approved
      /\ CalmTables(rounds', iters', Approved')
      /\ Touches(h)
  BY <1>2, QuietKeepsCalm
<1>4. ~Fills(work'[h])
  BY <1>1 DEF Fills
<1>5. LoopCalm(work'[h], rounds, iters, Approved)
  <2>1. ASSUME NEW type \in RoundTypes, Stages(s, type)
        PROVE  Builds(work'[h], type, rounds, iters, Approved)
    BY <1>1, <1>4, <2>1 DEF Builds, Stages
  <2> QED
    BY <1>1, <2>1 DEF IsForm, LoopCalm
<1>6. IsCalm(h, work'[h], rounds', iters', Approved')
  BY <1>2, <1>3, <1>5 DEF IsCalm
<1>7. h \notin Desk
  BY ThreadAssumption
<1> QED
  BY <1>1, <1>2, <1>3, <1>4, <1>6, <1>7 DEF CalmStep, MaySpawn, FillsItsOwn

LEMMA AdvanceKeepsCalm ==
    ASSUME Setting, NEW h \in Busy, Advance(h), UNCHANGED tables
    PROVE  CalmStep(h)
<1> DEFINE p == work[h].todo
<1>1. Current(h).op = "advance" /\ Current(h).op \in LastReads
  BY DEF Advance, At, LastReads
<1>2. h = Loop /\ Relays(p, rounds, iters)
  BY <1>1, Forms DEF Elsewise, BuildsHere, DoesChores, Harmless
<1>3. PICK r \in DOMAIN rounds : IsPair(rounds, r) /\ ~Closed(rounds, r) /\ RelaysIn(p, r, iters)
  BY <1>2 DEF Relays
<1>4. p[1] = Current(h)
  BY BusyIsCalm
<1>5. p = <<ReadStmt("advance", r)>> /\ AllAnswered(iters, r)
  <2>1. \A k, o, a, x : p # <<RecordStmt(k, o, a), x>>
    BY <1>1, <1>4 DEF RecordStmt
  <2>2. \A status, o, x : p # <<SetRoundStmt(r, status, o), x>>
    BY <1>1, <1>4 DEF SetRoundStmt
  <2> QED
    BY <1>1, <1>3, <1>4, <2>1, <2>2 DEF RelaysIn
<1>6. Current(h).about = r
  BY <1>4, <1>5 DEF ReadStmt
<1>7. PICK t \in Ordered(r) :
          LET last == t[LatestAnswered(t, r)]
          IN  \/ Proceed(h, <<SetRoundStmt(r, "escalated", None), SetSessionStmt("escalated")>>)
              \/ Proceed(h, <<SetRoundStmt(r, "converged", last.output),
                              ReadStmt("maybe_advance", None)>>)
              \/ /\ ~Stalled(t, r) /\ ~IsConverged(t, r)
                 /\ Proceed(h, Ask(r, last.dst, OtherAgentOnHost(rounds[r].host, last.dst),
                                   Draft(last.output)))
  BY <1>6 DEF Advance
<1> DEFINE last == t[LatestAnswered(t, r)]
<1>8. PICK j \in IterationsOf(iters, r) :
          /\ last = iters[j]
          /\ \A i \in IterationsOf(iters, r) : iters[i].num <= iters[j].num
  BY <1>5, LastAnswer
<1>9. j \in DOMAIN iters /\ iters[j].round = r /\ iters[j] \in Iteration
  BY SettingTables DEF IterationsOf
<1>10. last.output \in Texts
  <2>1. iters[j].output # None
    BY <1>5, <1>9 DEF AllAnswered, Setting, Calm, CalmTables, AnswersTell
  <2> QED
    BY <1>8, <1>9, <2>1 DEF Iteration
<1>11. r # New
  BY SettingTables DEF New
<1> DEFINE a == SetRoundStmt(r, "escalated", None)
           b == SetSessionStmt("escalated")
           c == SetRoundStmt(r, "converged", last.output)
           d == ReadStmt("maybe_advance", None)
           e == NumberStmt(r, last.dst, OtherAgentOnHost(rounds[r].host, last.dst),
                           Draft(last.output))
<1>12. CASE Proceed(h, <<a, b>>)
  <2>1. RelaysIn(<<a, b>>, r, iters)
    BY <1>5 DEF RelaysIn
  <2>2. IsForm(<<a, b>>)
    BY <1>3, <2>1 DEF IsForm, Relays
  <2>3. a.op = "set_round" /\ a.round # New /\ b.op = "set_session"
    BY <1>11 DEF SetRoundStmt, SetSessionStmt
  <2> HIDE DEF a, b
  <2>4. <<a, b>> \in Seq({a, b}) /\ <<a, b>>[1] = a
    OBVIOUS
  <2>5. ~Spawns(<<a, b>>)
    BY <2>3 DEF Spawns, Spawners
  <2> QED
    BY <1>1, <1>2, <1>12, <2>2, <2>3, <2>4, <2>5, ReadKeepsForm
<1>13. CASE Proceed(h, <<c, d>>)
  <2>1. RelaysIn(<<c, d>>, r, iters)
    BY <1>5, <1>10 DEF RelaysIn
  <2>2. IsForm(<<c, d>>)
    BY <1>3, <2>1 DEF IsForm, Relays
  <2>3. c.op = "set_round" /\ c.round # New /\ d.op = "maybe_advance"
    BY <1>11 DEF SetRoundStmt, ReadStmt
  <2> HIDE DEF c, d
  <2>4. <<c, d>> \in Seq({c, d}) /\ <<c, d>>[1] = c
    OBVIOUS
  <2>5. ~Spawns(<<c, d>>)
    BY <2>3 DEF Spawns, Spawners
  <2> QED
    BY <1>1, <1>2, <1>13, <2>2, <2>3, <2>4, <2>5, ReadKeepsForm
<1>14. CASE ~Stalled(t, r) /\ ~IsConverged(t, r) /\ Proceed(h, <<e>>)
  <2>1. e.op = "number" /\ e.round = r
    BY DEF NumberStmt
  <2>2. e.src = last.dst /\ e.dst # last.dst /\ e.input = Draft(last.output)
    BY <1>3, OtherAgentIsOther DEF NumberStmt
  <2>3. last.num < MAX_ITERS_PER_ROUND_1
    <3>1. iters[j].num \in Nat /\ MAX_ITERS_PER_ROUND_1 \in Nat
      BY <1>9, LimitAssumption DEF Iteration
    <3> QED
      BY <1>8, <1>14, <3>1 DEF Stalled
  <2> HIDE DEF e, last
  <2>4. NumbersOn(e, iters, r)
    <3> SUFFICES ASSUME NEW k \in IterationsOf(iters, r),
                        \A i \in IterationsOf(iters, r) : iters[i].num <= iters[k].num
                 PROVE  k = j
      BY <1>8, <2>1, <2>2, <2>3 DEF NumbersOn, HandsOn
    <3>1. k \in DOMAIN iters /\ iters[k].round = r
      BY DEF IterationsOf
    <3>2. iters[k].num \in Nat /\ iters[j].num \in Nat
      <4>1. iters[k] \in Iteration
        BY <3>1, SettingTables
      <4> QED
        BY <1>9, <4>1 DEF Iteration
    <3>3. iters[k].num = iters[j].num
      BY <1>8, <3>2
    <3> QED
      BY <1>9, <3>1, <3>3 DEF Setting, StepsInv, Numbered
  <2>5. <<e>> \in Seq({e}) /\ <<e>>[1] = e /\ Len(<<e>>) = 1
    OBVIOUS
  <2>6. RelaysIn(<<e>>, r, iters)
    BY <1>5, <2>1, <2>4, <2>5 DEF RelaysIn
  <2>7. IsForm(<<e>>)
    BY <1>3, <2>6 DEF IsForm, Relays
  <2>8. ~Spawns(<<e>>)
    BY <2>1 DEF Spawns, Spawners
  <2> QED
    BY <1>1, <1>2, <1>11, <1>14, <2>1, <2>5, <2>7, <2>8, ReadKeepsForm
<1> QED
  BY <1>7, <1>12, <1>13, <1>14 DEF Ask

-----------------------------------------------------------------------------
(***************************************************************************)
(* Decisions.                                                              *)
(***************************************************************************)
\* A stage that opens one round behind what is closed.
LEMMA SpawnStages ==
    ASSUME NEW type \in RoundTypes, type # "same_host_pair",
           AllClosed(rounds), type = "execute" => Len(rounds) \in Approved,
           NEW requests, Requests(requests),
           IF type \in AnswersOnce THEN Len(requests) <= 1
           ELSE \A k \in 1..Len(requests) : requests[k].input = Draft(Round2Outcome(rounds)),
           NEW last, \/ last = <<>>
                     \/ \E status \in SessionStatuses \ {"none"} : last = <<SetSessionStmt(status)>>
    PROVE  /\ Stages(Spawn(type, None, requests, last), type)
           /\ Spawn(type, None, requests, last) \in Seq(Statement)
           /\ Spawn(type, None, requests, last)[1].op = "open_round"
<1> DEFINE p == Spawn(type, None, requests, last)
           a == OpenRoundStmt(type, None)
           d == SetRoundStmt(New, "in_progress", None)
           n == Len(requests)
<1>1. /\ a \in Statement /\ a.op = "open_round" /\ a.type = type
      /\ d \in Statement /\ d.op = "set_round" /\ d.round = New
      /\ d.status = "in_progress" /\ d.outcome = None
  BY OpenRoundIsStatement, SetRoundIsStatement
     DEF OpenRoundStmt, SetRoundStmt, RoundStatuses, New
<1>2. /\ requests \in Seq(Statement) /\ n \in Nat
      /\ \A k \in 1..n : requests[k].op = "number" /\ requests[k].round = New
  BY DEF Requests
<1>3. /\ last \in Seq(Statement) /\ Len(last) \in Nat
      /\ last # <<>> =>
             Len(last) = 1 /\ last[1].op = "set_session" /\ last[1].status # "none"
  <2>1. CASE last = <<>>
    BY <2>1
  <2>2. CASE last # <<>>
    <3>1. PICK status \in SessionStatuses \ {"none"} : last = <<SetSessionStmt(status)>>
      BY <2>2
    <3>2. SetSessionStmt(status) \in Statement
      BY SessionStatements
    <3>3. Len(last) = 1 /\ last[1] = SetSessionStmt(status)
      BY <3>1
    <3>4. last \in Seq(Statement)
      BY <3>1, <3>2
    <3> QED
      BY <3>3, <3>4 DEF SetSessionStmt
  <2> QED
    BY <2>1, <2>2
<1>4. p = (<<a, d>> \o requests) \o last
  BY DEF Spawn
<1> HIDE DEF a, d, p
<1> DEFINE q == <<a, d>> \o requests
<1>5. <<a, d>> \in Seq(Statement) /\ Len(<<a, d>>) = 2 /\ <<a, d>>[1] = a /\ <<a, d>>[2] = d
  BY <1>1
<1>6. /\ q \in Seq(Statement) /\ Len(q) = 2 + n
      /\ \A k \in 1..(2 + n) : q[k] = IF k <= 2 THEN <<a, d>>[k] ELSE requests[k - 2]
  BY <1>2, <1>5, ConcatProperties
<1>7. q[1] = a /\ q[2] = d /\ \A k \in 3..(2 + n) : q[k] = requests[k - 2]
  BY <1>2, <1>5, <1>6
<1> HIDE DEF q
<1>8. /\ p \in Seq(Statement) /\ Len(p) = (2 + n) + Len(last)
      /\ \A k \in 1..(2 + n) : p[k] = q[k]
      /\ last # <<>> => p[3 + n] = last[1]
  <2>1. p = q \o last
    BY <1>4 DEF q
  <2>2. /\ p \in Seq(Statement) /\ Len(p) = Len(q) + Len(last)
        /\ \A k \in 1..(Len(q) + Len(last)) :
               p[k] = IF k <= Len(q) THEN q[k] ELSE last[k - Len(q)]
    BY <1>3, <1>6, <2>1, ConcatProperties
  <2>3. last # <<>> => p[3 + n] = last[1]
    <3> SUFFICES ASSUME last # <<>>
                 PROVE  p[3 + n] = last[1]
      OBVIOUS
    <3>1. /\ 3 + n \in 1..(Len(q) + Len(last)) /\ ~(3 + n <= Len(q))
          /\ (3 + n) - Len(q) = 1
      BY <1>2, <1>3, <1>6
    <3> QED
      BY <2>2, <3>1
  <2> QED
    BY <1>2, <1>3, <1>6, <2>2, <2>3
<1>9. p[1] = a /\ p[2] = d
  BY <1>2, <1>7, <1>8
<1>10. ASSUME NEW k \in 1..Len(p)
       PROVE  StageStmt(p, k, type, rounds)
  <2>1. CASE k = 1
    BY <1>1, <1>9, <2>1 DEF StageStmt
  <2>2. CASE k = 2
    BY <1>1, <1>9, <2>2 DEF StageStmt
  <2>3. CASE k > 2 /\ k <= 2 + n
    <3>1. k \in 3..(2 + n) /\ k \in 1..(2 + n) /\ k - 2 \in 1..n
      BY <1>2, <2>3
    <3>2. p[k] = requests[k - 2]
      BY <1>7, <1>8, <3>1
    <3>3. p[k].op = "number" /\ p[k].round = New
      BY <1>2, <3>1, <3>2
    <3>4. CASE type \in AnswersOnce
      <4>1. k - 1 = 2
        BY <1>2, <3>1, <3>4
      <4> QED
        BY <1>1, <1>9, <3>3, <3>4, <4>1 DEF StageStmt
    <3>5. CASE type \notin AnswersOnce
      <4>1. p[k].input = Draft(Round2Outcome(rounds))
        BY <3>1, <3>2, <3>5
      <4> QED
        BY <3>3, <3>5, <4>1 DEF StageStmt
    <3> QED
      BY <3>4, <3>5
  <2>4. CASE k > 2 + n
    <3>1. last # <<>> /\ k = 3 + n
      <4>1. k \in Nat /\ k <= (2 + n) + Len(last)
        BY <1>2, <1>3, <1>8
      <4>2. last # <<>>
        BY <1>2, <2>4, <4>1
      <4>3. Len(last) = 1
        BY <1>3, <4>2
      <4> HIDE DEF n
      <4> QED
        BY <1>2, <2>4, <4>1, <4>2, <4>3
    <3> QED
      BY <1>3, <1>8, <3>1 DEF StageStmt
  <2> QED
    BY <1>2, <2>1, <2>2, <2>3, <2>4
<1>11. Stages(p, type)
  BY <1>10 DEF Stages
<1> QED
  BY <1>1, <1>8, <1>9, <1>11 DEF p

LEMMA ArbitrationStages ==
    ASSUME AllClosed(rounds), NEW input \in Inputs
    PROVE  /\ Stages(SpawnArbitration(input), "cross_host_arbitration")
           /\ SpawnArbitration(input) \in Seq(Statement)
           /\ SpawnArbitration(input)[1].op = "open_round"
<1> DEFINE s == NumberStmt(New, None, Arbitrator, input)
<1>1. s \in Statement /\ s.op = "number" /\ s.round = New
  BY NumberIsStatement DEF NumberStmt, Agents, New
<1> HIDE DEF s
<1> DEFINE asked == <<s>>
<1>2. Requests(asked) /\ Len(asked) <= 1
  BY <1>1 DEF Requests
<1> DEFINE type == "cross_host_arbitration"
           last == <<SetSessionStmt("round_2")>>
           p == Spawn(type, None, asked, last)
<1>3. /\ type \in RoundTypes /\ type # "same_host_pair" /\ type # "execute"
      /\ type \in AnswersOnce
      /\ \E status \in SessionStatuses \ {"none"} : last = <<SetSessionStmt(status)>>
  BY DEF SessionStatuses, RoundTypes, AnswersOnce
<1>4. SpawnArbitration(input) = p
  BY DEF SpawnArbitration, Ask, s
<1> HIDE DEF asked, type, last
<1>5. Stages(p, type) /\ p \in Seq(Statement) /\ p[1].op = "open_round"
  BY <1>2, <1>3, SpawnStages
<1> QED
  BY <1>4, <1>5 DEF type

\* The pair rounds of all hosts behind pairs or what is closed.
LEMMA PairsStages ==
    ASSUME NEW input, PairOrClosed(rounds)
    PROVE  /\ Stages(SpawnPairs(input), "same_host_pair")
           /\ \E S : SpawnPairs(input) \in Seq(S)
           /\ SpawnPairs(input) # <<>> =>
                  SpawnPairs(input)[1].op \in {"open_round", "set_session"}
<1> DEFINE n == Cardinality(ReadyHosts)
           p == SpawnPairs(input)
<1>1. /\ n \in Nat /\ n <= Len(HostOrder) /\ Len(HostOrder) \in Nat
      /\ \E S : p \in Seq(S)
      /\ Len(p) = IF n = Len(HostOrder) THEN 3 * n + 1 ELSE 3 * n
  <2>1. Len(HostOrder) \in Nat
    BY RegistryAssumption
  <2>2. n \in Nat /\ n <= Len(HostOrder)
    BY SpawnPairsList
  <2>3. \E S : p \in Seq(S)
    BY SpawnPairsList, Zenon
  <2>4. Len(p) = IF n = Len(HostOrder) THEN 3 * n + 1 ELSE 3 * n
    BY SpawnPairsList, Zenon
  <2> QED
    BY <2>1, <2>2, <2>3, <2>4
<1>2. ASSUME NEW q \in 1..n
      PROVE  /\ p[3 * q - 2] = OpenRoundStmt("same_host_pair", HostOrder[q])
             /\ p[3 * q - 1].op = "set_round" /\ p[3 * q - 1].round = New
             /\ p[3 * q - 1].status = "in_progress" /\ p[3 * q - 1].outcome = None
             /\ p[3 * q].op = "number" /\ p[3 * q].round = New
  BY SpawnPairsList
<1>3. n = Len(HostOrder) => p[3 * n + 1] = SetSessionStmt("round_1")
  BY SpawnPairsList
<1> HIDE DEF n, p
<1>4. ASSUME NEW k \in 1..(3 * n)
      PROVE  /\ StageStmt(p, k, "same_host_pair", rounds)
             /\ k = 1 => p[k].op = "open_round"
  <2>1. PICK q \in 1..n : k = 3 * q - 2 \/ k = 3 * q - 1 \/ k = 3 * q
    <3>1. /\ (k + 2) \div 3 \in 1..n
          /\ \/ k = 3 * ((k + 2) \div 3) - 2
             \/ k = 3 * ((k + 2) \div 3) - 1
             \/ k = 3 * ((k + 2) \div 3)
      BY <1>1
    <3> QED
      BY <3>1
  <2>2. CASE k = 3 * q - 2
    <3>1. p[k] = OpenRoundStmt("same_host_pair", HostOrder[q])
      BY <1>2, <2>2
    <3>2. p[k].op = "open_round" /\ p[k].type = "same_host_pair"
      BY <3>1 DEF OpenRoundStmt
    <3> QED
      BY <3>2 DEF StageStmt
  <2>3. CASE k = 3 * q - 1
    <3>1. /\ p[k].op = "set_round" /\ p[k].round = New
          /\ p[k].status = "in_progress" /\ p[k].outcome = None
      BY <1>2, <2>3
    <3> QED
      BY <2>3, <3>1 DEF StageStmt
  <2>4. CASE k = 3 * q
    <3>1. p[k].op = "number" /\ p[k].round = New /\ k # 1 /\ k - 1 = 3 * q - 1
      BY <1>2, <2>4
    <3>2. p[k - 1].op = "set_round"
      BY <1>2, <3>1
    <3> QED
      BY <3>1, <3>2 DEF StageStmt, AnswersOnce
  <2> QED
    BY <2>1, <2>2, <2>3, <2>4
<1>5. ASSUME NEW k \in 1..Len(p), k \notin 1..(3 * n)
      PROVE  p[k].op = "set_session" /\ p[k].status # "none"
  <2>1. n = Len(HostOrder) /\ k = 3 * n + 1
    BY <1>1, <1>5
  <2> QED
    BY <1>3, <2>1 DEF SetSessionStmt
<1>6. \A k \in 1..Len(p) : StageStmt(p, k, "same_host_pair", rounds)
  <2> SUFFICES ASSUME NEW k \in 1..Len(p)
               PROVE  StageStmt(p, k, "same_host_pair", rounds)
    OBVIOUS
  <2>1. CASE k \in 1..(3 * n)
    BY <1>4, <2>1
  <2>2. CASE k \notin 1..(3 * n)
    BY <1>5, <2>2 DEF StageStmt
  <2> QED
    BY <2>1, <2>2
<1>7. Stages(p, "same_host_pair")
  BY <1>6 DEF Stages
<1>8. p # <<>> => p[1].op \in {"open_round", "set_session"}
  <2> SUFFICES ASSUME p # <<>>
               PROVE  p[1].op \in {"open_round", "set_session"}
    OBVIOUS
  <2>1. 1 \in 1..Len(p)
    BY <1>1
  <2>2. CASE 1 \in 1..(3 * n)
    BY <1>4, <2>2
  <2>3. CASE 1 \notin 1..(3 * n)
    BY <1>5, <2>1, <2>3
  <2> QED
    BY <2>2, <2>3
<1> QED
  BY <1>1, <1>7, <1>8 DEF p

\* A desk that has a stage to open opens pairs, behind pairs or what is closed.
LEMMA DeskSpawns ==
    ASSUME Setting, NEW g \in Desk, Spawns(work[g].todo)
    PROVE  /\ g \in Busy
           /\ PairOrClosed(rounds)
           /\ <<"rounds", New>> \in HeldBy(g)
<1> DEFINE p == work[g].todo
<1>1. g \in Threads /\ g # Loop
  BY ThreadAssumption DEF Threads
<1>2. p \in Seq(Statement) /\ DeskCalm(work[g], rounds, iters, Approved)
  BY <1>1, InvTables DEF Setting, Calm, CalmThreads, IsCalm
<1>3. PICK k \in 1..Len(p) : p[k].op \in Spawners
  BY DEF Spawns
<1>4. Builds(work[g], "same_host_pair", rounds, iters, Approved)
  BY <1>2, <1>3 DEF DeskCalm, Releases, Spawners
<1>5. StageStmt(p, k, "same_host_pair", rounds)
  BY <1>3, <1>4 DEF Builds
<1>6. p[k].op = "open_round" /\ p[k].type = "same_host_pair"
  BY <1>3, <1>5 DEF StageStmt, Spawners
<1>7. PairOrClosed(rounds)
  BY <1>3, <1>4, <1>6 DEF Builds, Opens
<1>8. g \in Busy
  BY <1>1, <1>2, <1>3 DEF Busy
<1>9. <<"rounds", New>> \in HeldBy(g)
  <2>1. p[k] \in Elements(work[g].todo)
    BY <1>2, <1>3 DEF Elements
  <2>2. <<"rounds", New>> \in ListsRounds(g)
    BY <1>6, <2>1 DEF ListsRounds
  <2> QED
    BY <2>2 DEF HeldBy
<1> QED
  BY <1>7, <1>8, <1>9

LEMMA NothingIsForm == IsForm(<<>>) /\ ~Spawns(<<>>)
<1>1. Len(<<>>) = 0 /\ 1..0 = {}
  OBVIOUS
<1> QED
  BY <1>1 DEF IsForm, ChoresOnly, Spawns

\* A read after which there is nothing to do.
LEMMA NothingKeepsForm ==
    ASSUME Setting, NEW h \in Busy, h = Loop, UNCHANGED tables,
           Current(h).op \in LastReads, Proceed(h, <<>>) \/ Abandon(h)
    PROVE  CalmStep(h)
<1>1. work[h] \in Handlers /\ Rest(h) = <<>>
  BY BusyIsCalm, RestContinues DEF Setting
<1>2. Proceed(h, <<>>)
  <2> SUFFICES ASSUME Abandon(h)
               PROVE  Proceed(h, <<>>)
    OBVIOUS
  <2> DEFINE w == [work[h] EXCEPT !.todo = <<>> \o Rest(h)]
  <2>1. w.todo = <<>>
    BY <1>1 DEF Handlers
  <2> HIDE DEF w
  <2>2. Resting(w) = Idle
    BY <2>1 DEF Resting
  <2> QED
    BY <2>2 DEF Abandon, Proceed, w
<1>3. <<>> \in Seq({})
  OBVIOUS
<1> QED
  BY <1>2, <1>3, NothingIsForm, ReadKeepsForm

\* A read of the event loop that leads to another.
LEMMA OneReadKeepsForm ==
    ASSUME Setting, NEW h \in Busy, h = Loop, UNCHANGED tables,
           Current(h).op \in LastReads, NEW s, Proceed(h, <<s>>), IsForm(<<s>>),
           s.op \notin RoundStmts,
           s.op \in Spawners =>
               Spawns(work[h].todo) \/ \A g \in Threads : g # h => ~Spawns(work[g].todo)
    PROVE  CalmStep(h)
<1>1. <<s>> \in Seq({s}) /\ <<s>>[1] = s /\ Len(<<s>>) = 1
  OBVIOUS
<1>2. Spawns(<<s>>) => s.op \in Spawners
  BY <1>1 DEF Spawns
<1> QED
  BY <1>1, <1>2, ReadKeepsForm

LEMMA MaybeAdvanceKeepsCalm ==
    ASSUME Setting, NEW h \in Busy, MaybeAdvance(h), UNCHANGED tables
    PROVE  CalmStep(h)
<1> DEFINE p == work[h].todo
           s == ReadStmt("reconcile", None)
<1>1. Current(h).op = "maybe_advance" /\ Current(h).op \in LastReads
  BY DEF MaybeAdvance, At, LastReads
<1>2. h = Loop /\ Judges(p, rounds)
  BY <1>1, Forms DEF Elsewise, BuildsHere, DoesChores, Harmless
<1>3. p[1] = Current(h) /\ h \in Threads
  BY BusyIsCalm
<1>4. PairOrClosed(rounds)
  <2>1. p # <<ReadStmt("reconcile", None)>>
    BY <1>1, <1>3 DEF ReadStmt
  <2> QED
    BY <1>2, <2>1 DEF Judges
<1>5. CASE /\ \A r \in RoundsOfType(rounds, "same_host_pair") : rounds[r].status = "converged"
           /\ Proceed(h, <<s>>)
  <2>1. AllClosed(rounds)
    BY <1>4, <1>5 DEF PairOrClosed, AllClosed, Closed, IsPair, RoundsOfType
  <2>2. IsForm(<<s>>)
    BY <2>1 DEF IsForm, Judges
  <2>3. \A g \in Threads : g # h => ~Spawns(work[g].todo)
    <3> SUFFICES ASSUME NEW g \in Threads, g # h, Spawns(work[g].todo)
                 PROVE  FALSE
      OBVIOUS
    <3>1. g \in Busy /\ <<"rounds", New>> \in HeldBy(g)
      BY <1>2, DeskSpawns DEF Threads
    <3>2. <<"rounds", New>> \in MayWrite(h)
      BY <1>1 DEF MayWrite, HeldBy, ListsRounds, At
    <3>3. Contested \subseteq overtaken /\ overtaken = {}
      BY DEF Setting, StepsInv
    <3> QED
      BY <1>3, <3>1, <3>2, <3>3, SharedIsOvertaken
  <2>4. s.op = "reconcile"
    BY DEF ReadStmt
  <2> QED
    BY <1>1, <1>2, <1>5, <2>2, <2>3, <2>4, OneReadKeepsForm DEF RoundStmts
<1>6. CASE Proceed(h, <<>>)
  BY <1>1, <1>2, <1>6, NothingKeepsForm
<1> QED
  BY <1>5, <1>6 DEF MaybeAdvance

LEMMA ReconcileKeepsCalm ==
    ASSUME Setting, NEW h \in Busy, Reconcile(h), UNCHANGED tables
    PROVE  CalmStep(h)
<1> DEFINE p == work[h].todo
           outcomes == RoundOutcomesPerHost(rounds)
           q == SpawnArbitration(ArbitratorInput(outcomes))
           s == SetSessionStmt("escalated")
<1>1. Current(h).op = "reconcile" /\ Current(h).op \in LastReads
  BY DEF Reconcile, At, LastReads
<1>2. h = Loop /\ Judges(p, rounds)
  BY <1>1, Forms DEF Elsewise, BuildsHere, DoesChores, Harmless
<1>3. p[1] = Current(h) /\ Len(p) \in Nat \ {0}
  BY BusyIsCalm
<1>4. AllClosed(rounds) /\ Spawns(p)
  <2>1. p # <<ReadStmt("maybe_advance", None)>>
    BY <1>1, <1>3 DEF ReadStmt
  <2>2. AllClosed(rounds)
    BY <1>2, <2>1 DEF Judges
  <2>3. 1 \in 1..Len(p) /\ p[1].op \in Spawners
    BY <1>1, <1>3 DEF Spawners
  <2> QED
    BY <2>2, <2>3 DEF Spawns
<1>5. CASE Proceed(h, <<s>>)
  <2>1. s.op = "set_session" /\ s.status # "none"
    BY DEF SetSessionStmt
  <2> HIDE DEF s
  <2>2. IsForm(<<s>>)
    <3>1. \A k \in 1..Len(<<s>>) : <<s>>[k] = s
      OBVIOUS
    <3> QED
      BY <2>1, <3>1 DEF IsForm, ChoresOnly, Harmless
  <2> QED
    BY <1>1, <1>2, <1>4, <1>5, <2>1, <2>2, OneReadKeepsForm DEF RoundStmts
<1>6. CASE Proceed(h, q)
  <2>1. ArbitratorInput(outcomes) \in Inputs
    BY InvTables, OutcomesAreInput DEF Setting, StepsInv
  <2>2. Stages(q, "cross_host_arbitration") /\ q \in Seq(Statement) /\ q[1].op = "open_round"
    BY <1>4, <2>1, ArbitrationStages
  <2> HIDE DEF q
  <2>3. IsForm(q)
    BY <2>2 DEF IsForm, RoundTypes
  <2> QED
    BY <1>1, <1>2, <1>4, <1>6, <2>2, <2>3, ReadKeepsForm DEF RoundStmts
<1> QED
  BY <1>5, <1>6 DEF Reconcile

\* Deciding on the reviews, once they are all closed.
LEMMA DecidesAt ==
    ASSUME Setting, NEW h \in Busy, Current(h).op \in {"execute", "weigh", "mediate"}
    PROVE  /\ h = Loop /\ AllClosed(rounds) /\ Spawns(work[h].todo)
           /\ Current(h).op \in LastReads
           /\ Current(h).op = "execute" => Len(rounds) \in Approved
           /\ Current(h).op # "execute" => Current(h).about \in SUBSET Agents
<1> DEFINE p == work[h].todo
<1>1. h = Loop /\ Reviews(p, rounds, Approved)
  BY Forms DEF Elsewise, BuildsHere, DoesChores, Harmless
<1>2. p[1] = Current(h) /\ Len(p) \in Nat \ {0} /\ Current(h) \in Statement
  BY BusyIsCalm
<1>3. ASSUME NEW r \in DOMAIN rounds, ReviewsIn(p, r, Approved)
      PROVE  FALSE
  <2>1. \A x : p # <<ReadStmt("tally", x)>>
    BY <1>2 DEF ReadStmt
  <2>2. \A x, y, z, s : p # <<SetRoundStmt(x, y, z), s>>
    BY <1>2 DEF SetRoundStmt
  <2> QED
    BY <1>3, <2>1, <2>2 DEF ReviewsIn
<1>4. AllClosed(rounds)
  BY <1>1, <1>3 DEF Reviews
<1>5. Current(h).op = "execute" => Len(rounds) \in Approved
  <2> SUFFICES ASSUME Current(h).op = "execute"
               PROVE  Len(rounds) \in Approved
    OBVIOUS
  <2>1. \A op \in {"weigh", "mediate"}, R \in SUBSET Agents : p # <<ReadStmt(op, R)>>
    BY <1>2 DEF ReadStmt
  <2> QED
    BY <1>1, <1>3, <2>1 DEF Reviews
<1>6. Current(h).op # "execute" => Current(h).about \in SUBSET Agents
  BY <1>2, ReadFields
<1>7. 1 \in 1..Len(p) /\ p[1].op \in Spawners
  BY <1>2 DEF Spawners
<1>8. Spawns(p)
  BY <1>7 DEF Spawns
<1> QED
  BY <1>1, <1>4, <1>5, <1>6, <1>8 DEF LastReads

LEMMA MediateKeepsCalm ==
    ASSUME Setting, NEW h \in Busy, Mediate(h), UNCHANGED tables
    PROVE  CalmStep(h)
<1> DEFINE input == MediationInput(Round2Outcome(rounds), Current(h).about)
           q == SpawnArbitration(input)
<1>1. Current(h).op = "mediate" /\ Proceed(h, q)
  BY DEF Mediate, At
<1>2. /\ h = Loop /\ AllClosed(rounds) /\ Spawns(work[h].todo)
      /\ Current(h).op \in LastReads /\ Current(h).about \in SUBSET Agents
  BY <1>1, DecidesAt
<1>3. input \in Inputs
  <2>1. Round2Outcome(rounds) \in Texts \cup {None}
    BY InvTables, Round2OutcomeIsText DEF Setting
  <2> QED
    BY <1>2, <2>1 DEF Inputs
<1> HIDE DEF input
<1>4. Stages(q, "cross_host_arbitration") /\ q \in Seq(Statement) /\ q[1].op = "open_round"
  BY <1>2, <1>3, ArbitrationStages
<1> HIDE DEF q
<1>5. IsForm(q)
  BY <1>4 DEF IsForm, RoundTypes
<1> QED
  BY <1>1, <1>2, <1>4, <1>5, ReadKeepsForm DEF RoundStmts

LEMMA WeighKeepsCalm ==
    ASSUME Setting, NEW h \in Busy, Weigh(h), UNCHANGED tables
    PROVE  CalmStep(h)
<1> DEFINE R == Current(h).about
           q == SpawnPairs(ProblemWith(R))
           s == ReadStmt("mediate", R)
<1>1. Current(h).op = "weigh" /\ (Proceed(h, q) \/ Proceed(h, <<s>>))
  BY DEF Weigh, At
<1>2. /\ h = Loop /\ AllClosed(rounds) /\ Spawns(work[h].todo)
      /\ Current(h).op \in LastReads /\ R \in SUBSET Agents
  BY <1>1, DecidesAt
<1>3. CASE Proceed(h, <<s>>)
  <2>1. Reviews(<<s>>, rounds, Approved)
    BY <1>2 DEF Reviews
  <2>2. IsForm(<<s>>) /\ s.op \notin RoundStmts
    BY <2>1 DEF IsForm, ReadStmt, RoundStmts
  <2> HIDE DEF s
  <2> QED
    BY <1>2, <1>3, <2>2, OneReadKeepsForm
<1>4. CASE Proceed(h, q)
  <2>1. PairOrClosed(rounds)
    BY <1>2 DEF AllClosed, PairOrClosed
  <2>2. /\ Stages(q, "same_host_pair") /\ \E S : q \in Seq(S)
        /\ q # <<>> => q[1].op \in {"open_round", "set_session"}
    BY <2>1, PairsStages
  <2> HIDE DEF q
  <2>3. IsForm(q)
    BY <2>2 DEF IsForm, RoundTypes
  <2> QED
    BY <1>2, <1>4, <2>2, <2>3, ReadKeepsForm DEF RoundStmts
<1> QED
  BY <1>1, <1>3, <1>4

LEMMA ExecuteKeepsCalm ==
    ASSUME Setting, NEW h \in Busy, Execute(h), UNCHANGED tables
    PROVE  CalmStep(h)
<1> DEFINE input == Draft(Round2Outcome(rounds))
           type == "execute"
<1>1. Current(h).op = "execute"
  BY DEF Execute, At
<1>2. /\ h = Loop /\ AllClosed(rounds) /\ Spawns(work[h].todo)
      /\ Current(h).op \in LastReads /\ Len(rounds) \in Approved
  BY <1>1, DecidesAt
<1>3. type \in RoundTypes /\ type # "same_host_pair" /\ type \notin AnswersOnce
  BY DEF RoundTypes, AnswersOnce
<1> HIDE DEF type
<1>4. ASSUME NEW q, Stages(q, type), q \in Seq(Statement), q[1].op = "open_round", Proceed(h, q)
      PROVE  CalmStep(h)
  <2>1. IsForm(q)
    BY <1>3, <1>4 DEF IsForm
  <2> QED
    BY <1>2, <1>4, <2>1, ReadKeepsForm DEF RoundStmts
<1>5. CASE Round2Outcome(rounds) = None
  <2> DEFINE q == Spawn(type, None, <<>>, <<>>)
             nothing == <<>>
  <2>1. /\ Requests(nothing)
        /\ \A k \in 1..Len(nothing) : nothing[k].input = Draft(Round2Outcome(rounds))
    BY DEF Requests
  <2>2. Proceed(h, q)
    BY <1>5 DEF Execute, type
  <2>3. Stages(q, type) /\ q \in Seq(Statement) /\ q[1].op = "open_round"
    <3>1. q = Spawn(type, None, nothing, <<>>)
      OBVIOUS
    <3> HIDE DEF nothing, q
    <3> QED
      BY <1>2, <1>3, <2>1, <3>1, SpawnStages
  <2> HIDE DEF q
  <2> QED
    BY <1>4, <2>2, <2>3
<1>6. CASE Round2Outcome(rounds) # None
  <2> DEFINE s == NumberStmt(New, None, Executor, input)
             asked == <<s>>
             last == <<SetSessionStmt("executing")>>
             q == Spawn(type, None, asked, last)
  <2>1. Round2Outcome(rounds) \in Texts
    BY <1>6, InvTables, Round2OutcomeIsText DEF Setting
  <2>2. input \in Inputs
    BY <2>1 DEF Inputs
  <2>3. s \in Statement /\ s.op = "number" /\ s.round = New /\ s.input = input
    BY <2>2, NumberIsStatement DEF NumberStmt, Agents, New
  <2>4. Proceed(h, q)
    BY <1>6 DEF Execute, Ask, type
  <2> HIDE DEF s
  <2>5. Requests(asked) /\ \A k \in 1..Len(asked) : asked[k].input = Draft(Round2Outcome(rounds))
    BY <2>3 DEF Requests
  <2>6. \E status \in SessionStatuses \ {"none"} : last = <<SetSessionStmt(status)>>
    BY DEF SessionStatuses
  <2> HIDE DEF asked, last
  <2>7. Stages(q, type) /\ q \in Seq(Statement) /\ q[1].op = "open_round"
    BY <1>2, <1>3, <2>5, <2>6, SpawnStages
  <2> HIDE DEF q
  <2> QED
    BY <1>4, <2>4, <2>7
<1> QED
  BY <1>5, <1>6

LEMMA AskReviewersKeepsCalm ==
    ASSUME Setting, NEW h \in Busy, AskReviewers(h), UNCHANGED tables
    PROVE  CalmStep(h)
<1> DEFINE p == work[h].todo
           x == Current(h).about
           type == "multi_agent_review"
<1>1. Current(h).op = "ask_reviewers" /\ Current(h).op \in LastReads
  BY DEF AskReviewers, At, LastReads
<1>2. h = Loop /\ Arbitrates(p, rounds, iters)
  BY <1>1, Forms DEF Elsewise, BuildsHere, DoesChores, Harmless
<1>3. p[1] = Current(h) /\ Len(p) \in Nat \ {0} /\ Current(h) \in Statement
  BY BusyIsCalm
<1>4. AllClosed(rounds) /\ p = <<ReadStmt("ask_reviewers", Round2Outcome(rounds))>>
  <2>1. \A i, o, a, s, s2 : p # <<RecordStmt(i, o, a), s, s2>>
    BY <1>1, <1>3 DEF RecordStmt
  <2>2. \A y, z, r, s : p # <<SetRoundStmt(r, y, z), s>>
    BY <1>1, <1>3 DEF SetRoundStmt
  <2> QED
    BY <1>2, <2>1, <2>2 DEF Arbitrates, ArbitratesIn
<1>5. x = Round2Outcome(rounds) /\ x \in Texts
  <2>1. p[1] = ReadStmt("ask_reviewers", Round2Outcome(rounds))
    BY <1>4
  <2> QED
    BY <1>1, <1>3, <2>1, ReadFields DEF ReadStmt
<1>6. Spawns(p)
  <2>1. 1 \in 1..Len(p) /\ p[1].op \in Spawners
    BY <1>1, <1>3 DEF Spawners
  <2> QED
    BY <2>1 DEF Spawns
<1>7. CASE Abandon(h)
  BY <1>1, <1>2, <1>7, NothingKeepsForm
<1>8. CASE /\ ExpectedReviewers # {}
           /\ \E order \in [1..Cardinality(ExpectedReviewers) -> ExpectedReviewers] :
                  Proceed(h, Spawn("multi_agent_review", None,
                      [k \in DOMAIN order |-> NumberStmt(New, None, order[k], Draft(x))],
                      <<SetSessionStmt("round_3")>>))
  <2>1. PICK order \in [1..Cardinality(ExpectedReviewers) -> ExpectedReviewers] :
            Proceed(h, Spawn("multi_agent_review", None,
                [k \in DOMAIN order |-> NumberStmt(New, None, order[k], Draft(x))],
                <<SetSessionStmt("round_3")>>))
    BY <1>8
  <2> DEFINE asked == [k \in DOMAIN order |-> NumberStmt(New, None, order[k], Draft(x))]
             last == <<SetSessionStmt("round_3")>>
             q == Spawn(type, None, asked, last)
  <2>2. Requests(asked)
    BY <1>5, <1>8, ReviewRequests, Zenon
  <2>3. \A k \in 1..Len(asked) : asked[k].input = Draft(Round2Outcome(rounds))
    <3> SUFFICES ASSUME NEW k \in 1..Len(asked)
                 PROVE  asked[k].input = Draft(Round2Outcome(rounds))
      OBVIOUS
    <3>1. asked \in Seq(Statement)
      BY <2>2 DEF Requests
    <3>2. 1..Len(asked) = DOMAIN asked
      <4> HIDE DEF asked
      <4> QED
        BY <3>1
    <3>3. k \in DOMAIN order
      BY <3>2
    <3>4. asked[k] = NumberStmt(New, None, order[k], Draft(x))
      BY <3>3
    <3> QED
      BY <1>5, <3>4 DEF NumberStmt
  <2>4. \E status \in SessionStatuses \ {"none"} : last = <<SetSessionStmt(status)>>
    BY DEF SessionStatuses
  <2>5. type \in RoundTypes /\ type # "same_host_pair" /\ type # "execute" /\ type \notin AnswersOnce
    BY DEF RoundTypes, AnswersOnce
  <2>6. Proceed(h, q)
    BY <2>1
  <2> HIDE DEF asked, last, type
  <2>7. Stages(q, type) /\ q \in Seq(Statement) /\ q[1].op = "open_round"
    BY <1>4, <2>2, <2>3, <2>4, <2>5, SpawnStages
  <2> HIDE DEF q
  <2>8. IsForm(q)
    BY <2>5, <2>7 DEF IsForm
  <2> QED
    BY <1>1, <1>2, <1>6, <2>6, <2>7, <2>8, ReadKeepsForm DEF RoundStmts
<1> QED
  BY <1>7, <1>8 DEF AskReviewers

LEMMA TallyKeepsCalm ==
    ASSUME Setting, NEW h \in Busy, Tally(h), UNCHANGED tables
    PROVE  CalmStep(h)
<1> DEFINE p == work[h].todo
<1>1. Current(h).op = "tally" /\ Current(h).op \in LastReads
  BY DEF Tally, At, LastReads
<1>2. h = Loop /\ Reviews(p, rounds, Approved)
  BY <1>1, Forms DEF Elsewise, BuildsHere, DoesChores, Harmless
<1>3. p[1] = Current(h)
  BY BusyIsCalm
<1>4. PICK r \in DOMAIN rounds : IsReview(rounds, r) /\ ~Closed(rounds, r) /\ ReviewsIn(p, r, Approved)
  <2>1. \A op \in {"execute", "weigh", "mediate"} : \A x : p # <<ReadStmt(op, x)>>
    BY <1>1, <1>3 DEF ReadStmt
  <2> QED
    BY <1>2, <2>1 DEF Reviews
<1>5. p = <<ReadStmt("tally", r)>>
  <2>1. \A x, y, z, s : p # <<SetRoundStmt(x, y, z), s>>
    BY <1>1, <1>3 DEF SetRoundStmt
  <2> QED
    BY <1>4, <2>1 DEF ReviewsIn
<1>6. Current(h).about = r
  BY <1>3, <1>5 DEF ReadStmt
<1>7. CASE Proceed(h, <<>>)
  BY <1>1, <1>2, <1>7, NothingKeepsForm
<1> DEFINE rejecters == RejectersOf(reviews, r)
           a == SetRoundStmt(r, "complete", None)
           d == IF rejecters = {} THEN ReadStmt("execute", None) ELSE ReadStmt("weigh", rejecters)
<1>8. CASE ExpectedReviewers \subseteq ReviewersOf(reviews, r) /\ Proceed(h, <<a, d>>)
  <2>1. ReviewsIn(<<a, d>>, r, Approved)
    <3>1. CASE rejecters = {}
      <4>1. r \in Approved
        BY <1>4, <1>8, <3>1 DEF Approved, RoundsOfType, IsReview
      <4> QED
        BY <3>1, <4>1 DEF ReviewsIn
    <3>2. CASE rejecters # {}
      <4>1. rejecters \in SUBSET Agents
        BY DEF Setting, StepsInv, StepsTypeOK, TypeOK, RejectersOf, Review
      <4> QED
        BY <3>2, <4>1 DEF ReviewsIn
    <3> QED
      BY <3>1, <3>2
  <2>2. IsForm(<<a, d>>)
    BY <1>4, <2>1 DEF IsForm, Reviews
  <2>3. \A g \in Threads : g # h => ~Spawns(work[g].todo)
    BY <1>2, <1>4, DeskSpawns DEF Threads, PairOrClosed, IsPair, IsReview
  <2>4. a.op = "set_round" /\ a.round = r /\ r # New
    BY SettingTables DEF SetRoundStmt, New
  <2> HIDE DEF a, d
  <2>5. <<a, d>> \in Seq({a, d}) /\ <<a, d>>[1] = a
    OBVIOUS
  <2> QED
    BY <1>1, <1>2, <1>8, <2>2, <2>3, <2>4, <2>5, ReadKeepsForm
<1> QED
  BY <1>6, <1>7, <1>8 DEF Tally

LEMMA ReadKeepsCalm ==
    ASSUME Setting, Read
    PROVE  \E h \in Threads : CalmStep(h)
<1>1. PICK h \in Busy :
          \/ Check(h) \/ Number(h) \/ Advance(h) \/ MaybeAdvance(h) \/ Reconcile(h)
          \/ Arbitrate(h) \/ Close(h) \/ AskReviewers(h) \/ Tally(h) \/ Weigh(h)
          \/ Mediate(h) \/ Execute(h)
  BY DEF Read
<1>2. h \in Threads /\ UNCHANGED tables
  BY BusyIsCalm DEF Read
<1>3. ~Arbitrate(h) /\ ~Close(h)
  BY NoOverrideStatement DEF Arbitrate, Close, At
<1>4. CalmStep(h)
  BY <1>1, <1>2, <1>3, CheckKeepsCalm, NumberKeepsCalm, AdvanceKeepsCalm, MaybeAdvanceKeepsCalm,
     ReconcileKeepsCalm, AskReviewersKeepsCalm, TallyKeepsCalm, WeighKeepsCalm,
     MediateKeepsCalm, ExecuteKeepsCalm
<1> QED
  BY <1>2, <1>4

LEMMA WriteKeepsCalm ==
    ASSUME Setting, Write
    PROVE  \E h \in Threads : CalmStep(h)
<1>1. PICK h \in Busy :
          \/ OpenRound(h) \/ SetRound(h) \/ Insert(h) \/ Release(h) \/ Record(h)
          \/ SetSession(h) \/ Finalize(h) \/ WriteSkips(h)
  BY DEF Write
<1>2. h \in Threads
  BY BusyIsCalm
<1>3. ~WriteSkips(h)
  BY NoOverrideStatement DEF WriteSkips, At
<1>4. CalmStep(h)
  BY <1>1, <1>3, OpenRoundKeepsCalm, SetRoundKeepsCalm, InsertKeepsCalm, ReleaseKeepsCalm,
     RecordKeepsCalm, SetSessionKeepsCalm, FinalizeKeepsCalm
<1> QED
  BY <1>2, <1>4

-----------------------------------------------------------------------------
(***************************************************************************)
(* Handlers that begin.                                                    *)
(***************************************************************************)
LEMMA BeginKeepsForm ==
    ASSUME Setting, NEW h \in Threads, UNCHANGED <<rounds, iters, reviews, skipped>>,
           session' # "none", NEW s, Begin(h, s),
           IF h = Loop THEN IsForm(s) ELSE Releases(s) \/ Stages(s, "same_host_pair"),
           Spawns(s) => \A g \in Threads : g # h => ~Spawns(work[g].todo),
           s # <<>> => s[1].op \notin RoundStmts \/ s[1].round # New
    PROVE  CalmStep(h)
<1>1. /\ work' = [work EXCEPT ![h] = work'[h]]
      /\ work'[h].todo = s
  BY BeginsWith
<1>2. /\ Approved' = Approved
      /\ CalmTables(rounds', iters', Approved')
      /\ Touches(h) /\ Outside(h)
  BY QuietKeepsCalm
<1>3. ~Fills(work'[h])
  BY <1>1 DEF Fills
<1>4. ASSUME NEW type, Stages(s, type)
      PROVE  Builds(work'[h], type, rounds, iters, Approved)
  BY <1>1, <1>3, <1>4 DEF Builds, Stages
<1>5. CASE h = Loop
  <2>1. LoopCalm(work'[h], rounds, iters, Approved)
    BY <1>1, <1>4, <1>5 DEF IsForm, LoopCalm
  <2>2. IsCalm(h, work'[h], rounds', iters', Approved')
    BY <1>2, <1>5, <2>1 DEF IsCalm
  <2> QED
    BY <1>1, <1>2, <1>3, <2>2 DEF CalmStep, MaySpawn, FillsItsOwn
<1>6. CASE h # Loop
  <2>1. DeskCalm(work'[h], rounds, iters, Approved)
    BY <1>1, <1>4, <1>6 DEF DeskCalm
  <2>2. IsCalm(h, work'[h], rounds', iters', Approved')
    BY <1>2, <1>6, <2>1 DEF IsCalm
  <2> QED
    BY <1>1, <1>2, <1>3, <2>2 DEF CalmStep, MaySpawn, FillsItsOwn
<1> QED
  BY <1>5, <1>6

\* There is no request before there is a session.
LEMMA RequestsHaveSession ==
    ASSUME Setting, DOMAIN rounds # {} \/ DOMAIN iters # {}
    PROVE  session # "none"
<1>1. rounds # <<>>
  BY SettingTables
<1> QED
  BY <1>1 DEF Setting, Calm, CalmThreads

LEMMA CreateSessionKeepsCalm ==
    ASSUME Setting, NEW h \in Desk, CreateSession(h)
    PROVE  CalmStep(h)
<1> DEFINE s == SpawnPairs(Problem)
<1>1. /\ session = "none" /\ session' = "drafting" /\ Begin(h, s)
      /\ UNCHANGED <<rounds, iters, reviews, skipped>>
  BY DEF CreateSession
<1>2. h \in Threads /\ h # Loop
  BY ThreadAssumption DEF Threads
<1>3. rounds = <<>> /\ Busy = {}
  BY <1>1 DEF Setting, Calm, CalmThreads
<1>4. PairOrClosed(rounds)
  BY <1>3 DEF PairOrClosed
<1>5. /\ Stages(s, "same_host_pair")
      /\ s # <<>> => s[1].op \in {"open_round", "set_session"}
  BY <1>4, PairsStages
<1>6. ASSUME NEW g \in Threads
      PROVE  ~Spawns(work[g].todo)
  <2>1. work[g].todo = <<>>
    BY <1>3 DEF Busy
  <2> QED
    BY <2>1, NothingIsForm
<1> HIDE DEF s
<1> QED
  BY <1>1, <1>2, <1>5, <1>6, BeginKeepsForm DEF RoundStmts

LEMMA DestinationRespondsKeepsCalm ==
    ASSUME Setting, NEW i \in DOMAIN iters, NEW output \in Texts, NEW assess \in Assessments,
           DestinationResponds(i, output, assess)
    PROVE  CalmStep(Loop)
<1> DEFINE r == iters[i].round
           a == RecordStmt(i, output, assess)
           b == ReadStmt("advance", r)
           c == SetRoundStmt(r, "complete", output)
           d == ReadStmt("ask_reviewers", output)
<1>1. /\ UNCHANGED <<session, rounds, iters, reviews, skipped>>
      /\ iters[i].status = "awaiting_destination"
      /\ \/ IsPair(rounds, r) /\ Begin(Loop, <<a, b>>)
         \/ IsArbitration(rounds, r) /\ Begin(Loop, <<a, c, d>>)
  BY DEF DestinationResponds, CanRespond, IsPair, IsArbitration, tables
<1>2. Loop \in Threads /\ session # "none" /\ r \in DOMAIN rounds /\ i \in IterationsOf(iters, r)
  BY RequestsHaveSession, SettingTables DEF Threads, IterationsOf
<1>3. ~Closed(rounds, r)
  <2>1. ~IsReview(rounds, r)
    BY <1>1 DEF IsPair, IsArbitration, IsReview
  <2> QED
    BY <1>1, <2>1 DEF Setting, Calm, CalmTables, AnswersTell
<1>4. /\ a.op = "record" /\ b.op = "advance" /\ c.op = "set_round"
  BY DEF RecordStmt, ReadStmt, SetRoundStmt
<1>5. CASE IsPair(rounds, r) /\ Begin(Loop, <<a, b>>)
  <2>1. RelaysIn(<<a, b>>, r, iters)
    BY <1>2 DEF RelaysIn
  <2>2. IsForm(<<a, b>>)
    BY <1>2, <1>3, <1>5, <2>1 DEF IsForm, Relays
  <2> HIDE DEF a, b
  <2>3. ~Spawns(<<a, b>>)
    BY <1>4 DEF Spawns, Spawners
  <2>4. <<a, b>>[1] = a
    OBVIOUS
  <2> QED
    BY <1>1, <1>2, <1>4, <1>5, <2>2, <2>3, <2>4, BeginKeepsForm DEF RoundStmts
<1>6. CASE IsArbitration(rounds, r) /\ Begin(Loop, <<a, c, d>>)
  <2>1. ArbitratesIn(<<a, c, d>>, r, iters)
    BY <1>2 DEF ArbitratesIn
  <2>2. IsForm(<<a, c, d>>)
    BY <1>2, <1>3, <1>6, <2>1 DEF IsForm, Arbitrates
  <2>3. \A g \in Threads : g # Loop => ~Spawns(work[g].todo)
    BY <1>2, <1>3, <1>6, DeskSpawns DEF Threads, PairOrClosed, IsPair, IsArbitration
  <2> HIDE DEF a, c, d
  <2>4. <<a, c, d>>[1] = a
    OBVIOUS
  <2> QED
    BY <1>1, <1>2, <1>4, <1>6, <2>2, <2>3, <2>4, BeginKeepsForm DEF RoundStmts
<1> QED
  BY <1>1, <1>5, <1>6

LEMMA ReviewerDecidesKeepsCalm ==
    ASSUME Setting, NEW r \in DOMAIN rounds, NEW a \in Agents, NEW decision,
           ReviewerDecides(r, a, decision)
    PROVE  CalmStep(Loop)
<1> DEFINE s == ReadStmt("tally", r)
           v == [round |-> r, reviewer |-> a, decision |-> decision]
<1>1. /\ UNCHANGED <<session, rounds, iters, skipped>> /\ reviews' = reviews \cup {v}
      /\ rounds[r].status = "in_progress" /\ IsReview(rounds, r)
      /\ Begin(Loop, <<s>>) /\ v.round = r
  BY DEF ReviewerDecides, OpenReviewRequest, IsReview
<1>2. Loop \in Threads /\ session # "none" /\ Loop \notin Desk
  BY RequestsHaveSession, ThreadAssumption DEF Threads
<1>3. ~Closed(rounds, r) /\ ~IsPair(rounds, r)
  BY <1>1 DEF Closed, IsReview, IsPair
<1>4. r = Len(rounds)
  BY <1>3, OpenIsLast, SettingTables DEF Setting, Calm, CalmTables
<1>5. ASSUME NEW q \in Approved, q # r
      PROVE  q \in Approved'
  <2> HIDE DEF v
  <2>1. \A u \in reviews' : u.round = q <=> u \in reviews /\ u.round = q
    BY <1>1, <1>5
  <2>2. {w \in reviews' : w.round = q} = {w \in reviews : w.round = q}
    BY <1>1, <2>1
  <2>3. {w \in reviews' : w.round = q /\ w.decision = "reject"}
            = {w \in reviews : w.round = q /\ w.decision = "reject"}
    BY <1>1, <2>1
  <2>4. ReviewersOf(reviews', q) = ReviewersOf(reviews, q)
    BY <2>2 DEF ReviewersOf
  <2>5. RejectersOf(reviews', q) = RejectersOf(reviews, q)
    BY <2>3 DEF RejectersOf
  <2> QED
    BY <1>1, <1>5, <2>4, <2>5 DEF Approved, ExpectedReviewers
<1>6. ExecutesApproved(rounds, Approved')
  <2> SUFFICES ASSUME NEW e \in DOMAIN rounds, IsExecution(rounds, e)
               PROVE  e - 1 \in Approved'
    BY DEF ExecutesApproved
  <2>1. e - 1 \in Approved
    BY DEF Setting, Calm, CalmTables, ExecutesApproved
  <2>2. e - 1 # r
    BY <1>4, SettingTables
  <2> QED
    BY <1>5, <2>1, <2>2
<1>7. CalmTables(rounds', iters', Approved')
  BY <1>1, <1>6 DEF Setting, Calm, CalmTables
<1>8. work' = [work EXCEPT ![Loop] = work'[Loop]] /\ work'[Loop].todo = <<s>>
  BY <1>1, <1>2, BeginsWith
<1>9. IsCalm(Loop, work'[Loop], rounds', iters', Approved')
  <2>1. ReviewsIn(<<s>>, r, Approved')
    BY DEF ReviewsIn
  <2>2. Reviews(<<s>>, rounds', Approved')
    BY <1>1, <1>3, <2>1 DEF Reviews
  <2> QED
    BY <1>8, <2>2 DEF IsCalm, LoopCalm
<1>10. s.op = "tally"
  BY DEF ReadStmt
<1> HIDE DEF s
<1>11. <<s>>[1] = s /\ Len(<<s>>) = 1
  OBVIOUS
<1>12. ~Spawns(work'[Loop].todo) /\ ~Fills(work'[Loop])
  BY <1>8, <1>10, <1>11 DEF Spawns, Spawners, Fills, RoundStmts
<1>13. Touches(Loop)
  BY <1>1 DEF Touches
<1> QED
  BY <1>1, <1>2, <1>7, <1>8, <1>9, <1>12, <1>13 DEF CalmStep, MaySpawn, FillsItsOwn

\* Chores that begin.
LEMMA ChoresBegin ==
    ASSUME Setting, NEW s \in Seq({u \in Statement : Harmless(u, rounds, iters)}),
           UNCHANGED tables, Begin(Loop, s), DOMAIN iters # {}
    PROVE  CalmStep(Loop)
<1> DEFINE S == {u \in Statement : Harmless(u, rounds, iters)}
<1>1. \A u \in S : Harmless(u, rounds, iters)
  OBVIOUS
<1> HIDE DEF S
<1>2. \A k \in 1..Len(s) : s[k] \in S
  BY DEF S
<1>3. ChoresOnly(s, rounds, iters)
  BY <1>1, <1>2 DEF ChoresOnly
<1>4. ~Spawns(s)
  BY <1>3 DEF ChoresOnly, Harmless, Spawns, Spawners
<1>5. s # <<>> => s[1].op \notin RoundStmts \/ s[1].round # New
  <2> SUFFICES ASSUME s # <<>>
               PROVE  s[1].op \notin RoundStmts \/ s[1].round # New
    OBVIOUS
  <2>1. 1 \in 1..Len(s)
    BY DEF S
  <2>2. Harmless(s[1], rounds, iters)
    BY <1>3, <2>1 DEF ChoresOnly
  <2>3. \A r \in DOMAIN rounds : r # New
    BY SettingTables DEF New
  <2> QED
    BY <2>2, <2>3 DEF Harmless, RoundStmts
<1>6. Loop \in Threads /\ session # "none"
  BY RequestsHaveSession DEF Threads
<1>7. IsForm(s)
  BY <1>3 DEF IsForm
<1> QED
  BY <1>4, <1>5, <1>6, <1>7, BeginKeepsForm DEF tables

LEMMA SweepKeepsCalm ==
    ASSUME Setting, Sweep
    PROVE  CalmStep(Loop)
<1>1. PICK p : /\ Begin(Loop, p) /\ Plan(p, rounds, iters, overtaken)
               /\ \A k \in 1..Len(p) : p[k].op \in {"release", "check"}
  BY SweepPlan DEF Setting
<1> DEFINE S == {u \in Statement : Harmless(u, rounds, iters)}
<1>2. p \in Seq(Statement)
  BY <1>1 DEF Plan
<1>3. \A k \in 1..Len(p) : p[k] \in S
  BY <1>1, <1>2 DEF Harmless
<1> HIDE DEF S
<1>4. p \in Seq(S)
  BY <1>2, <1>3
<1>5. UNCHANGED tables /\ DOMAIN iters # {}
  BY DEF Sweep, AwaitingNudge
<1> QED
  BY <1>1, <1>4, <1>5, ChoresBegin DEF S

LEMMA ExecutorReportsKeepsCalm ==
    ASSUME Setting, NEW i \in DOMAIN iters, NEW output \in Texts, NEW success \in BOOLEAN,
           ExecutorReports(i, output, success)
    PROVE  CalmStep(Loop)
<1> DEFINE S == {u \in Statement : Harmless(u, rounds, iters)}
           r == iters[i].round
           a == ReleaseStmt(i, FALSE)
           b == CheckStmt(i, "awaiting_destination")
           c(assess) == RecordStmt(i, output, assess)
           d(status) == SetRoundStmt(r, status, output)
           fin == FinalizeStmt(output)
           e(status) == SetSessionStmt(status)
<1>1. r \in DOMAIN rounds /\ r \in Nat /\ i \in Nat /\ IsExecution(rounds, r)
  BY SettingTables DEF ExecutorReports, CanExecute, IsExecution
<1>2. a \in Statement /\ a.op = "release"
  <2>1. FALSE \in BOOLEAN
    OBVIOUS
  <2> QED
    BY <1>1, <2>1, RequestStatements DEF ReleaseStmt
<1>3. b \in Statement /\ b.op = "check"
  <2>1. "awaiting_destination" \in IterationStatuses
    BY DEF IterationStatuses
  <2> QED
    BY <1>1, <2>1, RequestStatements DEF CheckStmt
<1>4. ASSUME NEW assess \in Assessments
      PROVE  c(assess) \in Statement /\ c(assess).op = "record" /\ c(assess).request = i
  BY <1>1, <1>4, RequestStatements DEF RecordStmt, Assessments
<1>5. ASSUME NEW status \in {"complete", "escalated"}
      PROVE  /\ d(status) \in Statement /\ d(status).op = "set_round" /\ d(status).round = r
             /\ e(status) \in Statement /\ e(status).op = "set_session" /\ e(status).status # "none"
  BY <1>1, <1>5, SetRoundIsStatement, SessionStatements
     DEF SetRoundStmt, SetSessionStmt, RoundStatuses, SessionStatuses
<1>6. fin \in Statement /\ fin.op = "finalize"
  BY SessionStatements DEF FinalizeStmt
<1>7. /\ a \in S /\ b \in S /\ fin \in S
      /\ c("converged") \in S /\ c("more_work_needed") \in S
      /\ d("complete") \in S /\ d("escalated") \in S
      /\ e("complete") \in S /\ e("escalated") \in S
  BY <1>1, <1>2, <1>3, <1>4, <1>5, <1>6 DEF Harmless, Assessments
<1> DEFINE waited == IF iters[i].status = "awaiting_nudge" THEN <<a, b>> ELSE <<>>
           prompt == IF finalized = None THEN <<fin>> ELSE <<>>
           good == waited \o <<c("converged"), d("complete")>> \o prompt \o <<e("complete")>>
           bad == waited \o <<c("more_work_needed"), d("escalated"), e("escalated")>>
<1>8. Begin(Loop, good) \/ Begin(Loop, bad)
  BY DEF ExecutorReports
<1>9. UNCHANGED tables /\ DOMAIN iters # {}
  BY DEF ExecutorReports
<1> HIDE DEF S, a, b, c, d, e, fin
<1>10. waited \in Seq(S) /\ prompt \in Seq(S)
  BY <1>7
<1>11. good \in Seq(S) /\ bad \in Seq(S)
  <2> HIDE DEF waited, prompt
  <2>1. /\ <<c("converged"), d("complete")>> \in Seq(S) /\ <<e("complete")>> \in Seq(S)
        /\ <<c("more_work_needed"), d("escalated"), e("escalated")>> \in Seq(S)
    BY <1>7
  <2>2. \A x, y \in Seq(S) : x \o y \in Seq(S)
    OBVIOUS
  <2> QED
    BY <1>10, <2>1, <2>2
<1> HIDE DEF good, bad
<1> QED
  BY <1>8, <1>9, <1>11, ChoresBegin DEF S

LEMMA NudgeKeepsCalm ==
    ASSUME Setting, NEW h \in Desk, NEW i \in DOMAIN iters, NEW submit, NudgeOrSkip(h, i, submit)
    PROVE  CalmStep(h)
<1> DEFINE s == ReleaseStmt(i, submit)
<1>1. Begin(h, <<s>>) /\ UNCHANGED tables
  BY DEF NudgeOrSkip
<1>2. h \in Threads /\ h # Loop /\ session # "none"
  BY RequestsHaveSession, ThreadAssumption DEF Threads
<1>3. s.op = "release"
  BY DEF ReleaseStmt
<1> HIDE DEF s
<1>4. Len(<<s>>) = 1 /\ <<s>>[1] = s
  OBVIOUS
<1>5. Releases(<<s>>) /\ ~Spawns(<<s>>)
  BY <1>3, <1>4 DEF Releases, Spawns, Spawners
<1> QED
  BY <1>1, <1>2, <1>3, <1>4, <1>5, BeginKeepsForm DEF tables, RoundStmts

-----------------------------------------------------------------------------
(***************************************************************************)
(* Every step keeps calm.                                                  *)
(***************************************************************************)
LEMMA HandleKeepsCalm ==
    ASSUME Setting, Handle, overrides' = 0
    PROVE  Calm'
<1>1. ASSUME NEW h \in Threads, CalmStep(h)
      PROVE  Calm'
  BY <1>1, CalmAfterStep
<1>2. Loop \in Threads /\ Desk \subseteq Threads
  BY DEF Threads
<1>3. CASE Write \/ Read
  BY <1>1, <1>3, WriteKeepsCalm, ReadKeepsCalm
<1>4. CASE AgentCall
  <2>1. CalmStep(Loop)
    BY <1>4, DestinationRespondsKeepsCalm, ReviewerDecidesKeepsCalm, ExecutorReportsKeepsCalm
       DEF AgentCall, Assessments
  <2> QED
    BY <1>1, <1>2, <2>1
<1>5. CASE Sweep
  BY <1>1, <1>2, <1>5, SweepKeepsCalm
<1>6. CASE \E h \in Desk \ Busy : CreateSession(h)
  BY <1>1, <1>2, <1>6, CreateSessionKeepsCalm
<1>7. CASE \E h \in Desk \ Busy, i \in DOMAIN iters, submit \in BOOLEAN : NudgeOrSkip(h, i, submit)
  BY <1>1, <1>2, <1>7, NudgeKeepsCalm
<1>8. CASE \E h \in Desk \ Busy : Override(h)
  <2>1. \E kind : Overrides(kind)
    BY <1>8 DEF Override, AbortSession, ResolveByAbort, ForceConverge, ToArbitrator,
                RetryRequest, SkipReviewer
  <2> QED
    BY <2>1, OverridesCount DEF Setting
<1> QED
  BY <1>3, <1>4, <1>5, <1>6, <1>7, <1>8 DEF Handle

\* A thread that is idle is calm whatever the tables are.
LEMMA IdleIsCalm ==
    ASSUME NEW h, NEW rs, NEW t, NEW ok
    PROVE  IsCalm(h, Idle, rs, t, ok) /\ ~Spawns(Idle.todo) /\ ~Fills(Idle)
<1>1. Idle.todo = <<>> /\ Len(<<>>) = 0 /\ 1..0 = {}
  BY DEF Idle
<1> QED
  BY <1>1 DEF IsCalm, LoopCalm, DeskCalm, ChoresOnly, Releases, Spawns, Fills

\* After a crash only the tables matter.
LEMMA AllIdleIsCalm ==
    ASSUME CalmTables(rounds', iters', Approved'), \A h \in Threads : work'[h] = Idle,
           session' = "none" => rounds' = <<>>
    PROVE  Calm'
<1>1. \A h \in Threads : /\ IsCalm(h, work'[h], rounds', iters', Approved')
                         /\ ~Spawns(work'[h].todo) /\ ~Fills(work'[h])
  BY IdleIsCalm
<1>2. Busy' = {}
  BY DEF Busy, Idle
<1> QED
  BY <1>1, <1>2 DEF Calm, CalmThreads

LEMMA CalmKept ==
    ASSUME StepsInv, CalmInv, [StepsNext]_stepVars
    PROVE  CalmInv'
<1> SUFFICES ASSUME overrides' = 0, overtaken' = {}
             PROVE  Calm'
  BY DEF CalmInv
<1>1. CASE Handle /\ overtaken' = overtaken \cup Contested'
  <2>1. overtaken = {}
    BY <1>1
  <2>2. overrides = 0
    <3>1. overrides \in Nat /\ \A kind \in OperatorActions : Cost[kind] \in Nat
      BY ThreadAssumption, EnvironmentAssumption DEF StepsInv, StepsTypeOK, TypeOK
    <3>2. ASSUME NEW h, Override(h)
          PROVE  overrides = 0
      <4>1. PICK kind : Overrides(kind)
        BY <3>2 DEF Override, AbortSession, ResolveByAbort, ForceConverge, ToArbitrator,
                    RetryRequest, SkipReviewer
      <4> QED
        BY <4>1, OverridesCount
    <3> QED
      BY <1>1, <3>2 DEF Handle
  <2>3. Setting
    <3>1. Grown(rounds, iters, rounds', iters')
      BY <1>1, HandleIsSteady DEF Steady, KeepsToItsRows
    <3> QED
      BY <2>1, <2>2, <3>1 DEF Setting, CalmInv
  <2> QED
    BY <1>1, <2>3, HandleKeepsCalm
<1>2. CASE Crash /\ overtaken' = overtaken \cup Contested'
  <2>1. /\ UNCHANGED <<session, rounds, iters, reviews, skipped, overrides>>
        /\ \A h \in Threads : work'[h] = Idle
    BY <1>2 DEF Crash, tables
  <2>2. Calm
    BY <1>2, <2>1 DEF CalmInv
  <2>3. CalmTables(rounds', iters', Approved')
    BY <2>1, <2>2 DEF Calm, Approved, ExpectedReviewers
  <2> QED
    BY <2>1, <2>2, <2>3, AllIdleIsCalm DEF Calm, CalmThreads
<1>3. CASE UNCHANGED stepVars
  <2>1. UNCHANGED <<session, rounds, iters, reviews, skipped, overrides, work, overtaken>>
    BY <1>3 DEF stepVars, vars
  <2>2. Calm /\ Approved' = Approved /\ Busy' = Busy
    BY <2>1 DEF CalmInv, Approved, ExpectedReviewers, Busy
  <2> QED
    BY <2>1, <2>2 DEF Calm, CalmThreads
<1> QED
  BY <1>1, <1>2, <1>3 DEF StepsNext

LEMMA CalmInitInv == StepsInit => CalmInv
<1> SUFFICES ASSUME StepsInit
             PROVE  Calm
  BY DEF CalmInv
<1>1. /\ rounds = <<>> /\ iters = <<>> /\ \A h \in Threads : work[h] = Idle
  BY DEF StepsInit, Init
<1>2. DOMAIN rounds = {} /\ DOMAIN iters = {}
  BY <1>1
<1>3. CalmTables(rounds, iters, Approved)
  BY <1>2 DEF CalmTables, InOrder, AnswersTell, OneArbiter, LastIsOpen, Relayed, Shown,
              ExecutesApproved
<1>4. \A h \in Threads : /\ IsCalm(h, work[h], rounds, iters, Approved)
                         /\ ~Spawns(work[h].todo) /\ ~Fills(work[h])
  BY <1>1, IdleIsCalm
<1>5. Busy = {}
  BY <1>1 DEF Busy, Idle
<1> QED
  BY <1>1, <1>3, <1>4, <1>5 DEF Calm, CalmThreads

\* What is calm is sound.
LEMMA CalmIsSound ==
    ASSUME StepsInv, CalmInv
    PROVE  SoundWhenUndisturbed
<1> SUFFICES ASSUME overrides = 0, overtaken = {}
             PROVE  RelayUnbroken /\ ApprovedBeforeExecution /\ ReviewShowsSynthesis
  BY DEF SoundWhenUndisturbed
<1>1. CalmTables(rounds, iters, Approved)
  BY DEF CalmInv, Calm
<1>2. /\ rounds \in Seq(Round) /\ Len(rounds) \in Nat /\ DOMAIN rounds = 1..Len(rounds)
      /\ \A i \in DOMAIN iters : iters[i].round \in DOMAIN rounds
  BY InvTables DEF Tables
<1>3. RelayUnbroken
  BY <1>1, <1>2 DEF RelayUnbroken, CalmTables, Relayed, HandsOn, IsPair, IsType
\* Behind a round that is open no synthesis has been asked for.
<1>4. ASSUME NEW x \in DOMAIN rounds, IsReview(rounds, x) \/ IsExecution(rounds, x),
             ~Closed(rounds, x)
      PROVE  /\ x = Len(rounds)
             /\ \A q \in DOMAIN rounds : IsArbitration(rounds, q) => q < x
  <2>1. x = Len(rounds)
    BY <1>1, <1>2, <1>4, OpenIsLast DEF CalmTables, IsPair, IsReview, IsExecution
  <2>2. \A q \in DOMAIN rounds : IsArbitration(rounds, q) => q # x
    BY <1>4 DEF IsReview, IsExecution, IsArbitration
  <2> QED
    BY <1>2, <2>1, <2>2
<1>5. ApprovedBeforeExecution
  <2> SUFFICES ASSUME NEW e \in DOMAIN iters, IsExecution(rounds, iters[e].round)
               PROVE  \E r \in RoundsOfType(rounds, "multi_agent_review") :
                          /\ r < iters[e].round
                          /\ ExpectedReviewers \subseteq ReviewersOf(reviews, r)
                          /\ RejectersOf(reviews, r) = {}
                          /\ \A i \in IterationsOf(iters, r) : iters[i].input = iters[e].input
    BY DEF ApprovedBeforeExecution, IsExecution, IsType
  <2> DEFINE x == iters[e].round
             r == x - 1
  <2>1. x \in DOMAIN rounds /\ ~Closed(rounds, x)
    BY <1>2 DEF IsExecution, Closed, IsPair, IsArbitration, IsReview
  <2>2. /\ x = Len(rounds)
        /\ \A q \in DOMAIN rounds : IsArbitration(rounds, q) => q < x
    BY <1>4, <2>1
  <2>3. r \in Approved
    BY <1>1, <2>1 DEF CalmTables, ExecutesApproved
  <2>4. /\ r \in RoundsOfType(rounds, "multi_agent_review") /\ r \in DOMAIN rounds
        /\ IsReview(rounds, r) /\ r < x
        /\ ExpectedReviewers \subseteq ReviewersOf(reviews, r) /\ RejectersOf(reviews, r) = {}
    BY <1>2, <2>1, <2>3 DEF Approved, RoundsOfType, IsReview
  <2>5. \A q \in DOMAIN rounds : IsArbitration(rounds, q) => q < r
    <3> SUFFICES ASSUME NEW q \in DOMAIN rounds, IsArbitration(rounds, q)
                 PROVE  q < r
      OBVIOUS
    <3>1. q # r
      BY <2>4 DEF IsReview, IsArbitration
    <3>2. q < x
      BY <2>2
    <3> QED
      BY <1>2, <2>1, <3>1, <3>2
  <2>6. iters[e].input = Draft(Round2Outcome(rounds))
    BY <1>1, <2>2 DEF CalmTables, Shown
  <2>7. \A i \in IterationsOf(iters, r) : iters[i].input = Draft(Round2Outcome(rounds))
    BY <1>1, <2>4, <2>5 DEF CalmTables, Shown, IterationsOf
  <2> QED
    BY <2>4, <2>6, <2>7
<1>6. ReviewShowsSynthesis
  <2> SUFFICES ASSUME NEW r \in DOMAIN rounds, rounds[r].status = "in_progress",
                      IsReview(rounds, r), NEW i \in IterationsOf(iters, r)
               PROVE  iters[i].input = Draft(Round2Outcome(rounds))
    BY DEF ReviewShowsSynthesis, InProgress, IsReview, IsType
  <2>1. ~Closed(rounds, r)
    BY DEF Closed, IsPair, IsReview
  <2>2. \A q \in DOMAIN rounds : IsArbitration(rounds, q) => q < r
    BY <1>4, <2>1
  <2> QED
    BY <1>1, <2>2 DEF CalmTables, Shown, IterationsOf
<1> QED
  BY <1>3, <1>5, <1>6

\* As long as no handler overtakes another and the operator requests nothing but
\* nudges, crashes and the interleaving of the statements leave the relay of the
\* pairs unbroken, the execution approved and the synthesis shown to its reviewers
\* (workflow.py, on_iteration_completed and on_review_emitted).
THEOREM UndisturbedSessionsAreSound == StepsSpec => []SoundWhenUndisturbed
<1>1. StepsInv /\ CalmInv /\ [StepsNext]_stepVars => CalmInv'
  BY CalmKept
<1>2. StepsSpec => []CalmInv
  BY <1>1, CalmInitInv, StepsSpecInv, PTL DEF StepsSpec
<1>3. StepsInv /\ CalmInv => SoundWhenUndisturbed
  BY CalmIsSound
<1> QED
  BY <1>2, <1>3, StepsSpecInv, PTL
=============================================================================
